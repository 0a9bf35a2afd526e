----------------------------- MODULE MCXMLData -----------------------------
(***************************************************************************)
(* The files, buffer sizes and searches of the runs of XMLData.  A token    *)
(* with the blanks before it is at most three characters long, or five       *)
(* where two gaps meet: half a buffer of four characters cuts the documents  *)
(* everywhere and is too small for some.                                    *)
(***************************************************************************)
EXTENDS XMLData

MCRows == [key : {0, 1, 3, 23, 30}, floor : {-121, -12, 0, 1, 3, 4, 23, 30},
           list : [1 .. 2 -> {0, 1, 2, 3, 21, 30}]]

Num1 == <<<<"1">>>>                       \* 1
Num2 == <<<<"2", "3">>>>                  \* 23
Num3 == <<<<"3", "0">>>>                  \* 30
Minus == <<<<"-">>, <<"1", "2">>>>        \* -12
List  == <<<<"1">>, <<"/">>, <<"2">>>>    \* 1/2
Texts == {<<>>, <<<<"x", "x">>>>, <<<<"4">>, <<"x">>>>, Num2, Minus, List}

Field(name, words) == [name |-> name, words |-> words]
Row(key, words)     == <<Field("k", key), Field("f", words)>>
ListRow(key, words) == <<Field("k", key), Field("l", words)>>

Comment == <<"<", "!", "-", "-", "c", ">", "-", "-", ">">>
Header  == <<"<", "?", "h", " ", "v", "?", ">">>
Prologs == {<<>>, <<"b">> \o Header, Comment}
Gaps    == {<<>>, <<" ">>, <<" ", " ">>, Comment}

NewFile(prolog, gap, attributes, gs, cut) ==
    [prolog |-> prolog, gap |-> gap, attributes |-> attributes, groups |-> gs, cut |-> cut]
Plain(gs) == NewFile(<<>>, <<>>, <<>>, gs, Whole)
Load(doc)  == [doc |-> doc, fresh |-> TRUE]
Again(doc) == [doc |-> doc, fresh |-> FALSE]
Run(size, filler, left, targets, jobs) ==
    [half |-> size, filler |-> filler, left |-> left, targets |-> targets, jobs |-> jobs]

(* Whole files of every form, and the chunks of the smallest buffers. *)
Forms == {NewFile(p, g, IF g = <<" ">> THEN <<" ", "a">> ELSE <<>>, gs, Whole) :
              p \in Prologs, g \in Gaps,
              gs \in {<<>>} \cup {<<Row(Num1, w)>> : w \in Texts}
                     \cup {<<Row(Num2, Num1), Row(Num3, w)>> : w \in Texts}
                     \cup {<<<<>>>>, <<Row(Num1, Num2), <<Field("f", Num3)>>>>,
                           <<ListRow(Num1, List), ListRow(Num2, Num3)>>,
                           <<[i \in 1 .. 4 |-> Field("f", Num1)]>>,
                           <<Row(Num1, Num2) \o <<Field("f", Num3), Field("k", Num3)>> >>}}
FormScripts == {Run(h, " ", 3, {}, <<Load(d)>>) : h \in {4, 5, 6, 30}, d \in Forms}

(* One file cut off anywhere, then a second by the same parser. *)
Cut(c) == NewFile(Comment, <<" ">>, <<>>, <<Row(Num1, Num2), Row(Num2, List)>>, c)
CutScripts == {Run(h, f, 3, {}, <<Load(Cut(c)), Again(Plain(<<Row(Num2, <<>>)>>))>>) :
                   h \in {4, 6, 30}, f \in {" ", "x", "<"}, c \in 1 .. Len(Written(Cut(Whole))) - 1}

(* Files in turn, by one process and by several, and searches meanwhile. *)
One == Plain(<<Row(Num1, Num1)>>)
Two == Plain(<<Row(Num1, Num2), Row(Num2, Num1)>>)
Three == Plain(<<Row(Num1, Minus), Row(Num2, Num1), Row(Num3, Num1)>>)
Gone  == NewFile(<<>>, <<>>, <<>>, <<>>, Missing)
Mixed == Plain(<<Row(Num3, Num2), Row(Num1, Num2)>>)
TableScripts == {Run(30, " ", 3, {1, 23, 30}, jobs) :
                     jobs \in {<<Load(One), Again(Two)>>, <<Load(One), Again(Gone), Again(Two)>>, <<Load(Three), Load(Two)>>,
                               <<Load(Two), Again(Two)>>, <<Load(Mixed), Load(Three)>>,
                               <<Load(Three), Load(One), Load(Three)>>}}

MCScripts == FormScripts \cup CutScripts \cup TableScripts
=============================================================================
