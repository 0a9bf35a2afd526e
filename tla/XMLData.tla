------------------------------ MODULE XMLData ------------------------------
(***************************************************************************)
(* A loader of game data (MapData, QuestData, QuestActionData): it reads     *)
(* the groups of an XML file with XMLParser, converts their fields           *)
(* (XMLReader) and stores a row for each in XMLTable, while another process  *)
(* looks keys up.  The loaders differ in the names of their fields and in    *)
(* where the first row goes: a new process starts at slot 0 with an          *)
(* uninitialised parser, QuestActionData reads one file after another with   *)
(* the same parser and goes on after the last row.                           *)
(*                                                                          *)
(* A document is a record of the characters before its root and between its  *)
(* elements (prolog, gap), of those in the tag of a group behind the name    *)
(* (attributes), of its groups, each a sequence of fields with a name and    *)
(* the words of a value, and of the number of its characters that the file   *)
(* has (cut); it may be Whole, or Missing.                                  *)
(***************************************************************************)
EXTENDS XMLParser, XMLTable, SequencesExt

CONSTANT Scripts    \* what is loaded: the value of half, the character and the number
                    \*   in uninitialised memory (filler, left), the keys looked up
                    \*   (targets), and the documents in turn, each with whether a
                    \*   new process loads it (jobs)

VARIABLES
    script,
    pc,       \* of the loader: before a load, in a new process, between two calls
              \*   of GetNextValueGroup, in one, in undefined behaviour
    index,    \* i of the loader
    row,      \* the record on the stack of the loader
    goal,     \* history: what there is to read in the file, whether the file is
              \*   whole and within the parser's limits, and whether the parser's
              \*   last token was a `<`
    groups    \* history: the groups of the file that were stored

loaderVars == <<script, pc, index, row, goal, groups>>
vars == <<parserVars, tableVars, searchVars, loaderVars>>

Whole   == 0
Missing == -1

Job == Head(script.jobs)
Doc == Job.doc
-----------------------------------------------------------------------------
(* How a document is written: words with blanks between them, a mark without. *)
IsMark(word) == Len(word) = 1 /\ word[1] \in Marks
Joined(words, marksTight) ==
    FlattenSeq([i \in DOMAIN words |->
        IF i = 1 \/ (marksTight /\ (IsMark(words[i - 1]) \/ IsMark(words[i]))) THEN words[i]
                                                                          ELSE <<Blank>> \o words[i]])

Tag(name)    == <<"<", name, ">">>
EndTag(name) == <<"<", "/", name, ">">>

Written(doc) ==
    LET Field(f) == Tag(f.name) \o Joined(f.words, TRUE) \o EndTag(f.name) \o doc.gap
        Group(g) == <<"<", "g">> \o doc.attributes \o <<">">> \o doc.gap
                        \o FlattenSeq([i \in DOMAIN g |-> Field(g[i])]) \o EndTag("g")
    IN  doc.prolog \o Tag("r") \o doc.gap
            \o FlattenSeq([i \in DOMAIN doc.groups |-> Group(doc.groups[i])])
            \o doc.gap \o EndTag("r")

(* What there is to read in it: a field without a value is left out, and    *)
(* there is a blank between any two words.                                  *)
Content(doc) ==
    [i \in DOMAIN doc.groups |-> SelectSeq(doc.groups[i], LAMBDA f : f.words # <<>>)]
FieldsOf(group) ==
    [j \in DOMAIN group |-> [name |-> <<group[j].name>>,
                             text |-> Joined(group[j].words, FALSE)]]

(* The limits of the parser: the fields of a group, and the length of a     *)
(* token with the blanks before it.                                         *)
TokensFit(f) ==
    \A i \in 1 .. Len(f) - half : \E j \in i .. i + half - 1 :
        \/ f[j] \in Marks
        \/ f[j] # Blank /\ f[j + 1] \in Marks \cup {Blank}
Fits(doc, f) == TokensFit(f) /\ \A g \in Range(doc.groups) : Len(g) <= MaxValues
-----------------------------------------------------------------------------
(* XMLReader. *)
DigitOf == [d \in {"0", "1", "2", "3", "4"} |->
               CASE d = "0" -> 0 [] d = "1" -> 1 [] d = "2" -> 2 [] d = "3" -> 3 [] d = "4" -> 4]
Digits  == DOMAIN DigitOf

(* The digits of s from position i on, as a number. *)
NumberAt(s, i) ==
    LET end == Min({j \in i .. Len(s) + 1 : j = Len(s) + 1 \/ s[j] \notin Digits})
    IN  FoldLeft(LAMBDA n, d : 10 * n + DigitOf[d], 0, SubSeq(s, i, end - 1))
FirstDigit(s) == Min({i \in DOMAIN s : s[i] \in Digits})
HasDigit(s)   == \E i \in DOMAIN s : s[i] \in Digits

(* ConvertToInt of an unsigned and of a signed number: what comes before    *)
(* the digits is skipped, but for a minus sign; without digits it is 0.     *)
ConvertToUnsignedMutant(s) == IF HasDigit(s) THEN DigitOf[s[FirstDigit(s)]] ELSE 0

ConvertToUnsigned(s) == IF HasDigit(s) THEN NumberAt(s, FirstDigit(s)) ELSE 0
ConvertToInt(s) ==
    IF HasDigit(s) /\ \E i \in 1 .. FirstDigit(s) : s[i] = "-" THEN - ConvertToUnsigned(s)
                                                               ELSE ConvertToUnsigned(s)

(* atoi: blanks, a minus sign, digits. *)
Atoi(s) ==
    LET Shows == {i \in DOMAIN s : s[i] # Blank}
        first == Min(Shows)
        Number(i) == IF i \in DOMAIN s /\ s[i] \in Digits THEN NumberAt(s, i) ELSE 0
    IN  IF Shows = {} THEN 0
        ELSE IF s[first] = "-" THEN - Number(first + 1) ELSE Number(first)

(* ConvertToIntegerArray: the numbers between separators; the rest of the   *)
(* array stays.                                                             *)
ConvertToIntegerArray(s, array) ==
    LET cuts == SetToSortSeq({0, Len(s) + 1} \cup {i \in DOMAIN s : s[i] \in {",", "/"}}, <)
    IN  [n \in DOMAIN array |->
            IF n < Len(cuts) THEN Atoi(SubSeq(s, cuts[n] + 1, cuts[n + 1] - 1)) ELSE array[n]]

(* The value a field gets from the group, of which the last byte is no zero *)
(* when words were combined.                                                *)
Text(value, junk) == IF value.whole THEN value.text ELSE Append(value.text, junk)

(* The record on the stack after the fields of a group: a field that the    *)
(* group lacks keeps its value, the last one of a name counts, and a list   *)
(* is written over the lists of its name before it.                         *)
Converted(junk) ==
    LET Given(name) == {j \in 1 .. count : values[j].name.text = <<name>>}
        FieldOr(name, convert(_), old) ==
            IF Given(name) = {} THEN old
                                ELSE convert(Text(values[Max(Given(name))].value, junk))
    IN  [key   |-> FieldOr("k", ConvertToUnsigned, row.key),
         floor |-> FieldOr("f", ConvertToInt, row.floor),
         list  |-> FoldLeft(LAMBDA list, j : ConvertToIntegerArray(Text(values[j].value, junk), list),
                            row.list, SetToSortSeq(Given("l"), <))]
-----------------------------------------------------------------------------
(* What is in the record before a field is stored in it. *)
Leftover(s) == [key |-> s.left, floor |-> s.left, list |-> <<s.left, s.left>>]

(* A process starts: its parser is what its memory holds. *)
Uninitialised(s, type) ==
    /\ lexer' = [mem |-> [i \in 1 .. 2 * s.half |-> Blank], pointer |-> 0,
                 chunk |-> [i \in 1 .. s.half |-> s.filler], read |-> 0, clean |-> TRUE]
    /\ nextToken' = Garbage(type) /\ preToken' = Garbage("WORD")
    /\ isOpen' = FALSE
    /\ values' = [j \in 1 .. MaxValues |-> [name |-> NoValue, value |-> NoValue]]
    /\ index' = 0 /\ row' = Leftover(s) /\ groups' = <<>>

StartProcess ==
    /\ pc = "start" /\ script.jobs # <<>> /\ Job.fresh
    /\ pc' = "open"
    /\ \E type \in {"LQ", "WORD"} : Uninitialised(script, type)
    /\ UNCHANGED <<half, file, level, pos, syntex, count, result, tableVars, searchVars,
                   script, goal>>

(* A load returns; after an error its process loads no further file.        *)
EndLoad  == pc' = "start" /\ script' = [script EXCEPT !.jobs = Tail(@)]
FailLoad == /\ pc' = "start"
            /\ script' = [script EXCEPT !.jobs =
                   LET next == {i \in 2 .. Len(@) : @[i].fresh}
                   IN  IF next = {} THEN <<>> ELSE SubSeq(@, Min(next), Len(@))]

(* SetXmlPath: refused when there is no such file, or the parser has not    *)
(* closed its last one.                                                     *)
SetXmlPath ==
    /\ pc = "open" \/ (pc = "start" /\ script.jobs # <<>> /\ ~ Job.fresh)
    /\ \/ /\ isOpen \/ Doc.cut = Missing
          /\ FailLoad
          /\ UNCHANGED <<parserVars, row, goal, groups>>
       \/ /\ ~ isOpen /\ Doc.cut # Missing
          /\ pc' = "ask"
          /\ OpenXmlFile(IF Doc.cut = Whole THEN Written(Doc) ELSE SubSeq(Written(Doc), 1, Doc.cut))
          /\ goal' = [content |-> Content(Doc), whole |-> Doc.cut = Whole,
                      fits |-> Fits(Doc, file'), misread |-> nextToken.type = "LQ"]
          /\ groups' = <<>> /\ row' \in {row, Leftover(script)}
          /\ UNCHANGED <<half, nextToken, preToken, pos, syntex, values, count, result, script>>
    /\ UNCHANGED <<index, tableVars, searchVars>>

GetNextValueGroup ==
    /\ pc = "ask" /\ pc' = "parse"
    /\ BeginGroup
    /\ UNCHANGED <<script, index, row, goal, groups, tableVars, searchVars>>

Parse == /\ pc = "parse" /\ ParserNext
         /\ UNCHANGED <<loaderVars, tableVars, searchVars>>

(* The group becomes a row; without a slot for it the load fails.           *)
Group == [j \in 1 .. count |-> [name |-> values[j].name.text, text |-> values[j].value.text]]

StoreGroup ==
    /\ pc = "parse" /\ pos = "out" /\ result = "group"
    /\ \E junk \in {Blank, "1", ","} : row' = Converted(junk)
    /\ \/ /\ index < MaxSize
          /\ pc' = "ask" /\ index' = index + 1
          /\ Store(index, row') /\ groups' = Append(groups, Group)
          /\ UNCHANGED script
       \/ /\ index = MaxSize
          /\ FailLoad
          /\ UNCHANGED <<index, groups, tableVars, searchVars>>
    /\ UNCHANGED <<goal, parserVars>>

(* GetNextValueGroup answers that there is no further group, or runs out of *)
(* its memory.                                                              *)
EndGroups ==
    /\ pc = "parse" /\ pos = "out" /\ result # "group"
    /\ CASE result = "lost"  -> pc' = "lost" /\ UNCHANGED script
         [] result = "error" -> FailLoad
         [] OTHER            -> EndLoad
    /\ UNCHANGED <<index, row, goal, groups, parserVars, tableVars, searchVars>>

LookUp(k) == /\ k \in script.targets
             /\ GetXMLData(k)
             /\ script' = [script EXCEPT !.targets = @ \ {k}]
             /\ UNCHANGED <<parserVars, pc, index, row, goal, groups>>

Search == Probe /\ UNCHANGED <<parserVars, loaderVars>>

Loader == \/ StartProcess \/ SetXmlPath \/ GetNextValueGroup \/ Parse \/ StoreGroup \/ EndGroups

Init == /\ script \in Scripts
        /\ half = script.half /\ file = <<>>
        /\ lexer = [mem |-> <<>>, pointer |-> 0, chunk |-> <<>>, read |-> 0, clean |-> TRUE]
        /\ isOpen = FALSE /\ level = 0
        /\ nextToken = Garbage("WORD") /\ preToken = Garbage("WORD")
        /\ pos = "out" /\ syntex = [type |-> "SYNTEX_ERROR", value |-> NoValue]
        /\ values = <<>> /\ count = 0 /\ result = "none"
        /\ pc = "start" /\ index = 0 /\ row = Leftover(script)
        /\ goal = [content |-> <<>>, whole |-> FALSE, fits |-> FALSE, misread |-> FALSE]
        /\ groups = <<>>
        /\ TableInit

Next == Loader \/ Search \/ \E k \in script.targets : LookUp(k)

Spec == Init /\ [][Next]_vars /\ WF_vars(Loader)
-----------------------------------------------------------------------------
(* Every variable keeps its type; the parser never is above the root, and   *)
(* never writes behind its 50 values.                                       *)
TypeOK ==
    /\ pc \in {"start", "open", "ask", "parse", "lost"}
    /\ index \in 0 .. MaxSize /\ row \in Rows
    /\ table \in [DOMAIN table -> Rows] /\ DOMAIN table \subseteq Slots
    /\ phase \in {"idle", "probing", "found", "missing"} /\ steady \in BOOLEAN
    /\ isOpen \in BOOLEAN /\ level \in Nat /\ count \in 0 .. MaxValues
    /\ lexer.pointer \in 0 .. 2 * half /\ lexer.read \in 0 .. Len(file)
    /\ pc \in {"ask", "parse"} => Len(lexer.mem) = 2 * half /\ Len(values) = MaxValues
    /\ pos \in {"out", "start", "tag", "first", "body"}
    /\ result \in {"none", "group", "end", "eof", "error", "lost"}

(* The parser began with a token that is not a `<`, and reads a whole file  *)
(* or one whose last chunk holds nothing old.                               *)
Readable == ~ goal.misread /\ (goal.whole \/ lexer.clean)
Answered == pc = "parse" /\ pos = "out"

(* Of a readable file the groups come out in turn as they were written,     *)
(* wherever the halves of the buffer cut it and whatever comments, headers, *)
(* attributes and blanks it has, and all of them before the parser says     *)
(* that there are no more; of a truncated one a part from the front.        *)
GroupsAsWritten ==
    Readable => LET written == [i \in DOMAIN goal.content |-> FieldsOf(goal.content[i])]
                IN  /\ IsPrefix(groups, written)
                    /\ Answered /\ result = "end" => groups = written

(* A whole file within the limits is read to its end: no error, no end of   *)
(* file before it, and nothing read or written outside the buffers.         *)
ReadsToTheEnd ==
    ~ goal.misread /\ goal.whole /\ goal.fits =>
        pc # "lost" /\ (Answered => result \in {"group", "end"})

(* What a number in a field is: the first word of digits, negative behind a *)
(* dash; the code leaves open where a last word of several ends.            *)
IsNumber(word) == word # <<>> /\ Range(word) \subseteq Digits
Numbers(words) == {i \in DOMAIN words : IsNumber(words[i])}
ValueOf(word)  == SumFunction([i \in DOMAIN word |-> DigitOf[word[i]] * 10 ^ (Len(word) - i)])
Definite(words) == Len(words) = 1 \/ \E i \in Numbers(words) : i < Len(words)
NumberIn(words) == IF Numbers(words) = {} THEN 0 ELSE ValueOf(words[Min(Numbers(words))])
SignIn(words)   == IF Numbers(words) # {} /\ \E i \in 1 .. Min(Numbers(words)) : words[i] = <<"-">>
                   THEN -1 ELSE 1

(* The rows of a readable file are in consecutive slots, behind those of the *)
(* file before, each with the numbers of its own group.  Where the group     *)
(* has no field, or a list with fewer numbers, the value of the row before   *)
(* stays.                                                                   *)
RowsAsWritten ==
    Readable => \A i \in DOMAIN groups \cap DOMAIN goal.content :
        LET slot == index - Len(groups) + i - 1
            Of(name) == {j \in DOMAIN goal.content[i] : goal.content[i][j].name = name}
            Words(name) == goal.content[i][Max(Of(name))].words
            Is(name, got, number, before) ==
                IF Of(name) = {} THEN i > 1 => got = before
                                 ELSE Definite(Words(name)) => got = number
            ListIs(words, n, got, before) ==
                LET numbers == SetToSortSeq(Numbers(words), <)
                IN  CASE n < Len(numbers) -> got = ValueOf(words[numbers[n]])
                      [] n = Len(numbers) -> Len(words) = 1 => got = ValueOf(words[numbers[n]])
                      [] OTHER            -> i > 1 /\ Len(words) = 1 => got = before
        IN  /\ slot \in DOMAIN table
            /\ Is("k", table[slot].key, NumberIn(Words("k")), table[slot - 1].key)
            /\ Is("f", table[slot].floor, SignIn(Words("f")) * NumberIn(Words("f")),
                       table[slot - 1].floor)
            /\ \A n \in DOMAIN table[slot].list :
                IF Of("l") = {} THEN i > 1 => table[slot].list[n] = table[slot - 1].list[n]
                ELSE ListIs(Words("l"), n, table[slot].list[n], table[slot - 1].list[n])

(* A load returns, or runs out of the parser's memory, however its file was *)
(* cut off.                                                                 *)
LoadEnds == pc = "ask" ~> pc \in {"start", "lost"}
=============================================================================
