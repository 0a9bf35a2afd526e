----------------------------- MODULE XMLParser -----------------------------
(***************************************************************************)
(* The reader of XML files: XMLLexer cuts the characters of a file, which   *)
(* come in chunks of half a buffer, into tokens; XMLParser makes of them     *)
(* opening and closing tags, values, remarks and headers (GetNextSyntex),   *)
(* and of these the fields of one group after another (GetNextValueGroup).  *)
(*                                                                          *)
(* A file is a sequence of characters.  Letters, digits and whatever else   *)
(* has no meaning to the lexer are members of a small set; every kind of    *)
(* white space, and the zero character, is Blank.  One action is one token, *)
(* with all that the loops of the parser do because of it.                  *)
(***************************************************************************)
EXTENDS Integers, Sequences, FiniteSetsExt, Functions

CONSTANT MaxValues      \* XML_MAX_NUMBER_OF_VALUE: 50

ASSUME MaxValuesAssumption == MaxValues \in Nat \ {0}

VARIABLES
    half,         \* XML_READ_BUFFER_SIZE: 65535; it does not change
    file,         \* the contents of the file that was opened last
    lexer,        \* m_buffer, m_pointer; buffer and m_readCount of the parser
    isOpen,       \* m_fileInputStream.is_open()
    level,        \* m_syntexlevel
    nextToken, preToken,
    pos,          \* where GetNextSyntex is, "out" outside of GetNextValueGroup
    syntex,       \* its type and its value
    values,       \* m_values
    count,        \* valueCount
    result        \* of the last GetNextValueGroup

parserVars == <<half, file, lexer, isOpen, level, nextToken, preToken, pos, syntex,
                values, count, result>>

Blank  == " "
Eof    == "EOF"
Marks  == {"<", ">", "!", "?", "/", "-"}
KindOf == [c \in Marks |-> CASE c = "<" -> "LQ" [] c = ">" -> "RQ" [] c = "!" -> "EM"
                             [] c = "?" -> "QM" [] c = "/" -> "SLASH" [] c = "-" -> "DASH"]

NoValue == [text |-> <<>>, whole |-> TRUE]
Garbage(type) == [type |-> type, text |-> <<>>, whole |-> TRUE]
Chunk(c) == [i \in 1 .. half |-> c]
-----------------------------------------------------------------------------
(* XMLLexer::SetBuffer: the second half becomes the first.                  *)
SetBufferMutant(l) ==
    [l EXCEPT !.mem = SubSeq(@, half + 1, 2 * half) \o l.chunk,
              !.pointer = IF @ >= half THEN 0 ELSE @]

SetBuffer(l) ==
    [l EXCEPT !.mem = SubSeq(@, half + 1, 2 * half) \o l.chunk,
              !.pointer = IF @ >= half THEN @ - half ELSE @]

(* ReadNext: a chunk of the file f, of which the last one may be short and  *)
(* then ends in what the chunk held before; after the file an EOF.  `clean` *)
(* records that no such rest was kept.                                      *)
ReadNextMutant(l, f) ==
    LET size == Min({half, Len(f) - l.read})
        rest == SubSeq(f, l.read + 1, l.read + size) \o SubSeq(l.chunk, size + 1, half)
    IN  IF l.read >= Len(f)
        THEN l
        ELSE SetBuffer([l EXCEPT !.chunk = rest, !.read = @ + size,
                                 !.clean = \A i \in size + 1 .. half : rest[i] = Blank])

ReadNext(l, f) ==
    LET size == Min({half, Len(f) - l.read})
        rest == SubSeq(f, l.read + 1, l.read + size) \o SubSeq(l.chunk, size + 1, half)
    IN  IF l.read >= Len(f)
        THEN SetBuffer([l EXCEPT !.chunk = [Chunk(Blank) EXCEPT ![1] = Eof]])
        ELSE SetBuffer([l EXCEPT !.chunk = rest, !.read = @ + size,
                                 !.clean = \A i \in size + 1 .. half : rest[i] = Blank])

(* OpenXmlFile, with ResetBuffer. *)
OpenXmlFile(f) ==
    /\ file' = f /\ isOpen' = TRUE /\ level' = 0
    /\ LET empty == [lexer EXCEPT !.mem = Chunk(Blank) \o Chunk(Blank), !.pointer = 0, !.read = 0,
                                  !.clean = TRUE]
       IN  lexer' = ReadNext(ReadNext(empty, file'), file')

(* XMLLexer::GetNextToken, GetWord and CheckDoubleDash: the token after the *)
(* blanks from the pointer on, and the pointer after it; LOST when the      *)
(* buffer ends before the token does.                                       *)
Shown(l)      == {i \in l.pointer + 1 .. 2 * half : l.mem[i] # Blank}
WordEnds(l,i) == {j \in i + 1 .. 2 * half : l.mem[j] \in Marks \cup {Blank, Eof}}
TokenAt(type, l, from, to) ==
    [token |-> [type |-> type, text |-> SubSeq(l.mem, from, to), whole |-> TRUE], pointer |-> to]

LexerToken(l) ==
    IF Shown(l) = {} THEN TokenAt("LOST", l, 1, 0)
    ELSE LET i == Min(Shown(l))
             c == l.mem[i]
         IN  CASE c = Eof -> TokenAt("EOF", l, i, i)
               [] c = "-" /\ i = 2 * half -> TokenAt("LOST", l, 1, 0)
               [] c = "-" /\ i < 2 * half -> IF l.mem[i + 1] = "-" THEN TokenAt("DD", l, i, i + 1)
                                                                   ELSE TokenAt("DASH", l, i, i)
               [] c \in Marks \ {"-"} -> TokenAt(KindOf[c], l, i, i)
               [] OTHER -> IF WordEnds(l, i) = {} THEN TokenAt("LOST", l, 1, 0)
                           ELSE TokenAt("WORD", l, i, Min(WordEnds(l, i)) - 1)

(* CombineWord: a blank goes between the two, and no zero behind. *)
CombineWordMutant(left, right) ==
    [right EXCEPT !.text = left.text \o @, !.whole = FALSE]

CombineWord(left, right) ==
    [right EXCEPT !.text = left.text \o <<Blank>> \o @, !.whole = FALSE]
-----------------------------------------------------------------------------
Return(r) == pos' = "out" /\ result' = r
Resume    == pos' = "start" /\ UNCHANGED result

(* GetNextValueGroup is called. *)
BeginGroup == /\ pos = "out"
              /\ pos' = "start" /\ count' = 0
              /\ UNCHANGED <<half, file, lexer, isOpen, level, nextToken, preToken, syntex,
                             values, result>>

(* What GetNextValueGroup does with the type and the value of a syntax.     *)
Opened(value) ==
    /\ level' = level + 1
    /\ IF count < MaxValues THEN values' = [values EXCEPT ![count + 1].name = value] /\ Resume
                            ELSE UNCHANGED values /\ Return("lost")
    /\ UNCHANGED <<isOpen, count>>

ClosedMutant ==
    /\ level' = level - 1
    /\ CASE level' = 1 -> Return("group") /\ UNCHANGED isOpen
         [] level' = 0 -> Resume /\ isOpen' = FALSE
         [] OTHER      -> Resume /\ UNCHANGED isOpen
    /\ UNCHANGED <<values, count>>

Closed ==
    /\ level' = level - 1
    /\ CASE level' = 1 -> Return("group") /\ UNCHANGED isOpen
         [] level' = 0 -> Return("end") /\ isOpen' = FALSE
         [] OTHER      -> Resume /\ UNCHANGED isOpen
    /\ UNCHANGED <<values, count>>

Valued(value) ==
    /\ CASE level = 0 -> Resume /\ UNCHANGED <<values, count>>
         [] level = 3 /\ count < MaxValues ->
                values' = [values EXCEPT ![count + 1].value = value] /\ count' = count + 1 /\ Resume
         [] level = 3 /\ count = MaxValues -> Return("lost") /\ UNCHANGED <<values, count>>
         [] OTHER -> Return("error") /\ UNCHANGED <<values, count>>
    /\ UNCHANGED <<level, isOpen>>

Ignored == Resume /\ UNCHANGED <<level, isOpen, values, count>>
Within  == UNCHANGED <<result, level, isOpen, values, count>>

(* GetNextSyntex asks the lexer for a token, unless the last one is a `<`   *)
(* that starts a syntax.                                                    *)
Wants == pos # "out" /\ ~ (pos = "start" /\ nextToken.type = "LQ")

(* The next token is in the other half of the buffer. *)
Refill ==
    /\ Wants /\ lexer.pointer >= half
    /\ lexer' = ReadNext(lexer, file)
    /\ UNCHANGED <<half, file, isOpen, level, nextToken, preToken, pos, syntex, values, count, result>>

(* The `<` that ended a value starts the next syntax. *)
KeepToken ==
    /\ pos = "start" /\ nextToken.type = "LQ"
    /\ pos' = "tag" /\ preToken' = nextToken
    /\ syntex' = [type |-> "SYNTEX_ERROR", value |-> NoValue]
    /\ UNCHANGED <<half, file, lexer, nextToken>> /\ Within

(* A token t is read: at the start of a syntax, ... *)
AtStart(t) ==
    /\ pos = "start"
    /\ preToken' = t /\ nextToken' = t
    /\ \/ t.type = "LQ" /\ pos' = "tag" /\ syntex' = [type |-> "SYNTEX_ERROR", value |-> NoValue]
       \/ t.type # "LQ" /\ pos' = "body" /\ syntex' = [type |-> "VALUE", value |-> NoValue]
    /\ Within

(* ... after a `<`, ... *)
AtTag(t) ==
    /\ pos = "tag" /\ nextToken' = t
    /\ LET type == [WORD |-> "OPEN", SLASH |-> "CLOSE", EM |-> "REMARK", QM |-> "HEADER"]
       IN  \/ /\ t.type \in DOMAIN type
              /\ syntex' = [syntex EXCEPT !.type = type[t.type]]
              /\ pos' = IF t.type = "WORD" THEN "body" ELSE "first"
              /\ preToken' = IF t.type = "WORD" THEN t ELSE preToken
              /\ Within
           \/ /\ t.type \notin DOMAIN type
              /\ Return("error")
              /\ UNCHANGED <<syntex, preToken, level, isOpen, values, count>>

(* ... the first one behind </, <! or <?, ... *)
AtFirst(t) == /\ pos = "first" /\ pos' = "body" /\ preToken' = t /\ nextToken' = t
              /\ UNCHANGED syntex /\ Within

(* ... or one that ends the syntax or belongs to it. *)
TagValue == IF syntex.value = NoValue THEN [text |-> preToken.text, whole |-> preToken.whole]
                                      ELSE syntex.value
Ends(t) == CASE syntex.type = "VALUE"  -> t.type = "LQ"
             [] syntex.type = "REMARK" -> t.type = "RQ" /\ preToken.type = "DD"
             [] syntex.type = "HEADER" -> t.type = "RQ" /\ preToken.type = "QM"
             [] OTHER                  -> t.type = "RQ"

AtEnd(t) ==
    /\ pos = "body" /\ Ends(t) /\ nextToken' = t
    /\ CASE syntex.type = "VALUE" -> Valued([text |-> preToken.text, whole |-> preToken.whole])
         [] syntex.type = "OPEN"  -> Opened(TagValue)
         [] syntex.type = "CLOSE" -> Closed
         [] OTHER                 -> Ignored
    /\ UNCHANGED <<preToken, syntex>>

Inside(t) ==
    /\ pos = "body" /\ ~ Ends(t) /\ pos' = "body"
    /\ preToken' = IF syntex.type = "VALUE" THEN CombineWord(preToken, t) ELSE t
    /\ nextToken' = preToken'
    /\ syntex' = IF syntex.type \in {"OPEN", "CLOSE"} THEN [syntex EXCEPT !.value = TagValue]
                                                      ELSE syntex
    /\ Within

Read ==
    /\ Wants /\ lexer.pointer < half
    /\ \E r \in {LexerToken(lexer)} : LET t == r.token
       IN  /\ lexer' = [lexer EXCEPT !.pointer = r.pointer]
           /\ \/ /\ t.type \notin {"EOF", "LOST"}
                 /\ AtStart(t) \/ AtTag(t) \/ AtFirst(t) \/ AtEnd(t) \/ Inside(t)
              \/ /\ t.type \in {"EOF", "LOST"}
                 /\ Return(CASE t.type = "LOST" -> "lost" [] pos = "first" -> "error" [] OTHER -> "eof")
                 /\ UNCHANGED <<nextToken, preToken, syntex, level, isOpen, values, count>>
    /\ UNCHANGED <<half, file>>

ParserNext == Refill \/ KeepToken \/ Read
=============================================================================
