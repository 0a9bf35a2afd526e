---------------------------- MODULE EventTimerLists ----------------------------
(***************************************************************************)
(* The lists of EventTimerWheel stay sound, and no event or entry is lost,  *)
(* when calls fall between ticks and the functions of events only add       *)
(* events: the proof for any number of threads, slots and entries, and for  *)
(* a process that is stopped anywhere and started again.                    *)
(*                                                                          *)
(* An event goes from list to list through the hands of a thread: it leaves *)
(* its list with its own links unchanged (Bypassed), is erased, filled      *)
(* (Lone) and linked again, while HeadKeyPointer still names an entry of    *)
(* the list the timer thread walks.                                         *)
(***************************************************************************)
EXTENDS EventTimerProofs

(* The calls of which that is true: other threads call AddTimeOut and       *)
(* RemoveEvent, the functions of events AddTimeOut without overriding, and  *)
(* what repeats repeats for ever (a counted repetition ends with its entry  *)
(* still in use, line 515).                                                 *)
EndlessOnly(calls) == \A c \in calls : c.repeat => c.repeatCount < 0

QuietCalls ==
    /\ \A c \in ClientCalls : c.pc \in {"select", "remove"}
    /\ \A c \in CallbackCalls : c.pc = "select" /\ ~ c.overriding
    /\ EndlessOnly(ClientCalls) /\ EndlessOnly(CallbackCalls)
-----------------------------------------------------------------------------
ListsOK ==
    /\ \A w \in Wheels, s \in Slots :
          head[w][s] # 0 =>
             /\ ev[head[w][s]].pre = 0
             /\ \A v \in Wheels, r \in Slots : head[v][r] = head[w][s] => v = w /\ r = s
    /\ \A t \in AllListed : /\ ev[t].tid = t
                            /\ ev[t].next # 0 => ev[ev[t].next].pre = t

(* An entry in no list, free or filled, has no neighbours. *)
Apart(t) == t \notin AllListed /\ ev[t].tid \in {0, t} /\ ev[t].pre = 0 /\ ev[t].next = 0
Lone(t)  == Apart(t) /\ ev[t].tid = t

(* An entry that has left its list, and whose neighbours know.              *)
Bypassed(t) ==
    /\ t \notin AllListed /\ ev[t].tid = t
    /\ ev[t].pre # 0 => ev[t].pre \in AllListed /\ ev[ev[t].pre].next = ev[t].next
    /\ ev[t].next # 0 => ev[t].next \in AllListed /\ ev[ev[t].next].pre = ev[t].pre

(* The timer thread adds t again and has not yet erased its entry.          *)
Handing(t) == call[Timer].pc \in {"select", "remove"} /\ call[Timer].tid = t

UnlistedOK == \A t \in Events \ AllListed : Apart(t) \/ Handing(t)

CallOK(p) == LET c == call[p]
             IN  /\ c.pc = "fill" => ev[c.tid].tid = 0
                 /\ c.pc \in {"ran", "link"} => Lone(c.tid)
                 /\ c.pc = "ran" => c.tid \notin DOMAIN due
                 /\ c.repeat => c.repeatCount < 0

Backs == {"sec_back", "minute_back", "hour_back"}

TimerCallOK ==
    /\ tick.pc \notin Backs => call[Timer].pc = "none"
    /\ call[Timer].pc \in {"select", "remove"} =>
          /\ call[Timer].overriding /\ call[Timer].tid \in Events
          /\ Bypassed(call[Timer].tid)

(* In the function of an event a call overrides nothing but the entry it    *)
(* holds itself, for a repetition; and that is not the timer thread's.      *)
Overrides(c) == c.pc = "remove" \/ (c.pc = "select" /\ c.overriding)

CallbackOK == InCallback => \A c \in Clients :
    /\ Overrides(call[c]) => call[c].tid \in Events /\ Lone(call[c].tid)
    /\ Overrides(call[c]) \/ call[c].pc \in {"ran", "link"} =>
          (call[Timer].pc = "ran" => call[c].tid # call[Timer].tid)

(* The wheel whose current slot the timer thread walks, or comes back to.   *)
WheelOf(pc) == CASE pc \in {"sec", "sec_back", "run"}          -> "second"
                 [] pc \in {"minute", "minute_back"}           -> "minute"
                 [] pc \in {"hour", "hour_back"}               -> "hour"
                 [] pc \in {"sleep", "lock", "dead"}           -> "none"

(* Where it goes on: at an entry in a list, and if that is the first of its *)
(* list, the list is the one it walks.                                      *)
AtSlot(t, w) == t # 0 => /\ t \in AllListed
                         /\ ev[t].pre = 0 => head[w][ptr[w]] = t

WalkOK == /\ tick.pc # "dead"
          /\ WheelOf(tick.pc) # "none" => AtSlot(tick.HeadKeyPointer, WheelOf(tick.pc))

RepeatOK == \A t \in Events : ev[t].repeat => ev[t].repeatCount < 0

DueOK == \A t \in DOMAIN due :
            ev[t].tid # 0 \/ (call[Timer].pc = "fill" /\ call[Timer].tid = t)

LInv == /\ TypeOK /\ ListsOK /\ UnlistedOK
        /\ \A p \in Processes : CallOK(p)
        /\ TimerCallOK /\ CallbackOK /\ WalkOK /\ RepeatOK /\ DueOK

(* An entry in use is in a list or held by a call.                          *)
Holding(c) == c.pc \in {"fill", "ran", "link"} \/ (c.pc \in {"select", "remove"} /\ c.overriding)
UsedHeld   == \A t \in Events : ev[t].tid # 0 =>
                 t \in AllListed \/ \E p \in Processes : Holding(call[p]) /\ call[p].tid = t
-----------------------------------------------------------------------------
(* The entries in lists are the smallest set that holds the lists.          *)
LEMMA ListedFacts ==
    TypeOK => /\ AllListed \subseteq Events /\ 0 \notin AllListed
              /\ HoldsLists(AllListed)
              /\ \A S \in SUBSET Events : HoldsLists(S) => AllListed \subseteq S
<1>. SUFFICES ASSUME TypeOK
              PROVE  /\ AllListed \subseteq Events /\ 0 \notin AllListed
                     /\ HoldsLists(AllListed)
                     /\ \A S \in SUBSET Events : HoldsLists(S) => AllListed \subseteq S
  OBVIOUS
<1>1. AllListed \subseteq Events /\ 0 \notin AllListed
  BY SizeFacts DEF AllListed
<1>2. \A S \in SUBSET Events : HoldsLists(S) => AllListed \subseteq S
  BY DEF AllListed
<1>3. ASSUME NEW w \in Wheels, NEW s \in Slots  PROVE head[w][s] \in AllListed \cup {0}
  <2>1. head[w][s] \in Events \cup {0}
    BY DEF TypeOK
  <2>2. \A S \in SUBSET Events : HoldsLists(S) => head[w][s] \in S \cup {0}
    BY DEF HoldsLists
  <2>. QED  BY <2>1, <2>2 DEF AllListed
<1>4. ASSUME NEW t \in AllListed  PROVE ev[t].next \in AllListed \cup {0}
  <2>1. ev[t].next \in Events \cup {0}
    BY <1>1, NextKeyType
  <2>2. \A S \in SUBSET Events : HoldsLists(S) => ev[t].next \in S \cup {0}
    <3>. SUFFICES ASSUME NEW S \in SUBSET Events, HoldsLists(S)  PROVE ev[t].next \in S \cup {0}
      OBVIOUS
    <3>1. t \in S
      BY <1>2
    <3>. QED  BY <3>1 DEF HoldsLists
  <2>. QED  BY <2>1, <2>2 DEF AllListed
<1>. QED  BY <1>1, <1>2, <1>3, <1>4 DEF HoldsLists

LEMMA ListedFactsNext ==
    (TypeOK => /\ AllListed \subseteq Events /\ 0 \notin AllListed
               /\ HoldsLists(AllListed)
               /\ \A S \in SUBSET Events : HoldsLists(S) => AllListed \subseteq S)'
BY ListedFacts, PTL

LEMMA HeadListed ==
    ASSUME TypeOK
    PROVE  /\ \A w \in Wheels, s \in Slots : head[w][s] # 0 => head[w][s] \in AllListed
           /\ \A t \in AllListed : /\ ev[t].next # 0 => ev[t].next \in AllListed
                                   /\ t \in Events /\ t # 0
BY ListedFacts DEF HoldsLists

(* Nothing in the lists changes. *)
LEMMA SameListed ==
    ASSUME TypeOK, TypeOK', head' = head, \A u \in AllListed : ev'[u].next = ev[u].next
    PROVE  AllListed' = AllListed
<1>1. AllListed' \subseteq AllListed
  <2>. DEFINE Closed(T) == /\ \A w \in Wheels, s \in Slots : head'[w][s] \in T \cup {0}
                           /\ \A t \in T : ev'[t].next \in T \cup {0}
  <2>1. \A T \in SUBSET Events : Closed(T) => AllListed' \subseteq T
    BY ListedFactsNext DEF HoldsLists
  <2>. QED  BY <2>1, ListedFacts DEF HoldsLists
<1>2. AllListed \subseteq AllListed'
  <2>. DEFINE S == AllListed \cap AllListed'
  <2>1. HoldsLists(S)
    <3>1. \A w \in Wheels, s \in Slots : /\ head[w][s] \in AllListed \cup {0}
                                       /\ head[w][s] \in AllListed' \cup {0}
      BY ListedFacts, ListedFactsNext DEF HoldsLists
    <3>2. \A t \in S : ev[t].next \in AllListed \cup {0} /\ ev[t].next \in AllListed' \cup {0}
      BY ListedFacts, ListedFactsNext DEF HoldsLists
    <3>. QED  BY <3>1, <3>2 DEF HoldsLists
  <2>2. S \in SUBSET Events
    BY ListedFacts
  <2>. QED  BY <2>1, <2>2, ListedFacts
<1>. QED  BY <1>1, <1>2

(* An entry of a list is the first of one, or its pre names the one before. *)
LEMMA PreFacts ==
    ASSUME TypeOK, ListsOK, NEW t \in AllListed
    PROVE  /\ ev[t].next # t /\ ev[t].pre # t /\ ev[t].pre \in {0} \cup Events
           /\ IF ev[t].pre = 0 THEN \E w \in Wheels, s \in Slots : head[w][s] = t
              ELSE /\ ev[t].pre \in AllListed /\ ev[ev[t].pre].next = t
                   /\ \A w \in Wheels, s \in Slots : head[w][s] # t
<1>. DEFINE S == {u \in AllListed :
                    /\ ev[u].pre # u
                    /\ IF ev[u].pre = 0 THEN \E w \in Wheels, s \in Slots : head[w][s] = u
                       ELSE ev[u].pre \in AllListed /\ ev[ev[u].pre].next = u}
<1>1. S \in SUBSET Events
  BY ListedFacts
<1>2. \A w \in Wheels, s \in Slots : head[w][s] # 0 => head[w][s] \in S
  BY HeadListed DEF ListsOK
<1>3. ASSUME NEW u \in S, ev[u].next # 0  PROVE ev[u].next \in S
  <2>1. u \in AllListed /\ ev[u].next \in AllListed /\ u # 0
    BY <1>3, HeadListed
  <2>2. ev[ev[u].next].pre = u
    BY <1>3, <2>1 DEF ListsOK
  <2>3. ev[u].next # u
    BY <2>2
  <2>. QED  BY <2>1, <2>2, <2>3
<1>4. HoldsLists(S)
  BY <1>2, <1>3 DEF HoldsLists
<1>5. t \in S
  <2>. HIDE DEF S
  <2>. QED  BY <1>1, <1>4, ListedFacts
<1>6. ev[t].next # t
  <2>. SUFFICES ASSUME ev[t].next = t  PROVE FALSE
    OBVIOUS
  <2>1. ev[t].pre = t
    BY HeadListed DEF ListsOK
  <2>. QED  BY <1>5, <2>1
<1>7. ev[t].pre # 0 => \A w \in Wheels, s \in Slots : head[w][s] # t
  BY HeadListed DEF ListsOK
<1>8. ev[t].pre \in {0} \cup Events
  BY HeadListed, SizeFacts DEF TypeOK, Entries
<1>. QED  BY <1>5, <1>6, <1>7, <1>8

(* Link puts an entry without neighbours in front of a list.                *)
LEMMA LinkListed ==
    ASSUME TypeOK, TypeOK', ListsOK, NEW t \in Events, Lone(t),
           NEW w \in Wheels, NEW s \in Slots,
           \A v \in Wheels, r \in Slots : head'[v][r] = IF v = w /\ r = s THEN t ELSE head[v][r],
           \A u \in Events : /\ ev'[u].next = IF u = t THEN head[w][s] ELSE ev[u].next
                             /\ ev'[u].pre = IF head[w][s] # 0 /\ u = head[w][s] THEN t ELSE ev[u].pre
                             /\ ev'[u].tid = ev[u].tid
    PROVE  AllListed' = AllListed \cup {t} /\ ListsOK'
<1>. DEFINE h == head[w][s]
            A == AllListed
            B == AllListed'
<1>1. /\ t \notin A /\ ev[t].tid = t /\ ev[t].next = 0 /\ ev[t].pre = 0 /\ t # 0
      /\ A \subseteq Events /\ h \in A \cup {0}
  BY ListedFacts, SizeFacts DEF Lone, Apart, HoldsLists
<1>2. /\ \A v \in Wheels, r \in Slots : head[v][r] \in A \cup {0}
      /\ \A u \in A : ev[u].next \in A \cup {0}
      /\ \A S \in SUBSET Events :
            (/\ \A v \in Wheels, r \in Slots : head[v][r] \in S \cup {0}
             /\ \A u \in S : ev[u].next \in S \cup {0}) => A \subseteq S
  BY ListedFacts DEF HoldsLists
<1>3. /\ \A v \in Wheels, r \in Slots : head'[v][r] \in B \cup {0}
      /\ \A u \in B : ev'[u].next \in B \cup {0}
      /\ \A S \in SUBSET Events :
            (/\ \A v \in Wheels, r \in Slots : head'[v][r] \in S \cup {0}
             /\ \A u \in S : ev'[u].next \in S \cup {0}) => B \subseteq S
      /\ B \subseteq Events
  BY ListedFactsNext DEF HoldsLists
<1>. HIDE DEF A, B
<1>4. B \subseteq A \cup {t}
  <2>1. A \cup {t} \in SUBSET Events
    BY <1>1
  <2>2. \A v \in Wheels, r \in Slots : head'[v][r] \in A \cup {t} \cup {0}
    BY <1>2
  <2>3. \A u \in A \cup {t} : ev'[u].next \in A \cup {t} \cup {0}
    BY <1>1, <1>2
  <2>. QED  BY <1>3, <2>1, <2>2, <2>3
<1>5. t \in B
  BY <1>1, <1>3
<1>6. A \subseteq B
  <2>1. h \in B \cup {0}
    BY <1>1, <1>3, <1>5
  <2>2. \A v \in Wheels, r \in Slots : head[v][r] \in B \cup {0}
    BY <1>3, <2>1
  <2>3. \A u \in B : ev[u].next \in B \cup {0}
    BY <1>1, <1>3
  <2>. QED  BY <1>2, <1>3, <2>2, <2>3
<1>7. B = A \cup {t}
  BY <1>4, <1>5, <1>6
<1>8. /\ \A v \in Wheels, r \in Slots : head[v][r] # 0 =>
            /\ ev[head[v][r]].pre = 0
            /\ \A x \in Wheels, y \in Slots : head[x][y] = head[v][r] => x = v /\ y = r
      /\ \A u \in A : ev[u].tid = u /\ (ev[u].next # 0 => ev[ev[u].next].pre = u)
  BY DEF ListsOK, A
<1>9. ASSUME NEW v \in Wheels, NEW r \in Slots, head'[v][r] # 0
      PROVE  /\ ev'[head'[v][r]].pre = 0
             /\ \A x \in Wheels, y \in Slots : head'[x][y] = head'[v][r] => x = v /\ y = r
  <2>1. CASE v = w /\ r = s
    <3>1. head'[v][r] = t /\ ev'[t].pre = 0
      BY <1>1, <2>1
    <3>2. \A x \in Wheels, y \in Slots : head[x][y] # t
      BY <1>1, <1>2
    <3>. QED  BY <2>1, <3>1, <3>2
  <2>2. CASE ~ (v = w /\ r = s)
    <3>1. head'[v][r] = head[v][r] /\ head[v][r] # 0
      BY <1>9, <2>2
    <3>2. head[v][r] # h /\ head[v][r] \in A /\ head[v][r] # t
      BY <1>1, <1>2, <1>8, <2>2, <3>1
    <3>3. ev'[head[v][r]].pre = 0
      BY <1>1, <1>8, <3>1, <3>2
    <3>. QED  BY <1>8, <3>1, <3>2, <3>3
  <2>. QED  BY <2>1, <2>2
<1>10. ASSUME NEW u \in B
       PROVE  ev'[u].tid = u /\ (ev'[u].next # 0 => ev'[ev'[u].next].pre = u)
  <2>1. CASE u = t
    BY <1>1, <2>1
  <2>2. CASE u # t
    <3>1. u \in A /\ ev'[u].next = ev[u].next /\ ev'[u].tid = u
      BY <1>1, <1>7, <1>8, <2>2
    <3>2. ASSUME ev[u].next # 0  PROVE ev'[ev[u].next].pre = u
      <4>1. ev[u].next \in A /\ ev[ev[u].next].pre = u /\ u # 0
        BY <1>1, <1>2, <1>8, <3>1, <3>2, SizeFacts
      <4>2. ev[u].next # h
        <5>1. h # 0 => ev[h].pre = 0
          BY <1>8
        <5>. QED  BY <3>2, <4>1, <5>1
      <4>. QED  BY <1>1, <4>1, <4>2
    <3>. QED  BY <3>1, <3>2
  <2>. QED  BY <2>1, <2>2
<1>11. ListsOK'
  BY <1>9, <1>10 DEF ListsOK, B
<1>. QED  BY <1>7, <1>11 DEF A, B

(* An entry of a list is taken out: its neighbours, or the slot, point past *)
(* it.  Its own fields may change.                                          *)
CutOut(t) ==
    /\ \A w \in Wheels, s \in Slots :
          head'[w][s] = IF head[w][s] = t THEN ev[t].next ELSE head[w][s]
    /\ \A u \in Events : u # t =>
          /\ ev'[u].next = IF u = ev[t].pre THEN ev[t].next ELSE ev[u].next
          /\ ev'[u].pre = IF u = ev[t].next THEN ev[t].pre ELSE ev[u].pre
          /\ ev'[u].tid = ev[u].tid

LEMMA CutListed ==
    ASSUME TypeOK, TypeOK', ListsOK, NEW t \in AllListed, CutOut(t)
    PROVE  AllListed' = AllListed \ {t} /\ ListsOK'
<1>. DEFINE n == ev[t].next
            p == ev[t].pre
            A == AllListed
            B == AllListed'
<1>1. /\ t # 0 /\ t \in Events /\ A \subseteq Events /\ 0 \notin A
      /\ n \in A \cup {0} /\ n # t /\ p # t
      /\ IF p = 0 THEN \E w \in Wheels, s \in Slots : head[w][s] = t
                  ELSE p \in A /\ ev[p].next = t /\ \A w \in Wheels, s \in Slots : head[w][s] # t
  BY HeadListed, ListedFacts, PreFacts
<1>2. /\ \A v \in Wheels, r \in Slots : head[v][r] \in A \cup {0}
      /\ \A u \in A : ev[u].next \in A \cup {0}
      /\ \A S \in SUBSET Events :
            (/\ \A v \in Wheels, r \in Slots : head[v][r] \in S \cup {0}
             /\ \A u \in S : ev[u].next \in S \cup {0}) => A \subseteq S
  BY ListedFacts DEF HoldsLists
<1>3. /\ \A v \in Wheels, r \in Slots : head'[v][r] \in B \cup {0}
      /\ \A u \in B : ev'[u].next \in B \cup {0}
      /\ \A S \in SUBSET Events :
            (/\ \A v \in Wheels, r \in Slots : head'[v][r] \in S \cup {0}
             /\ \A u \in S : ev'[u].next \in S \cup {0}) => B \subseteq S
      /\ B \subseteq Events /\ 0 \notin B
  BY ListedFactsNext DEF HoldsLists
<1>4. /\ \A v \in Wheels, r \in Slots : head[v][r] # 0 =>
            /\ ev[head[v][r]].pre = 0
            /\ \A x \in Wheels, y \in Slots : head[x][y] = head[v][r] => x = v /\ y = r
      /\ \A u \in A : ev[u].tid = u /\ (ev[u].next # 0 => ev[ev[u].next].pre = u)
  BY DEF ListsOK
<1>5. /\ \A v \in Wheels, r \in Slots : head'[v][r] = IF head[v][r] = t THEN n ELSE head[v][r]
      /\ \A u \in Events : u # t =>
            /\ ev'[u].next = IF u = p THEN n ELSE ev[u].next
            /\ ev'[u].pre = IF u = n THEN p ELSE ev[u].pre
            /\ ev'[u].tid = ev[u].tid
  BY DEF CutOut
<1>6. n # 0 => ev[n].pre = t
  BY <1>4
<1>. HIDE DEF A, B, n, p
<1>7. \A u \in A : u # p => ev[u].next # t
  <2>. SUFFICES ASSUME NEW u \in A, ev[u].next = t  PROVE u = p
    OBVIOUS
  <2>. QED  BY <1>1, <1>4 DEF p
<1>8. B \subseteq A \ {t}
  <2>1. \A v \in Wheels, r \in Slots : head'[v][r] \in (A \ {t}) \cup {0}
    BY <1>1, <1>2, <1>5
  <2>2. \A u \in A \ {t} : ev'[u].next \in (A \ {t}) \cup {0}
    BY <1>1, <1>2, <1>5, <1>7
  <2>3. A \ {t} \in SUBSET Events
    BY <1>1
  <2>. QED  BY <1>3, <2>1, <2>2, <2>3
<1>9. A \subseteq B \cup {t}
  <2>. DEFINE S == IF p = 0 \/ p \in B THEN B \cup {t} ELSE B
  <2>1. \A v \in Wheels, r \in Slots : head[v][r] \in S \cup {0}
    BY <1>1, <1>3, <1>5
  <2>2. ASSUME NEW u \in B  PROVE ev[u].next \in S \cup {0}
    <3>1. u \in A /\ u # t /\ u \in Events /\ ev'[u].next \in B \cup {0}
      BY <1>1, <1>3, <1>8, <2>2
    <3>2. CASE u = p
      BY <1>1, <2>2, <3>1, <3>2
    <3>3. CASE u # p
      BY <1>5, <3>1, <3>3
    <3>. QED  BY <3>2, <3>3
  <2>3. ASSUME p = 0 \/ p \in B  PROVE n \in B \cup {0}
    <3>1. CASE p = 0
      BY <1>1, <1>3, <1>5, <3>1
    <3>2. CASE p # 0 /\ p \in B
      BY <1>1, <1>3, <1>5, <3>2
    <3>. QED  BY <2>3, <3>1, <3>2
  <2>4. \A u \in S : ev[u].next \in S \cup {0}
    BY <2>2, <2>3 DEF n
  <2>5. S \in SUBSET Events
    BY <1>1, <1>3
  <2>. QED  BY <1>2, <2>1, <2>4, <2>5
<1>10. B = A \ {t}
  BY <1>8, <1>9
<1>11. ASSUME NEW v \in Wheels, NEW r \in Slots, head'[v][r] # 0
       PROVE  /\ ev'[head'[v][r]].pre = 0
              /\ \A x \in Wheels, y \in Slots : head'[x][y] = head'[v][r] => x = v /\ y = r
  <2>1. n # 0 => \A x \in Wheels, y \in Slots : head[x][y] # n
    BY <1>1, <1>4, <1>6
  <2>2. CASE head[v][r] = t
    <3>1. head'[v][r] = n /\ n # 0 /\ p = 0 /\ n \in Events
      BY <1>1, <1>5, <1>11, <2>2
    <3>2. \A x \in Wheels, y \in Slots : head'[x][y] = n => head[x][y] = t
      BY <1>5, <2>1, <3>1
    <3>3. ev'[n].pre = 0
      BY <1>1, <1>5, <3>1
    <3>. QED  BY <1>1, <1>4, <2>2, <3>1, <3>2, <3>3
  <2>3. CASE head[v][r] # t
    <3>1. head'[v][r] = head[v][r] /\ head[v][r] # 0 /\ head[v][r] \in Events
      BY <1>1, <1>2, <1>5, <1>11, <2>3
    <3>2. head[v][r] # n
      BY <2>1, <3>1
    <3>3. ev'[head[v][r]].pre = 0
      BY <1>4, <1>5, <2>3, <3>1, <3>2
    <3>4. \A x \in Wheels, y \in Slots : head'[x][y] = head[v][r] => head[x][y] = head[v][r]
      BY <1>5, <3>2
    <3>. QED  BY <1>4, <3>1, <3>3, <3>4
  <2>. QED  BY <2>2, <2>3
<1>12. ASSUME NEW u \in B
       PROVE  ev'[u].tid = u /\ (ev'[u].next # 0 => ev'[ev'[u].next].pre = u)
  <2>1. u \in A /\ u # t /\ u \in Events /\ u # 0
    BY <1>1, <1>10
  <2>2. ev'[u].tid = u
    BY <1>4, <1>5, <2>1
  <2>3. CASE u = p
    BY <1>1, <1>5, <2>1, <2>2, <2>3
  <2>4. CASE u # p
    <3>1. ev'[u].next = ev[u].next
      BY <1>5, <2>1, <2>4
    <3>2. ASSUME ev[u].next # 0  PROVE ev'[ev[u].next].pre = u
      <4>1. ev[u].next \in A /\ ev[u].next # t /\ ev[ev[u].next].pre = u
        BY <1>2, <1>4, <1>7, <2>1, <2>4, <3>2
      <4>2. ev[u].next # n
        BY <1>6, <2>1, <3>2, <4>1
      <4>. QED  BY <1>1, <1>5, <4>1, <4>2
    <3>. QED  BY <2>2, <3>1, <3>2
  <2>. QED  BY <2>3, <2>4
<1>13. ListsOK'
  BY <1>11, <1>12 DEF ListsOK, B
<1>. QED  BY <1>10, <1>13 DEF A, B
-----------------------------------------------------------------------------
(* What a step of a thread leaves alone *)

LEMMA NoCallFacts ==
    /\ NoCall.pc = "none" /\ NoCall.repeat = FALSE /\ NoCall.overriding = FALSE
    /\ ~ Overrides(NoCall) /\ ~ Holding(NoCall)
BY DEF NoCall, Overrides, Holding

LEMMA AloneFacts ==
    ASSUME LInv, NEW p \in Processes, Alone(p)
    PROVE  /\ \A c \in Clients : c # p => call[c] = NoCall
           /\ p # Timer => /\ p \in Clients /\ call[Timer].pc \in {"none", "ran"}
                           /\ call[Timer].pc = "ran" => InCallback
                           /\ ~ InCallback => tick.pc = "sleep" /\ call[Timer].pc = "none"
<1>1. \A c \in Clients : c # p => call[c] = NoCall
  BY ThreadsFacts, ThreadAssumption DEF Alone, AtRest
<1>2. ASSUME p # Timer
      PROVE  /\ p \in Clients /\ call[Timer].pc \in {"none", "ran"}
             /\ call[Timer].pc = "ran" => InCallback
             /\ ~ InCallback => tick.pc = "sleep" /\ call[Timer].pc = "none"
  <2>1. p \in Clients
    BY <1>2 DEF Processes
  <2>2. tick.pc = "sleep" \/ InCallback
    BY <1>2, ThreadsFacts DEF Alone, AtRest, LInv, WalkOK
  <2>3. tick.pc \in {"sleep", "run"} => call[Timer].pc = "none"
    BY DEF LInv, TimerCallOK, Backs
  <2>. QED  BY <2>1, <2>2, <2>3 DEF InCallback
<1>. QED  BY <1>1, <1>2

(* No entry but t changes hands, and those that are in no list are as they  *)
(* were.                                                                    *)
Untouched(t) ==
    \A u \in Events : u # t =>
        /\ u \in AllListed' <=> u \in AllListed
        /\ ev'[u].tid = ev[u].tid
        /\ ev'[u].repeat = ev[u].repeat /\ ev'[u].repeatCount = ev[u].repeatCount
        /\ u \notin AllListed => ev'[u].pre = ev[u].pre /\ ev'[u].next = ev[u].next

(* Only p goes on with its call. *)
StepOf(p) == \A q \in Processes : q # p => call'[q] = call[q] /\ saw'[q] = saw[q]

(* What holds of the call of a thread in the function of an event.          *)
InFunction(c) == /\ Overrides(c) => c.tid \in Events /\ Lone(c.tid)
                 /\ Overrides(c) \/ c.pc \in {"ran", "link"} =>
                       (call[Timer].pc = "ran" => c.tid # call[Timer].tid)

(* The call of p is in order after a step that touched t.                   *)
OwnCall(p, t) ==
    /\ CallOK(p)'
    /\ p # Timer => /\ tick' = tick
                    /\ InCallback => InFunction(call[p])'
                    /\ call[Timer].pc = "ran" => call[Timer].tid # t
    /\ p = Timer => TimerCallOK' /\ (call[p].pc = "fill" => call[p].tid = t)

(* And so is t. *)
OwnEntry(t) ==
    /\ t \in Events => t \in AllListed' \/ Apart(t)' \/ Handing(t)'
    /\ \A u \in Events : u # t /\ Handing(u) => Handing(u)'
    /\ t \in Events /\ ev'[t].repeat => ev'[t].repeatCount < 0
    /\ t \in DOMAIN due' => ev'[t].tid # 0 \/ (call'[Timer].pc = "fill" /\ call'[Timer].tid = t)

(* What p held it still holds, or it is in a list or free.                  *)
KeepsHold(p, t) ==
    /\ \A u \in Events : u # t /\ Holding(call[p]) /\ call[p].tid = u =>
                            Holding(call'[p]) /\ call'[p].tid = u
    /\ t \in Events /\ ev'[t].tid # 0 => t \in AllListed' \/ (Holding(call'[p]) /\ call'[p].tid = t)

LEMMA Frame ==
    ASSUME LInv, TypeOK', ListsOK', WalkOK', NEW p \in Processes, Alone(p), NEW t,
           Untouched(t), StepOf(p), OwnCall(p, t), OwnEntry(t),
           DOMAIN due' \subseteq DOMAIN due \cup {t}
    PROVE  LInv'
<1>1. ASSUME NEW u \in Events, u # t
      PROVE  (Apart(u) => Apart(u)') /\ (Lone(u) => Lone(u)')
  BY <1>1 DEF Untouched, Apart, Lone
<1>2. \A q \in Processes : CallOK(q)'
  <2>. SUFFICES ASSUME NEW q \in Processes, q # p  PROVE CallOK(q)'
    BY DEF OwnCall
  <2>1. call'[q] = call[q]
    BY DEF StepOf
  <2>2. CASE q \in Clients
    <3>1. call'[q] = NoCall
      BY <2>1, <2>2, AloneFacts
    <3>. QED  BY <3>1, NoCallFacts DEF CallOK
  <2>3. CASE q = Timer
    <3>1. call[q].pc \in {"none", "ran"} /\ CallOK(q) /\ p # Timer
      BY <2>3, AloneFacts DEF LInv
    <3>2. call[q].pc = "ran" => /\ Lone(call[q].tid) /\ call[q].tid \in Events
                                /\ call[q].tid # t /\ call[q].tid \notin DOMAIN due
      BY <2>3, <3>1 DEF CallOK, OwnCall, LInv, TypeOK, HasEntry
    <3>3. call[q].pc = "ran" => Lone(call[q].tid)' /\ call[q].tid \notin DOMAIN due'
      <4>. SUFFICES ASSUME call[q].pc = "ran"
                    PROVE  Lone(call[q].tid)' /\ call[q].tid \notin DOMAIN due'
        OBVIOUS
      <4>1. PICK u \in Events : u = call[q].tid
        BY <3>2
      <4>2. Lone(u) /\ u # t /\ u \notin DOMAIN due /\ call'[q].tid = u
        BY <2>1, <3>2, <4>1 DEF Lone, Apart
      <4>3. Lone(u)'
        BY <1>1, <4>2
      <4>4. u \notin DOMAIN due'
        BY <4>2
      <4>5. Lone(call[q].tid)' <=> Lone(u)'
        BY <4>2 DEF Lone, Apart
      <4>. QED  BY <4>1, <4>3, <4>4, <4>5
    <3>. QED  BY <2>1, <3>1, <3>3 DEF CallOK
  <2>. QED  BY <2>2, <2>3 DEF Processes
<1>3. UnlistedOK'
  <2>. SUFFICES ASSUME NEW u \in Events, u \notin AllListed'
                PROVE  Apart(u)' \/ Handing(u)'
    BY DEF UnlistedOK
  <2>1. CASE u = t
    BY <2>1 DEF OwnEntry
  <2>2. CASE u # t
    <3>1. u \notin AllListed
      BY <2>2 DEF Untouched
    <3>2. Apart(u) \/ Handing(u)
      BY <3>1 DEF LInv, UnlistedOK
    <3>. QED  BY <1>1, <2>2, <3>2 DEF OwnEntry
  <2>. QED  BY <2>1, <2>2
<1>4. TimerCallOK'
  <2>1. CASE p = Timer
    BY <2>1 DEF OwnCall
  <2>2. CASE p # Timer
    <3>1. call'[Timer] = call[Timer] /\ tick' = tick /\ call[Timer].pc \in {"none", "ran"}
      BY <2>2, AloneFacts, ThreadsFacts DEF StepOf, OwnCall
    <3>. QED  BY <3>1 DEF LInv, TimerCallOK
  <2>. QED  BY <2>1, <2>2
<1>5. CallbackOK'
  <2>1. \A c \in Clients : c # p => call'[c] = NoCall
    BY AloneFacts, ThreadsFacts DEF StepOf
  <2>2. p \in Clients /\ InCallback' => InFunction(call[p])'
    <3>. SUFFICES ASSUME p \in Clients, InCallback'  PROVE InFunction(call[p])'
      OBVIOUS
    <3>1. p # Timer /\ call'[Timer] = call[Timer] /\ saw'[Timer] = saw[Timer] /\ tick' = tick
      BY ThreadsFacts, ThreadAssumption DEF StepOf, OwnCall
    <3>2. InCallback
      BY <3>1 DEF InCallback
    <3>. QED  BY <3>1, <3>2 DEF OwnCall
  <2>3. InCallback' => \A c \in Clients : InFunction(call[c])'
    BY <2>1, <2>2, NoCallFacts DEF InFunction
  <2>. QED  BY <2>3 DEF CallbackOK, InFunction
<1>6. RepeatOK'
  BY DEF RepeatOK, LInv, Untouched, OwnEntry
<1>7. DueOK'
  <2>. SUFFICES ASSUME NEW u \in DOMAIN due', u # t
                PROVE  ev'[u].tid # 0
    BY DEF DueOK, OwnEntry
  <2>1. u \in DOMAIN due /\ u \in Events
    BY DEF TypeOK
  <2>2. ~ (call[Timer].pc = "fill" /\ call[Timer].tid = u)
    BY AloneFacts DEF OwnCall
  <2>3. ev[u].tid # 0
    BY <2>1, <2>2 DEF LInv, DueOK
  <2>. QED  BY <2>1, <2>3 DEF Untouched
<1>. QED  BY <1>2, <1>3, <1>4, <1>5, <1>6, <1>7 DEF LInv

LEMMA HoldFrame ==
    ASSUME UsedHeld, TypeOK, NEW p \in Processes, NEW t, Untouched(t), StepOf(p), KeepsHold(p, t)
    PROVE  UsedHeld'
<1>. SUFFICES ASSUME NEW u \in Events, ev'[u].tid # 0, u \notin AllListed'
              PROVE  \E q \in Processes : Holding(call'[q]) /\ call'[q].tid = u
  BY DEF UsedHeld, Holding
<1>1. CASE u = t
  BY <1>1 DEF KeepsHold
<1>2. CASE u # t
  <2>1. PICK q \in Processes : Holding(call[q]) /\ call[q].tid = u
    BY <1>2 DEF UsedHeld, Untouched
  <2>. QED  BY <1>2, <2>1 DEF StepOf, KeepsHold
<1>. QED  BY <1>1, <1>2

(* The timer thread goes on where it was, when no entry leaves the lists.   *)
LEMMA WalkKept ==
    ASSUME LInv, WheelOf(tick'.pc) = WheelOf(tick.pc), tick'.HeadKeyPointer = tick.HeadKeyPointer,
           tick'.pc # "dead", ptr' = ptr,
           \A u \in AllListed : /\ u \in AllListed'
                                /\ ev'[u].pre = 0 =>
                                      /\ ev[u].pre = 0
                                      /\ \A w \in Wheels, s \in Slots : head[w][s] = u => head'[w][s] = u
    PROVE  WalkOK'
<1>. DEFINE t == tick.HeadKeyPointer
            w == WheelOf(tick.pc)
<1>. SUFFICES ASSUME w # "none", t # 0
              PROVE  t \in AllListed' /\ (ev'[t].pre = 0 => head'[w][ptr'[w]] = t)
  BY DEF WalkOK, AtSlot
<1>1. w \in Wheels
  BY DEF WheelOf, Wheels, LInv, TypeOK, TickPcs
<1>2. t \in AllListed /\ (ev[t].pre = 0 => head[w][ptr[w]] = t)
  BY DEF LInv, WalkOK, AtSlot
<1>3. ptr[w] \in Slots
  BY <1>1 DEF LInv, TypeOK
<1>. QED  BY <1>1, <1>2, <1>3
-----------------------------------------------------------------------------
(* What taking an entry out or putting one in writes *)

LEMMA DetachedFacts ==
    ASSUME TypeOK, NEW t \in Events, ev[t].next # t, ev[t].pre # t
    PROVE  /\ Detached(t) \in [Events -> Entries]
           /\ Detached(t)[t] = ev[t]
           /\ \A u \in Events :
                 /\ Detached(t)[u].next = IF u = ev[t].pre THEN ev[t].next ELSE ev[u].next
                 /\ Detached(t)[u].pre = IF u = ev[t].next THEN ev[t].pre ELSE ev[u].pre
                 /\ Detached(t)[u].tid = ev[u].tid
                 /\ Detached(t)[u].repeat = ev[u].repeat
                 /\ Detached(t)[u].repeatCount = ev[u].repeatCount
<1>. DEFINE p == ev[t].pre
            n == ev[t].next
            before == IF p = 0 THEN ev ELSE [ev EXCEPT ![p].next = n]
<1>1. ev \in [Events -> Entries] /\ p \in {0} \cup Events /\ n \in {0} \cup Events /\ 0 \notin Events
  BY SizeFacts DEF TypeOK, Entries
<1>2. Detached(t) = IF n = 0 THEN before ELSE [before EXCEPT ![n].pre = p]
  BY DEF Detached
<1>3. p # t /\ n # t
  OBVIOUS
<1>. HIDE DEF p, n
<1>4. /\ DOMAIN before = Events
      /\ before[t] = ev[t]
      /\ \A u \in Events : /\ before[u].next = IF u = p THEN n ELSE ev[u].next
                           /\ before[u].pre = ev[u].pre /\ before[u].tid = ev[u].tid
                           /\ before[u].repeat = ev[u].repeat
                           /\ before[u].repeatCount = ev[u].repeatCount
                           /\ "pre" \in DOMAIN before[u]
  BY <1>1, <1>3 DEF Entries
<1>. HIDE DEF before
<1>5. /\ Detached(t)[t] = ev[t]
      /\ \A u \in Events :
            /\ Detached(t)[u].next = IF u = p THEN n ELSE ev[u].next
            /\ Detached(t)[u].pre = IF u = n THEN p ELSE ev[u].pre
            /\ Detached(t)[u].tid = ev[u].tid
            /\ Detached(t)[u].repeat = ev[u].repeat
            /\ Detached(t)[u].repeatCount = ev[u].repeatCount
  BY <1>1, <1>2, <1>3, <1>4
<1>. QED  BY <1>5, DetachedType DEF p, n

LEMMA PushedFacts ==
    ASSUME TypeOK, NEW t \in Events, NEW h \in {0} \cup Events, h # t, ev[t].next = 0
    PROVE  /\ Pushed(t, h) \in [Events -> Entries]
           /\ \A u \in Events :
                 /\ Pushed(t, h)[u].next = IF u = t THEN h ELSE ev[u].next
                 /\ Pushed(t, h)[u].pre = IF h # 0 /\ u = h THEN t ELSE ev[u].pre
                 /\ Pushed(t, h)[u].tid = ev[u].tid
                 /\ Pushed(t, h)[u].repeat = ev[u].repeat
                 /\ Pushed(t, h)[u].repeatCount = ev[u].repeatCount
<1>1. ev \in [Events -> Entries]
  BY DEF TypeOK
<1>2. CASE h = 0
  BY <1>2, PushedType DEF Pushed
<1>3. CASE h # 0
  <2>. DEFINE linked == [ev EXCEPT ![t].next = h]
  <2>1. h \in Events /\ Pushed(t, h) = [linked EXCEPT ![h].pre = t]
    BY <1>3 DEF Pushed
  <2>2. /\ DOMAIN linked = Events
        /\ \A u \in Events : /\ linked[u].next = IF u = t THEN h ELSE ev[u].next
                             /\ linked[u].pre = ev[u].pre /\ linked[u].tid = ev[u].tid
                             /\ linked[u].repeat = ev[u].repeat
                             /\ linked[u].repeatCount = ev[u].repeatCount
                             /\ "pre" \in DOMAIN linked[u]
    BY <1>1 DEF Entries
  <2>. HIDE DEF linked
  <2>3. \A u \in Events :
           /\ Pushed(t, h)[u].next = IF u = t THEN h ELSE ev[u].next
           /\ Pushed(t, h)[u].pre = IF h # 0 /\ u = h THEN t ELSE ev[u].pre
           /\ Pushed(t, h)[u].tid = ev[u].tid
           /\ Pushed(t, h)[u].repeat = ev[u].repeat
           /\ Pushed(t, h)[u].repeatCount = ev[u].repeatCount
    BY <1>3, <2>1, <2>2
  <2>. QED  BY <2>3, PushedType
<1>. QED  BY <1>2, <1>3

(* A step that writes no links. *)
LEMMA StillFacts ==
    ASSUME TypeOK, TypeOK', head' = head,
           \A u \in Events : /\ ev'[u].pre = ev[u].pre /\ ev'[u].next = ev[u].next
                             /\ ev'[u].tid = ev[u].tid /\ ev'[u].repeat = ev[u].repeat
                             /\ ev'[u].repeatCount = ev[u].repeatCount
    PROVE  /\ AllListed' = AllListed
           /\ ListsOK => ListsOK'
           /\ \A t : Untouched(t)
           /\ \A t \in Events : /\ Apart(t) => Apart(t)'
                                /\ Lone(t) => Lone(t)'
                                /\ Bypassed(t) => Bypassed(t)'
<1>1. AllListed' = AllListed
  BY SameListed, ListedFacts
<1>2. /\ \A w \in Wheels, s \in Slots : head[w][s] # 0 => head[w][s] \in Events
      /\ \A u \in Events : /\ ev[u].next # 0 => ev[u].next \in Events
                           /\ ev[u].pre # 0 => ev[u].pre \in Events
  BY SizeFacts DEF TypeOK, Entries
<1>3. ListsOK => ListsOK'
  BY <1>1, <1>2, ListedFacts DEF ListsOK
<1>4. \A t : Untouched(t)
  BY <1>1 DEF Untouched
<1>5. ASSUME NEW t \in Events  PROVE /\ Apart(t) => Apart(t)'
                                     /\ Lone(t) => Lone(t)'
                                     /\ Bypassed(t) => Bypassed(t)'
  BY <1>1, <1>2 DEF Apart, Lone, Bypassed
<1>. QED  BY <1>1, <1>3, <1>4, <1>5
-----------------------------------------------------------------------------
(* The steps of AddTimeOut and RemoveEvent *)

LEMMA SeeFlagLists ==
    ASSUME LInv, TypeOK', NEW p \in Processes, Alone(p), SeeFlag(p)
    PROVE  LInv' /\ (UsedHeld => UsedHeld')
<1>1. /\ UNCHANGED <<ev, head, ptr, call, tick, due>> /\ StepOf(p)
      /\ call[p].pc \in {"none", "remove", "link"}
  BY ThreadsFacts DEF SeeFlag, wheelVars, AtLock, StepOf, LInv, TypeOK
<1>2. /\ AllListed' = AllListed /\ ListsOK' /\ Untouched(0)
      /\ \A t \in Events : (Lone(t) => Lone(t)') /\ (Bypassed(t) => Bypassed(t)')
  BY <1>1, StillFacts DEF LInv
<1>3. WalkOK'
  BY <1>1, <1>2 DEF LInv, WalkOK, AtSlot
<1>4. CallOK(p)'
  <2>1. CallOK(p) /\ (call[p].pc = "link" => call[p].tid \in Events)
    BY DEF LInv, TypeOK, HasEntry
  <2>. QED  BY <1>1, <1>2, <2>1 DEF CallOK, Lone, Apart
<1>5. OwnCall(p, 0)
  <2>1. ASSUME p # Timer, InCallback  PROVE InFunction(call[p])'
    <3>1. p \in Clients
      BY <2>1 DEF Processes
    <3>2. InFunction(call[p])
      BY <2>1, <3>1 DEF LInv, CallbackOK, InFunction
    <3>. QED  BY <1>1, <1>2, <3>2 DEF InFunction, Lone, Apart
  <2>2. p # Timer /\ call[Timer].pc = "ran" => call[Timer].tid # 0
    BY ThreadsFacts, SizeFacts DEF LInv, TypeOK, HasEntry
  <2>3. p = Timer => TimerCallOK'
    BY <1>1, <1>2 DEF LInv, TimerCallOK, Bypassed
  <2>. QED  BY <1>1, <1>4, <2>1, <2>2, <2>3 DEF OwnCall
<1>6. OwnEntry(0)
  BY <1>1, SizeFacts DEF OwnEntry, Handing, TypeOK
<1>7. LInv'
  BY <1>1, <1>2, <1>3, <1>5, <1>6, Frame
<1>8. UsedHeld => UsedHeld'
  <2>1. KeepsHold(p, 0)
    BY <1>1, SizeFacts DEF KeepsHold
  <2>. QED  BY <1>1, <1>2, <2>1, HoldFrame DEF LInv
<1>. QED  BY <1>7, <1>8

LEMMA SelectLists ==
    ASSUME LInv, TypeOK', NEW p \in Processes, Alone(p), Select(p)
    PROVE  LInv' /\ (UsedHeld => UsedHeld')
<1>. DEFINE c    == call[p]
            want == IF c.tid = 0 THEN eventSerial + FixedEvents ELSE c.tid
<1>1. /\ UNCHANGED <<ev, head, ptr, tick, due, saw>> /\ StepOf(p)
      /\ c.pc = "select" /\ c \in Calls /\ want \in Events
      /\ \A q \in Processes : q # p => call'[q] = call[q]
  <2>1. c \in Calls /\ want \in Events /\ call \in [Processes -> Calls]
    BY SizeFacts DEF LInv, TypeOK, Calls, Keys
  <2>2. c.pc = "select" /\ UNCHANGED <<ev, head, ptr, tick, due, saw>>
    BY DEF Select, wheelVars
  <2>3. \A q \in Processes : q # p => call'[q] = call[q]
    BY <2>1 DEF Select
  <2>. QED  BY <2>1, <2>2, <2>3 DEF StepOf
<1>2. /\ AllListed' = AllListed /\ ListsOK' /\ Untouched(0) /\ Untouched(c.tid)
      /\ \A t \in Events : (Lone(t) => Lone(t)') /\ (Bypassed(t) => Bypassed(t)')
  BY <1>1, StillFacts DEF LInv
<1>3. WalkOK'
  BY <1>1, <1>2 DEF LInv, WalkOK, AtSlot
<1>4. p = Timer => c.overriding /\ c.tid \in Events /\ Bypassed(c.tid) /\ ev[c.tid].tid # 0
                   /\ tick.pc \in Backs
  BY <1>1, SizeFacts DEF LInv, TimerCallOK, Bypassed
<1>5. p # Timer => /\ p \in Clients
                   /\ InCallback => InFunction(c)
  BY DEF Processes, LInv, CallbackOK, InFunction
<1>6. /\ p # Timer /\ call[Timer].pc = "ran" => call[Timer].tid # 0
      /\ c.repeat => c.repeatCount < 0
      /\ 0 \notin Events /\ 0 \notin DOMAIN due
  BY ThreadsFacts, SizeFacts DEF LInv, TypeOK, HasEntry, CallOK
<1>7. CASE ev[want].tid # 0 /\ c.overriding
  <2>1. call'[p] = [c EXCEPT !.tid = want, !.pc = "remove"]
    BY <1>1, <1>7 DEF Select, LInv, TypeOK
  <2>2. /\ call'[p].pc = "remove" /\ call'[p].tid = want /\ call'[p].overriding
        /\ call'[p].repeat = c.repeat /\ call'[p].repeatCount = c.repeatCount
    BY <1>1, <1>7, <2>1 DEF Calls
  <2>3. CallOK(p)'
    BY <1>6, <2>2 DEF CallOK
  <2>4. p # Timer => (InCallback => InFunction(call[p])')
    <3>. SUFFICES ASSUME p # Timer, InCallback  PROVE InFunction(call[p])'
      OBVIOUS
    <3>1. Overrides(c) /\ InFunction(c)
      BY <1>1, <1>5, <1>7 DEF Overrides
    <3>2. c.tid \in Events /\ Lone(c.tid) /\ want = c.tid
      BY <1>6, <3>1 DEF InFunction
    <3>3. call[Timer].pc = "ran" => c.tid # call[Timer].tid
      BY <3>1 DEF InFunction
    <3>4. Lone(call[p].tid)'
      BY <1>2, <2>2, <3>2 DEF Lone, Apart
    <3>5. call'[Timer] = call[Timer] /\ call'[p].tid = c.tid
      BY <1>1, <2>2, <3>2, ThreadsFacts
    <3>. QED  BY <2>2, <3>2, <3>3, <3>4, <3>5 DEF InFunction
  <2>5. p = Timer => TimerCallOK'
    <3>. SUFFICES ASSUME p = Timer  PROVE TimerCallOK'
      OBVIOUS
    <3>1. want = c.tid /\ Bypassed(c.tid)
      BY <1>4, <1>6
    <3>2. Bypassed(call[p].tid)'
      BY <1>2, <1>4, <2>2, <3>1 DEF Bypassed
    <3>. QED  BY <1>1, <1>4, <2>2, <3>2 DEF TimerCallOK
  <2>6. OwnCall(p, 0)
    BY <1>1, <1>6, <2>3, <2>4, <2>5 DEF OwnCall
  <2>7. OwnEntry(0)
    BY <1>1, <1>4, <1>6, <2>2, ThreadsFacts DEF OwnEntry, Handing
  <2>8. KeepsHold(p, 0)
    BY <1>6, <2>2 DEF KeepsHold, Holding
  <2>. QED  BY <1>1, <1>2, <1>3, <2>6, <2>7, <2>8, Frame, HoldFrame DEF LInv
<1>8. CASE ~ (ev[want].tid # 0 /\ c.overriding)
  <2>1. p # Timer
    BY <1>4, <1>6, <1>8
  <2>2. InCallback => ~ c.overriding
    <3>. SUFFICES ASSUME InCallback, c.overriding  PROVE FALSE
      OBVIOUS
    <3>1. c.tid \in Events /\ Lone(c.tid)
      BY <1>1, <1>5, <2>1 DEF InFunction, Overrides
    <3>. QED  BY <1>6, <1>8, <3>1 DEF Lone, Apart
  <2>3. /\ call'[Timer] = call[Timer]
        /\ \/ /\ call'[p].pc = "select" /\ call'[p].tid = want
           \/ /\ call'[p].pc = "fill" /\ ev[call'[p].tid].tid = 0
              /\ c.overriding => ev[c.tid].tid = 0 \/ c.tid \notin Events
        /\ call'[p].overriding = c.overriding
        /\ call'[p].repeat = c.repeat /\ call'[p].repeatCount = c.repeatCount
    <3>1. \/ call'[p] = [c EXCEPT !.tid = want]
          \/ \E t \in FirstFree(want) : call'[p] = [c EXCEPT !.tid = t, !.pc = "fill"]
      BY <1>1, <1>8 DEF Select, LInv, TypeOK
    <3>2. \A t \in FirstFree(want) : ev[t].tid = 0
      BY DEF FirstFree
    <3>3. c.overriding => ev[c.tid].tid = 0 \/ c.tid \notin Events
      BY <1>6, <1>8
    <3>4. call'[Timer] = call[Timer]
      BY <1>1, <2>1, ThreadsFacts
    <3>. HIDE DEF c, want
    <3>5. CASE call'[p] = [c EXCEPT !.tid = want]
      BY <1>1, <3>4, <3>5 DEF Calls
    <3>6. ASSUME NEW t \in FirstFree(want), call'[p] = [c EXCEPT !.tid = t, !.pc = "fill"]
          PROVE  <2>3
      BY <1>1, <3>2, <3>3, <3>4, <3>6 DEF Calls
    <3>. QED  BY <3>1, <3>5, <3>6
  <2>4. CallOK(p)'
    BY <1>1, <1>6, <2>3 DEF CallOK
  <2>5. InCallback => InFunction(call[p])'
    BY <2>2, <2>3 DEF InFunction, Overrides
  <2>6. OwnCall(p, 0)
    BY <1>1, <1>6, <2>1, <2>4, <2>5 DEF OwnCall
  <2>7. OwnEntry(0)
    BY <1>1, <1>6, <2>3 DEF OwnEntry, Handing
  <2>8. KeepsHold(p, 0) \/ KeepsHold(p, c.tid)
    <3>1. CASE call'[p].pc = "select"
      BY <1>1, <1>6, <2>3, <3>1 DEF KeepsHold, Holding
    <3>2. CASE call'[p].pc = "fill" /\ ~ c.overriding
      BY <1>1, <1>6, <3>2 DEF KeepsHold, Holding
    <3>3. CASE call'[p].pc = "fill" /\ c.overriding
      <4>1. c.tid \in Events => ev'[c.tid].tid = 0
        BY <1>1, <2>3, <3>3
      <4>. QED  BY <4>1 DEF KeepsHold
    <3>. QED  BY <2>3, <3>1, <3>2, <3>3
  <2>. QED  BY <1>1, <1>2, <1>3, <2>6, <2>7, <2>8, Frame, HoldFrame DEF LInv
<1>. QED  BY <1>7, <1>8

LEMMA NoEntryLists ==
    ASSUME LInv, TypeOK', NEW p \in Processes, Alone(p), NoEntry(p)
    PROVE  LInv' /\ (UsedHeld => UsedHeld')
<1>. DEFINE c    == call[p]
            want == IF c.tid = 0 THEN eventSerial + FixedEvents ELSE c.tid
<1>1. /\ UNCHANGED <<ev, head, ptr, tick, due, saw>> /\ StepOf(p)
      /\ c.pc = "select" /\ call'[p] = NoCall
  BY DEF NoEntry, LInv, TypeOK, wheelVars, StepOf
<1>2. /\ AllListed' = AllListed /\ ListsOK' /\ Untouched(0) /\ Untouched(c.tid)
  BY <1>1, StillFacts DEF LInv
<1>3. WalkOK'
  BY <1>1, <1>2 DEF LInv, WalkOK, AtSlot
<1>4. 0 \notin Events /\ 0 \notin DOMAIN due
  BY SizeFacts DEF LInv, TypeOK
<1>5. c.overriding => ev[c.tid].tid = 0 \/ c.tid \notin Events
  BY <1>4 DEF NoEntry
<1>6. p # Timer
  <2>1. p = Timer => c.overriding /\ c.tid \in Events /\ Bypassed(c.tid)
    BY <1>1 DEF LInv, TimerCallOK
  <2>. QED  BY <1>4, <1>5, <2>1 DEF Bypassed
<1>7. call'[Timer] = call[Timer] /\ (call[Timer].pc = "ran" => call[Timer].tid # 0)
  BY <1>1, <1>4, <1>6, ThreadsFacts DEF StepOf, LInv, TypeOK, HasEntry
<1>8. CallOK(p)' /\ InFunction(call[p])'
  BY <1>1, NoCallFacts DEF CallOK, InFunction, Overrides
<1>9. OwnCall(p, 0)
  BY <1>1, <1>6, <1>7, <1>8 DEF OwnCall
<1>10. OwnEntry(0)
  BY <1>1, <1>4, <1>7 DEF OwnEntry, Handing
<1>11. KeepsHold(p, 0) \/ KeepsHold(p, c.tid)
  <2>1. CASE c.overriding
    BY <1>1, <1>5, <2>1 DEF KeepsHold
  <2>2. CASE ~ c.overriding
    BY <1>1, <1>4, <2>2 DEF KeepsHold, Holding
  <2>. QED  BY <2>1, <2>2
<1>. QED  BY <1>1, <1>2, <1>3, <1>9, <1>10, <1>11, Frame, HoldFrame DEF LInv

(* What the entry of a call is not. *)
LEMMA EntryFacts ==
    ASSUME LInv, NEW p \in Processes, Alone(p), HasEntry(call[p]),
           call[p].pc \in {"fill", "ran", "link", "remove"}
    PROVE  /\ call[p].tid \in Events /\ call[p].tid # 0 /\ call[p] \in Calls
           /\ p = Timer => tick.pc \in Backs
           /\ p # Timer => /\ p \in Clients
                           /\ ~ \E u \in Events : Handing(u)
                           /\ call[Timer].pc = "ran" => /\ InCallback /\ Lone(call[Timer].tid)
                                                        /\ call[Timer].tid \in Events
           /\ call[p].pc \in {"fill", "ran", "link"} =>
                 call[p].tid \notin AllListed /\ Apart(call[p].tid) /\ ~ \E u \in Events : Handing(u)
           /\ call[p].pc \in {"ran", "link", "remove"} /\ p # Timer =>
                 (call[Timer].pc = "ran" => call[Timer].tid # call[p].tid)
<1>. DEFINE t == call[p].tid
<1>1. t \in Events /\ t # 0 /\ call[p] \in Calls
  BY SizeFacts DEF HasEntry, LInv, TypeOK
<1>2. p = Timer => tick.pc \in Backs
  BY DEF LInv, TimerCallOK
<1>3. p # Timer => /\ p \in Clients
                   /\ ~ \E u \in Events : Handing(u)
                   /\ call[Timer].pc = "ran" => /\ InCallback /\ Lone(call[Timer].tid)
                                                /\ call[Timer].tid \in Events
  BY AloneFacts, ThreadsFacts DEF Handing, LInv, CallOK, TypeOK, HasEntry
<1>4. call[p].pc \in {"fill", "ran", "link"} => ~ \E u \in Events : Handing(u)
  BY <1>3 DEF Handing
<1>5. call[p].pc \in {"fill", "ran", "link"} => t \notin AllListed /\ Apart(t)
  <2>1. CASE call[p].pc = "fill"
    <3>1. ev[t].tid = 0
      BY <2>1 DEF LInv, CallOK
    <3>2. t \notin AllListed
      BY <1>1, <3>1 DEF LInv, ListsOK
    <3>. QED  BY <1>1, <1>4, <2>1, <3>2 DEF LInv, UnlistedOK
  <2>2. CASE call[p].pc \in {"ran", "link"}
    BY <2>2 DEF LInv, CallOK, Lone, Apart
  <2>. QED  BY <2>1, <2>2
<1>6. call[p].pc \in {"ran", "link", "remove"} /\ p # Timer =>
         (call[Timer].pc = "ran" => call[Timer].tid # t)
  BY <1>3 DEF LInv, CallbackOK, Overrides
<1>. QED  BY <1>1, <1>2, <1>3, <1>4, <1>5, <1>6

LEMMA FillLists ==
    ASSUME LInv, TypeOK', NEW p \in Processes, Alone(p), Fill(p)
    PROVE  LInv' /\ (UsedHeld => UsedHeld')
<1>. DEFINE c == call[p]
<1>1. c.pc = "fill" /\ HasEntry(c) /\ ev[c.tid].tid = 0
  BY DEF Fill, LInv, TypeOK, CallOK
<1>2. PICK t \in Events : t = c.tid
  BY <1>1 DEF HasEntry
<1>. USE <1>2
<1>3. /\ t \in Events /\ t # 0 /\ c \in Calls
      /\ t \notin AllListed /\ Apart(t) /\ ~ \E u \in Events : Handing(u)
      /\ p = Timer => tick.pc \in Backs
      /\ p # Timer => /\ p \in Clients
                      /\ call[Timer].pc = "ran" => /\ InCallback /\ Lone(call[Timer].tid)
                                                   /\ call[Timer].tid \in Events
  BY <1>1, EntryFacts
<1>4. UNCHANGED <<head, ptr, tick, saw>>
  BY DEF Fill
<1>5. /\ ev'[t].pre = 0 /\ ev'[t].next = 0 /\ ev'[t].tid = t
      /\ ev'[t].repeat = c.repeat /\ ev'[t].repeatCount = c.repeatCount
  <2>. DEFINE filled == [ev[t] EXCEPT !.pre = 0, !.next = 0, !.tid = t,
                                      !.millisecond = c.repeatDelay, !.repeat = c.repeat,
                                      !.repeatCount = c.repeatCount]
  <2>1. ev \in [Events -> Entries]
    BY DEF LInv, TypeOK
  <2>2. ev' = [ev EXCEPT ![t] = filled]
    BY <1>3, <2>1 DEF Fill
  <2>. HIDE DEF c
  <2>3. /\ filled.pre = 0 /\ filled.next = 0 /\ filled.tid = t
        /\ filled.repeat = c.repeat /\ filled.repeatCount = c.repeatCount
    BY <1>3, <2>1 DEF Entries
  <2>. HIDE DEF filled
  <2>. QED  BY <1>3, <2>1, <2>2, <2>3
<1>6. \A u \in Events : u # t => ev'[u] = ev[u]
  BY DEF Fill, LInv, TypeOK
<1>7. \A q \in Processes : q # p => call'[q] = call[q]
  BY DEF Fill, LInv, TypeOK
<1>8. /\ call'[p].pc \in {"ran", "link"} /\ call'[p].tid = t
      /\ call'[p].repeat = c.repeat /\ call'[p].repeatCount = c.repeatCount
      /\ call'[p].pc = "ran" => t \notin DOMAIN due'
      /\ DOMAIN due' \subseteq DOMAIN due \cup {t}
  <2>1. \E pc \in {"ran", "link"} : call'[p] = [c EXCEPT !.pc = pc]
    BY DEF Fill, LInv, TypeOK
  <2>2. DOMAIN due' \subseteq DOMAIN due \cup {t}
    <3>1. CASE due' = Restrict(due, DOMAIN due \ {t})
      BY <3>1 DEF Restrict
    <3>2. CASE due' = due
      BY <3>2
    <3>3. CASE DOMAIN due' = DOMAIN due \cup {t}
      BY <3>3
    <3>. QED  BY <3>1, <3>2, <3>3 DEF Fill
  <2>3. call'[p].pc = "ran" => t \notin DOMAIN due'
    <3>1. CASE c.startTime = 0
      BY <3>1 DEF Fill, Restrict
    <3>2. CASE c.startTime # 0
      <4>1. call'[p] = [c EXCEPT !.pc = "link"]
        BY <3>2 DEF Fill, LInv, TypeOK
      <4>. HIDE DEF c
      <4>. QED  BY <1>3, <4>1 DEF Calls
    <3>. QED  BY <3>1, <3>2
  <2>. HIDE DEF c
  <2>4. /\ call'[p].pc \in {"ran", "link"} /\ call'[p].tid = c.tid
        /\ call'[p].repeat = c.repeat /\ call'[p].repeatCount = c.repeatCount
    BY <1>3, <2>1 DEF Calls
  <2>. QED  BY <2>2, <2>3, <2>4
<1>. HIDE DEF c
<1>9. AllListed' = AllListed
  BY <1>3, <1>4, <1>6, SameListed, ListedFacts DEF LInv
<1>10. ListsOK'
  <2>1. \A u \in AllListed : u \in Events /\ u # t /\ ev[u].next # t
    BY <1>3, HeadListed DEF LInv
  <2>2. \A w \in Wheels, s \in Slots : head[w][s] # t
    BY <1>3, HeadListed DEF LInv
  <2>. QED  BY <1>4, <1>6, <1>9, <2>1, <2>2, HeadListed DEF ListsOK, LInv
<1>11. Untouched(t)
  BY <1>6, <1>9 DEF Untouched
<1>12. Lone(t)' /\ Apart(t)'
  BY <1>3, <1>5, <1>9 DEF Lone, Apart, c
<1>13. WalkOK'
  BY <1>3, <1>4, <1>6, <1>9, WalkKept, ListedFacts DEF LInv, WalkOK
<1>14. CallOK(p)'
  <2>1. c.repeat => c.repeatCount < 0
    BY DEF LInv, CallOK, c
  <2>. QED  BY <1>3, <1>5, <1>8, <1>9, <2>1 DEF CallOK, Lone, Apart
<1>15. OwnCall(p, t)
  <2>1. ASSUME p # Timer, call[Timer].pc = "ran"  PROVE call[Timer].tid # t
    BY <1>1, <1>3, <2>1 DEF Lone
  <2>2. p # Timer => call'[Timer] = call[Timer]
    BY <1>7, ThreadsFacts
  <2>3. p # Timer => InFunction(call[p])'
    BY <1>8, <2>1, <2>2 DEF InFunction, Overrides
  <2>4. p = Timer => TimerCallOK'
    BY <1>3, <1>4, <1>8 DEF TimerCallOK
  <2>. QED  BY <1>4, <1>14, <2>1, <2>3, <2>4 DEF OwnCall, c
<1>16. OwnEntry(t)
  <2>1. c.repeat => c.repeatCount < 0
    BY DEF LInv, CallOK, c
  <2>. QED  BY <1>3, <1>5, <1>12, <2>1 DEF OwnEntry
<1>17. StepOf(p)
  BY <1>4, <1>7 DEF StepOf
<1>18. KeepsHold(p, t)
  BY <1>8 DEF KeepsHold, Holding, c
<1>. QED  BY <1>8, <1>10, <1>11, <1>13, <1>15, <1>16, <1>17, <1>18, Frame, HoldFrame DEF LInv

LEMMA RanLists ==
    ASSUME LInv, TypeOK', NEW p \in Processes, Alone(p), Ran(p)
    PROVE  LInv' /\ (UsedHeld => UsedHeld')
<1>. DEFINE c == call[p]
<1>1. c.pc = "ran" /\ HasEntry(c)
  BY DEF Ran, LInv, TypeOK
<1>2. PICK t \in Events : t = c.tid
  BY <1>1 DEF HasEntry
<1>. USE <1>2
<1>. DEFINE repeats == ev[t].repeat /\ c.repeatDelay # 0
<1>3. Lone(t) /\ t \notin DOMAIN due
  BY <1>1 DEF LInv, CallOK, Lone, Apart
<1>4. /\ t \in Events /\ t # 0
      /\ t \notin AllListed /\ Apart(t) /\ ~ \E u \in Events : Handing(u)
      /\ p = Timer => tick.pc \in Backs
      /\ p # Timer => /\ p \in Clients
                      /\ call[Timer].pc = "ran" => call[Timer].tid # t
  BY <1>1, EntryFacts
<1>5. UNCHANGED <<head, ptr, tick, saw, due>>
  BY DEF Ran
<1>6. ev[t].tid = t /\ ev[t].pre = 0 /\ ev[t].next = 0 /\ (ev[t].repeat => ev[t].repeatCount < 0)
  BY <1>3, <1>4 DEF Lone, Apart, LInv, RepeatOK
<1>7. ev' = (IF repeats THEN ev ELSE Erased(t))
      /\ call' = [call EXCEPT ![p] = IF repeats THEN Again(ev[t]) ELSE NoCall]
  <2>1. ev[t].repeatCount \in Int
    BY <1>4 DEF LInv, TypeOK, Entries
  <2>2. ev[t].repeat => ev[t].repeatCount # 0
    BY <1>6, <2>1
  <2>3. /\ ev' = IF repeats THEN ev ELSE Erased(t)
        /\ call' = [call EXCEPT ![p] = IF repeats /\ ev[t].repeatCount # 0 THEN Again(ev[t])
                                                                          ELSE NoCall]
    BY DEF Ran
  <2>. QED  BY <2>2, <2>3
<1>. HIDE DEF c, repeats
<1>8. /\ \A u \in Events : u # t => ev'[u] = ev[u]
      /\ IF repeats THEN ev'[t] = ev[t] ELSE ev'[t] = NoEvent
  BY <1>4, <1>7 DEF Erased, LInv, TypeOK
<1>9. /\ \A q \in Processes : q # p => call'[q] = call[q]
      /\ call'[p] = IF repeats THEN Again(ev[t]) ELSE NoCall
  BY <1>7 DEF LInv, TypeOK
<1>10. repeats => /\ call'[p].pc = "select" /\ call'[p].tid = t /\ call'[p].overriding
                 /\ call'[p].repeatCount = -1 /\ ev'[t].repeatCount < 0
  BY <1>6, <1>8, <1>9 DEF Again, AddCall, NextCount, repeats
<1>11. ~ repeats => /\ call'[p] = NoCall
                   /\ ev'[t].tid = 0 /\ ev'[t].pre = 0 /\ ev'[t].next = 0 /\ ev'[t].repeat = FALSE
  BY <1>8, <1>9 DEF NoEvent
<1>12. ev'[t].tid \in {0, t} /\ ev'[t].pre = 0 /\ ev'[t].next = 0 /\ (repeats => ev'[t].tid = t)
  BY <1>6, <1>8, <1>11
<1>13. AllListed' = AllListed
  BY <1>4, <1>5, <1>8, SameListed, ListedFacts DEF LInv
<1>14. ListsOK'
  <2>1. \A u \in AllListed : u \in Events /\ u # t /\ ev[u].next # t
    BY <1>4, HeadListed DEF LInv
  <2>2. \A w \in Wheels, s \in Slots : head[w][s] # t
    BY <1>4, HeadListed DEF LInv
  <2>. QED  BY <1>5, <1>8, <1>13, <2>1, <2>2, HeadListed DEF ListsOK, LInv
<1>15. Untouched(t)
  BY <1>8, <1>13 DEF Untouched
<1>16. Apart(t)' /\ (repeats => Lone(t)')
  BY <1>4, <1>12, <1>13 DEF Lone, Apart, c
<1>17. WalkOK'
  BY <1>4, <1>5, <1>8, <1>13, WalkKept, ListedFacts DEF LInv, WalkOK
<1>18. CallOK(p)'
  BY <1>10, <1>11, NoCallFacts DEF CallOK
<1>19. OwnCall(p, t)
  <2>1. p # Timer => call'[Timer] = call[Timer]
    BY <1>9, ThreadsFacts
  <2>2. p # Timer => InFunction(call[p])'
    <3>1. CASE repeats
      <4>1. Lone(call[p].tid)'
        BY <1>4, <1>10, <1>12, <1>13, <3>1 DEF Lone, Apart
      <4>. QED  BY <1>4, <1>10, <2>1, <3>1, <4>1 DEF InFunction
    <3>2. CASE ~ repeats
      BY <1>11, <3>2, NoCallFacts DEF InFunction
    <3>. QED  BY <3>1, <3>2
  <2>3. p = Timer => TimerCallOK'
    <3>. SUFFICES ASSUME p = Timer  PROVE TimerCallOK'
      OBVIOUS
    <3>1. CASE repeats
      <4>1. Bypassed(call[p].tid)'
        BY <1>4, <1>10, <1>12, <1>13, <3>1 DEF Bypassed
      <4>. QED  BY <1>4, <1>5, <1>10, <3>1, <4>1 DEF TimerCallOK
    <3>2. CASE ~ repeats
      BY <1>11, <3>2, NoCallFacts DEF TimerCallOK
    <3>. QED  BY <3>1, <3>2
  <2>. QED  BY <1>1, <1>4, <1>5, <1>18, <2>2, <2>3 DEF OwnCall, c
<1>20. OwnEntry(t)
  BY <1>3, <1>4, <1>5, <1>10, <1>11, <1>16 DEF OwnEntry
<1>21. StepOf(p)
  BY <1>5, <1>9 DEF StepOf
<1>22. KeepsHold(p, t)
  BY <1>10, <1>11 DEF KeepsHold, Holding, c
<1>. QED  BY <1>5, <1>14, <1>15, <1>17, <1>19, <1>20, <1>21, <1>22, Frame, HoldFrame DEF LInv

LEMMA LinkLists ==
    ASSUME LInv, TypeOK', NEW p \in Processes, Alone(p), Link(p)
    PROVE  LInv' /\ (UsedHeld => UsedHeld')
<1>. DEFINE c == call[p]
            place == Place(c.startTime)
<1>1. c.pc = "link" /\ HasEntry(c)
  BY DEF Link, LInv, TypeOK
<1>2. PICK t \in Events : t = c.tid
  BY <1>1 DEF HasEntry
<1>. USE <1>2
<1>3. Lone(t) /\ c.startTime \in Nat
  BY <1>1 DEF LInv, CallOK, TypeOK, Calls, Lone, Apart
<1>4. /\ t # 0 /\ t \notin AllListed /\ Apart(t) /\ ~ \E u \in Events : Handing(u)
      /\ p = Timer => tick.pc \in Backs
      /\ p # Timer => /\ p \in Clients
                      /\ call[Timer].pc = "ran" => call[Timer].tid # t
  BY <1>1, EntryFacts
<1>5. place \in [wheel : Wheels, slot : Slots, leftCount : Nat, leftMilliSecond : Nat]
  BY <1>3, PlaceType DEF LInv
<1>6. PICK w \in Wheels, s \in Slots : place.wheel = w /\ place.slot = s
  BY <1>5
<1>7. /\ ev' = [Pushed(t, head[w][s]) EXCEPT ![t].leftCount = place.leftCount,
                                             ![t].leftMilliSecond = place.leftMilliSecond]
      /\ head' = [head EXCEPT ![w][s] = t]
      /\ call' = [call EXCEPT ![p] = NoCall]
      /\ saw' = [saw EXCEPT ![p] = FALSE]
      /\ UNCHANGED <<ptr, tick, due>>
  BY <1>6 DEF Link, Lock
<1>. HIDE DEF c, place
<1>8. /\ \A q \in Processes : q # p => call'[q] = call[q] /\ saw'[q] = saw[q]
      /\ call'[p] = NoCall
  BY <1>7 DEF LInv, TypeOK
<1>9. \A v \in Wheels, r \in Slots : head'[v][r] = IF v = w /\ r = s THEN t ELSE head[v][r]
  BY <1>7 DEF LInv, TypeOK
<1>10. PICK h \in AllListed \cup {0} : h = head[w][s]
  BY HeadListed DEF LInv
<1>11. h \in {0} \cup Events /\ h # t
  BY <1>4, <1>10, ListedFacts DEF LInv
<1>12. \A u \in Events :
          /\ ev'[u].next = IF u = t THEN h ELSE ev[u].next
          /\ ev'[u].pre = IF h # 0 /\ u = h THEN t ELSE ev[u].pre
          /\ ev'[u].tid = ev[u].tid
          /\ ev'[u].repeat = ev[u].repeat /\ ev'[u].repeatCount = ev[u].repeatCount
  <2>1. /\ Pushed(t, h) \in [Events -> Entries]
        /\ \A u \in Events :
              /\ Pushed(t, h)[u].next = IF u = t THEN h ELSE ev[u].next
              /\ Pushed(t, h)[u].pre = IF h # 0 /\ u = h THEN t ELSE ev[u].pre
              /\ Pushed(t, h)[u].tid = ev[u].tid
              /\ Pushed(t, h)[u].repeat = ev[u].repeat
              /\ Pushed(t, h)[u].repeatCount = ev[u].repeatCount
    BY <1>4, <1>11, PushedFacts DEF LInv, Apart
  <2>2. PICK pushed : pushed = Pushed(t, h)
    OBVIOUS
  <2>3. \A u \in Events :
          /\ ev'[u].next = pushed[u].next /\ ev'[u].pre = pushed[u].pre
          /\ ev'[u].tid = pushed[u].tid /\ ev'[u].repeat = pushed[u].repeat
          /\ ev'[u].repeatCount = pushed[u].repeatCount
    <3>1. pushed \in [Events -> Entries]
      BY <2>1, <2>2
    <3>2. ev' = [pushed EXCEPT ![t].leftCount = place.leftCount,
                               ![t].leftMilliSecond = place.leftMilliSecond]
      BY <1>7, <1>10, <2>2
    <3>. QED  BY <3>1, <3>2 DEF Entries
  <2>. QED  BY <2>1, <2>2, <2>3
<1>13. AllListed' = AllListed \cup {t} /\ ListsOK'
  BY <1>3, <1>9, <1>10, <1>12, LinkListed DEF LInv
<1>14. Untouched(t)
  BY <1>10, <1>12, <1>13 DEF Untouched
<1>15. WalkOK'
  <2>1. \A u \in AllListed : /\ u \in AllListed'
                             /\ ev'[u].pre = 0 =>
                                  /\ ev[u].pre = 0
                                  /\ \A v \in Wheels, r \in Slots : head[v][r] = u => head'[v][r] = u
    <3>. SUFFICES ASSUME NEW u \in AllListed, ev'[u].pre = 0
                  PROVE  /\ ev[u].pre = 0
                         /\ \A v \in Wheels, r \in Slots : head[v][r] = u => head'[v][r] = u
      BY <1>13
    <3>1. u \in Events /\ u # 0
      BY ListedFacts DEF LInv
    <3>2. u # h
      BY <1>4, <1>12, <3>1
    <3>. QED  BY <1>4, <1>9, <1>10, <1>12, <3>1, <3>2
  <2>. QED  BY <1>7, <2>1, WalkKept DEF LInv, WalkOK
<1>16. OwnCall(p, t)
  <2>1. CallOK(p)'
    BY <1>8, NoCallFacts DEF CallOK
  <2>2. p # Timer => InFunction(call[p])'
    BY <1>8, NoCallFacts DEF InFunction
  <2>3. p = Timer => TimerCallOK'
    BY <1>8, NoCallFacts DEF TimerCallOK
  <2>. QED  BY <1>1, <1>4, <1>7, <2>1, <2>2, <2>3 DEF OwnCall, c
<1>17. OwnEntry(t)
  <2>1. ev'[t].repeat => ev'[t].repeatCount < 0
    BY <1>12 DEF LInv, RepeatOK
  <2>2. ev'[t].tid # 0
    BY <1>3, <1>4, <1>12 DEF Lone
  <2>. QED  BY <1>4, <1>13, <2>1, <2>2 DEF OwnEntry
<1>18. StepOf(p)
  BY <1>8 DEF StepOf
<1>19. KeepsHold(p, t)
  BY <1>13 DEF KeepsHold, Holding, c
<1>. QED  BY <1>7, <1>13, <1>14, <1>15, <1>16, <1>17, <1>18, <1>19, Frame, HoldFrame DEF LInv

(* A list that starts with t starts in one slot. *)
LEMMA RemovedHead ==
    ASSUME TypeOK, ListsOK, NEW t \in Events,
           head' = IF ev[t].pre # 0 \/ Heads(t) = {} THEN head
                   ELSE LET h == CHOOSE g \in FirstHead(t) : TRUE
                        IN  [head EXCEPT ![h[1]][h[2]] = ev[t].next]
    PROVE  \A w \in Wheels, s \in Slots :
              head'[w][s] = IF head[w][s] = t THEN ev[t].next ELSE head[w][s]
<1>1. t # 0
  BY SizeFacts
<1>2. CASE \A w \in Wheels, s \in Slots : head[w][s] # t
  <2>1. Heads(t) = {}
    BY <1>2 DEF Heads
  <2>. QED  BY <1>2, <2>1
<1>3. ASSUME NEW w \in Wheels, NEW s \in Slots, head[w][s] = t
      PROVE  \A v \in Wheels, r \in Slots :
                head'[v][r] = IF head[v][r] = t THEN ev[t].next ELSE head[v][r]
  <2>1. ev[t].pre = 0 /\ \A v \in Wheels, r \in Slots : head[v][r] = t => v = w /\ r = s
    BY <1>1, <1>3 DEF ListsOK
  <2>2. Heads(t) = {<<w, s>>}
    <3>1. \A g : g \in Heads(t) => g = <<w, s>>
      BY <2>1 DEF Heads
    <3>2. <<w, s>> \in Heads(t)
      BY <1>3 DEF Heads
    <3>. QED  BY <3>1, <3>2
  <2>3. Order(<<w, s>>) \in Int
    BY DEF Order, Wheels, Slots
  <2>4. FirstHead(t) = {<<w, s>>}
    BY <2>2, <2>3 DEF FirstHead
  <2>5. head' = [head EXCEPT ![w][s] = ev[t].next]
    <3>1. (CHOOSE g \in FirstHead(t) : TRUE) = <<w, s>>
      BY <2>4
    <3>2. <<w, s>>[1] = w /\ <<w, s>>[2] = s /\ Heads(t) # {}
      BY <2>2
    <3>. QED  BY <2>1, <3>1, <3>2
  <2>. QED  BY <1>3, <2>1, <2>5 DEF TypeOK
<1>. QED  BY <1>2, <1>3

(* An entry that leaves its list, and its links unless it repeats. *)
LEMMA LeaveListed ==
    ASSUME TypeOK, TypeOK', ListsOK, NEW t \in AllListed,
           \A w \in Wheels, s \in Slots :
              head'[w][s] = IF head[w][s] = t THEN ev[t].next ELSE head[w][s],
           \/ ev' = Detached(t)
           \/ ev' = [Detached(t) EXCEPT ![t] = NoEvent]
    PROVE  /\ AllListed' = AllListed \ {t} /\ ListsOK' /\ Untouched(t)
           /\ IF ev' = Detached(t) THEN ev'[t] = ev[t] /\ Bypassed(t)'
                                   ELSE ev'[t] = NoEvent /\ Apart(t)'
           /\ ev[t].tid = t
           /\ \A u \in Events : u # t =>
                 ev'[u].pre = IF u = ev[t].next THEN ev[t].pre ELSE ev[u].pre
<1>1. t \in Events /\ t # 0 /\ ev[t].next # t /\ ev[t].pre # t /\ ev[t].tid = t
  BY PreFacts, HeadListed DEF ListsOK
<1>2. PICK detached : detached = Detached(t)
  OBVIOUS
<1>3. /\ detached \in [Events -> Entries] /\ detached[t] = ev[t]
      /\ \A u \in Events :
            /\ detached[u].next = IF u = ev[t].pre THEN ev[t].next ELSE ev[u].next
            /\ detached[u].pre = IF u = ev[t].next THEN ev[t].pre ELSE ev[u].pre
            /\ detached[u].tid = ev[u].tid
            /\ detached[u].repeat = ev[u].repeat
            /\ detached[u].repeatCount = ev[u].repeatCount
  BY <1>1, <1>2, DetachedFacts
<1>4. /\ \A u \in Events : u # t => ev'[u] = detached[u]
      /\ IF ev' = detached THEN ev'[t] = ev[t] ELSE ev'[t] = NoEvent
  BY <1>1, <1>2, <1>3
<1>5. CutOut(t)
  BY <1>3, <1>4 DEF CutOut
<1>6. AllListed' = AllListed \ {t} /\ ListsOK'
  BY <1>5, CutListed
<1>7. /\ ev[t].next # 0 => ev[t].next \in AllListed' /\ ev[ev[t].next].pre = t
      /\ ev[t].pre # 0 => ev[t].pre \in AllListed' /\ ev[ev[t].pre].next = t
  BY <1>1, <1>6, HeadListed, PreFacts DEF ListsOK
<1>8. Untouched(t)
  <2>. SUFFICES ASSUME NEW u \in Events, u # t, u \notin AllListed
                PROVE  ev'[u].pre = ev[u].pre /\ ev'[u].next = ev[u].next
    BY <1>3, <1>4, <1>6 DEF Untouched
  <2>1. 0 \notin Events
    BY SizeFacts
  <2>2. u # ev[t].next /\ u # ev[t].pre
    BY <1>6, <1>7, <2>1
  <2>. QED  BY <1>3, <1>4, <2>2
<1>9. CASE ev' = detached
  <2>1. ev'[t] = ev[t]
    BY <1>4, <1>9
  <2>2. ev[t].pre # 0 => ev'[ev[t].pre].next = ev[t].next
    BY <1>3, <1>6, <1>7, <1>9, ListedFacts
  <2>3. ev[t].next # 0 => ev'[ev[t].next].pre = ev[t].pre
    BY <1>3, <1>6, <1>7, <1>9, ListedFacts
  <2>4. Bypassed(t)'
    BY <1>1, <1>6, <1>7, <2>1, <2>2, <2>3 DEF Bypassed
  <2>. QED  BY <1>1, <1>2, <1>3, <1>4, <1>6, <1>8, <1>9, <2>1, <2>4
<1>10. CASE ev' # detached
  <2>1. ev'[t] = NoEvent
    BY <1>4, <1>10
  <2>2. Apart(t)'
    BY <1>6, <2>1 DEF Apart, NoEvent
  <2>. QED  BY <1>1, <1>2, <1>3, <1>4, <1>6, <1>8, <1>10, <2>1, <2>2
<1>. QED  BY <1>9, <1>10

(* An entry that is in no list is erased: nothing points to it. *)
LEMMA EraseUnlisted ==
    ASSUME TypeOK, TypeOK', ListsOK, NEW t \in Events, t \notin AllListed, Apart(t) \/ Bypassed(t),
           head' = head, ev' = [Detached(t) EXCEPT ![t] = NoEvent]
    PROVE  /\ AllListed' = AllListed /\ ListsOK' /\ Untouched(t)
           /\ ev'[t] = NoEvent /\ Apart(t)'
           /\ \A u \in AllListed : ev'[u].pre = ev[u].pre
<1>1. /\ ev[t].pre # 0 => ev[t].pre \in AllListed /\ ev[ev[t].pre].next = ev[t].next
      /\ ev[t].next # 0 => ev[t].next \in AllListed /\ ev[ev[t].next].pre = ev[t].pre
      /\ ev[t].next # t /\ ev[t].pre # t /\ 0 \notin Events
  BY SizeFacts DEF Apart, Bypassed
<1>2. PICK detached : detached = Detached(t)
  OBVIOUS
<1>3. /\ detached \in [Events -> Entries]
      /\ \A u \in Events :
            /\ detached[u].next = IF u = ev[t].pre THEN ev[t].next ELSE ev[u].next
            /\ detached[u].pre = IF u = ev[t].next THEN ev[t].pre ELSE ev[u].pre
            /\ detached[u].tid = ev[u].tid
            /\ detached[u].repeat = ev[u].repeat
            /\ detached[u].repeatCount = ev[u].repeatCount
  BY <1>1, <1>2, DetachedFacts
<1>4. /\ ev'[t] = NoEvent
      /\ \A u \in Events : u # t =>
            /\ ev'[u].next = ev[u].next /\ ev'[u].pre = ev[u].pre /\ ev'[u].tid = ev[u].tid
            /\ ev'[u].repeat = ev[u].repeat /\ ev'[u].repeatCount = ev[u].repeatCount
  <2>1. \A u \in Events : u # t => ev'[u] = detached[u]
    BY <1>2, <1>3
  <2>2. ev'[t] = NoEvent
    BY <1>2, <1>3
  <2>. QED  BY <1>1, <1>3, <2>1, <2>2
<1>5. AllListed' = AllListed
  BY <1>4, SameListed, ListedFacts
<1>6. ListsOK'
  <2>1. \A u \in AllListed : u \in Events /\ u # t /\ ev[u].next # t
    BY <1>1, HeadListed
  <2>2. \A w \in Wheels, s \in Slots : head[w][s] # t
    BY <1>1, HeadListed
  <2>. QED  BY <1>4, <1>5, <2>1, <2>2, HeadListed DEF ListsOK
<1>7. Untouched(t)
  BY <1>4, <1>5 DEF Untouched
<1>8. Apart(t)'
  BY <1>4, <1>5 DEF Apart, NoEvent
<1>. QED  BY <1>4, <1>5, <1>6, <1>7, <1>8, ListedFacts

LEMMA RemoveLists ==
    ASSUME LInv, TypeOK', NEW p \in Processes, Alone(p), Remove(p)
    PROVE  LInv' /\ (UsedHeld => UsedHeld')
<1>. DEFINE c == call[p]
<1>1. c.pc = "remove" /\ HasEntry(c)
  BY DEF Remove, LInv, TypeOK
<1>2. PICK t \in Events : t = c.tid
  BY <1>1 DEF HasEntry
<1>. USE <1>2
<1>3. /\ t # 0 /\ c \in Calls
      /\ p = Timer => tick.pc \in Backs
      /\ p # Timer => /\ p \in Clients /\ ~ \E u \in Events : Handing(u)
                      /\ call[Timer].pc = "ran" => call[Timer].tid # t
  BY <1>1, EntryFacts
<1>4. /\ head' = IF ev[t].pre # 0 \/ Heads(t) = {} THEN head
                 ELSE LET h == CHOOSE g \in FirstHead(t) : TRUE
                      IN  [head EXCEPT ![h[1]][h[2]] = ev[t].next]
      /\ ev' = [Detached(t) EXCEPT ![t] = NoEvent]
      /\ saw' = [saw EXCEPT ![p] = FALSE]
      /\ UNCHANGED <<ptr, tick>>
  BY DEF Remove, Lock
<1>5. /\ \A q \in Processes : q # p => call'[q] = call[q] /\ saw'[q] = saw[q]
      /\ IF c.overriding THEN /\ call'[p].pc = "fill" /\ call'[p].tid = t
                              /\ call'[p].repeat = c.repeat /\ call'[p].repeatCount = c.repeatCount
                         ELSE call'[p] = NoCall
  <2>1. call \in [Processes -> Calls] /\ saw \in [Processes -> BOOLEAN]
    BY DEF LInv, TypeOK
  <2>2. call' = [call EXCEPT ![p] = IF c.overriding THEN [c EXCEPT !.pc = "fill"] ELSE NoCall]
    BY <2>1 DEF Remove
  <2>3. call'[p] = IF c.overriding THEN [c EXCEPT !.pc = "fill"] ELSE NoCall
    BY <2>1, <2>2
  <2>4. \A q \in Processes : q # p => call'[q] = call[q] /\ saw'[q] = saw[q]
    BY <1>4, <2>1, <2>2
  <2>. HIDE DEF c
  <2>. QED  BY <1>3, <2>3, <2>4 DEF Calls
<1>6. DOMAIN due' \subseteq DOMAIN due /\ (p # Timer => t \notin DOMAIN due')
  BY DEF Remove, Restrict
<1>7. p = Timer => c.overriding /\ t \notin AllListed /\ Bypassed(t)
  <2>1. p = Timer => c.overriding /\ Bypassed(call[p].tid)
    BY <1>1 DEF LInv, TimerCallOK
  <2>. QED  BY <2>1 DEF Bypassed
<1>. HIDE DEF c
<1>8. \A w \in Wheels, s \in Slots :
         head'[w][s] = IF head[w][s] = t THEN ev[t].next ELSE head[w][s]
  BY <1>4, RemovedHead DEF LInv
<1>9. /\ ListsOK' /\ Untouched(t) /\ ev'[t] = NoEvent /\ Apart(t)' /\ WalkOK'
  <2>1. CASE t \in AllListed
    <3>1. p # Timer /\ ~ InCallback
      <4>1. p # Timer
        BY <1>7, <2>1
      <4>2. InCallback => Lone(c.tid)
        BY <1>1, <1>3, <4>1 DEF LInv, CallbackOK, Overrides, c
      <4>3. Lone(c.tid) => t \notin AllListed
        BY DEF Lone, Apart
      <4>. QED  BY <2>1, <4>1, <4>2, <4>3
    <3>2. tick.pc = "sleep"
      BY <3>1, AloneFacts
    <3>3. WalkOK'
      BY <1>4, <3>2 DEF WalkOK, WheelOf
    <3>4. /\ ListsOK' /\ Untouched(t)
          /\ IF ev' = Detached(t) THEN ev'[t] = ev[t] ELSE ev'[t] = NoEvent /\ Apart(t)'
      BY <1>4, <1>8, <2>1, LeaveListed DEF LInv
    <3>5. ev' # Detached(t)
      <4>1. Detached(t)[t] = ev[t] /\ ev[t].tid = t /\ DOMAIN Detached(t) = Events
        BY <2>1, PreFacts, DetachedFacts DEF LInv, ListsOK
      <4>2. ev'[t].tid = 0
        BY <1>4, <4>1 DEF NoEvent
      <4>. QED  BY <1>3, <4>1, <4>2
    <3>. QED  BY <3>3, <3>4, <3>5
  <2>2. CASE t \notin AllListed
    <3>1. Apart(t) \/ Bypassed(t)
      BY <1>3, <1>7, <2>2 DEF LInv, UnlistedOK
    <3>2. Heads(t) = {}
      <4>1. \A w \in Wheels, s \in Slots : head[w][s] # t
        BY <1>3, <2>2, HeadListed DEF LInv
      <4>. QED  BY <4>1 DEF Heads
    <3>3. head' = head
      BY <1>4, <3>2
    <3>4. /\ AllListed' = AllListed /\ ListsOK' /\ Untouched(t)
          /\ ev'[t] = NoEvent /\ Apart(t)'
          /\ \A u \in AllListed : ev'[u].pre = ev[u].pre
      BY <1>4, <2>2, <3>1, <3>3, EraseUnlisted DEF LInv
    <3>5. WalkOK'
      BY <1>4, <3>3, <3>4, WalkKept DEF LInv, WalkOK
    <3>. QED  BY <3>4, <3>5
  <2>. QED  BY <2>1, <2>2
<1>10. ev'[t].tid = 0 /\ ev'[t].repeat = FALSE
  BY <1>9 DEF NoEvent
<1>11. OwnCall(p, t)
  <2>1. CallOK(p)'
    <3>1. c.repeat => c.repeatCount < 0
      BY DEF LInv, CallOK, c
    <3>2. CASE c.overriding
      BY <1>5, <1>10, <3>1, <3>2 DEF CallOK
    <3>3. CASE ~ c.overriding
      BY <1>5, <3>3, NoCallFacts DEF CallOK
    <3>. QED  BY <3>2, <3>3
  <2>2. p # Timer => InFunction(call[p])'
    BY <1>5, NoCallFacts DEF InFunction, Overrides
  <2>3. p = Timer => TimerCallOK'
    BY <1>3, <1>4, <1>5, <1>7 DEF TimerCallOK
  <2>. QED  BY <1>1, <1>3, <1>4, <2>1, <2>2, <2>3 DEF OwnCall, c
<1>12. OwnEntry(t)
  <2>1. \A u \in Events : u # t /\ Handing(u) => Handing(u)'
    BY <1>3 DEF Handing, c
  <2>. QED  BY <1>5, <1>6, <1>7, <1>9, <1>10, <2>1 DEF OwnEntry
<1>13. StepOf(p)
  BY <1>5 DEF StepOf
<1>14. KeepsHold(p, t)
  BY <1>10 DEF KeepsHold, c
<1>. QED  BY <1>6, <1>9, <1>11, <1>12, <1>13, <1>14, Frame, HoldFrame DEF LInv

LEMMA StartCallLists ==
    ASSUME QuietCalls, LInv, TypeOK', NEW p \in Processes, Alone(p), StartCall(p)
    PROVE  LInv' /\ (UsedHeld => UsedHeld')
<1>1. /\ p \in Clients /\ p # Timer /\ call[p].pc = "none"
      /\ UNCHANGED <<ev, head, ptr, tick, due, saw>>
  BY ThreadAssumption DEF StartCall, wheelVars
<1>2. PICK c \in IF InCallback THEN CallbackCalls ELSE ClientCalls : call' = [call EXCEPT ![p] = c]
  BY DEF StartCall
<1>3. /\ c.pc \in {"select", "remove"} /\ (c.repeat => c.repeatCount < 0)
      /\ InCallback => ~ Overrides(c) /\ c.pc = "select"
  BY <1>2 DEF QuietCalls, EndlessOnly, Overrides
<1>4. /\ \A q \in Processes : q # p => call'[q] = call[q]
      /\ call'[p] = c
  BY <1>2 DEF LInv, TypeOK
<1>5. /\ AllListed' = AllListed /\ ListsOK' /\ Untouched(0)
  BY <1>1, StillFacts DEF LInv
<1>6. WalkOK'
  BY <1>1, <1>5 DEF LInv, WalkOK, AtSlot
<1>7. OwnCall(p, 0)
  <2>1. CallOK(p)'
    BY <1>3, <1>4 DEF CallOK
  <2>2. InCallback => InFunction(call[p])'
    BY <1>3, <1>4 DEF InFunction
  <2>3. call[Timer].pc = "ran" => call[Timer].tid # 0
    BY ThreadsFacts, SizeFacts DEF LInv, TypeOK, HasEntry
  <2>. QED  BY <1>1, <2>1, <2>2, <2>3 DEF OwnCall
<1>8. OwnEntry(0)
  BY <1>1, <1>4, SizeFacts, ThreadsFacts DEF OwnEntry, Handing, LInv, TypeOK
<1>9. StepOf(p)
  BY <1>1, <1>4 DEF StepOf
<1>10. KeepsHold(p, 0)
  BY <1>1, SizeFacts DEF KeepsHold, Holding
<1>. QED  BY <1>1, <1>5, <1>6, <1>7, <1>8, <1>9, <1>10, Frame, HoldFrame DEF LInv
-----------------------------------------------------------------------------
(* The steps of Tick *)

(* A step of the timer thread that writes no links and makes no call. *)
LEMMA StillTick ==
    ASSUME LInv, TypeOK', Alone(Timer), call' = call, call[Timer].pc = "none", head' = head,
           DOMAIN due' \subseteq DOMAIN due, WalkOK',
           \A q \in Processes : q # Timer => saw'[q] = saw[q],
           \A u \in Events : /\ ev'[u].pre = ev[u].pre /\ ev'[u].next = ev[u].next
                             /\ ev'[u].tid = ev[u].tid /\ ev'[u].repeat = ev[u].repeat
                             /\ ev'[u].repeatCount = ev[u].repeatCount
    PROVE  LInv' /\ (UsedHeld => UsedHeld')
<1>1. Timer \in Processes /\ StepOf(Timer)
  BY ThreadsFacts DEF StepOf
<1>2. ListsOK' /\ Untouched(0)
  BY StillFacts DEF LInv
<1>3. OwnCall(Timer, 0)
  BY <1>1 DEF OwnCall, CallOK, TimerCallOK, LInv
<1>4. OwnEntry(0)
  BY SizeFacts DEF OwnEntry, Handing, LInv, TypeOK
<1>5. KeepsHold(Timer, 0)
  BY SizeFacts DEF KeepsHold, Holding
<1>. QED  BY <1>1, <1>2, <1>3, <1>4, <1>5, Frame, HoldFrame DEF LInv

(* The head of the slot that is reached. *)
LEMMA AtHead ==
    ASSUME LInv, TypeOK', ev' = ev, head' = head, NEW w \in Wheels,
           WheelOf(tick'.pc) = w, tick'.pc # "dead",
           tick'.HeadKeyPointer = head[w][ptr'[w]]
    PROVE  WalkOK'
<1>1. AllListed' = AllListed
  BY StillFacts DEF LInv
<1>2. ptr'[w] \in Slots
  BY DEF TypeOK
<1>. QED  BY <1>1, <1>2, HeadListed DEF WalkOK, AtSlot, LInv

(* The steps that begin the tick, wait for the flag or turn a wheel. *)
LEMMA PauseLists ==
    ASSUME LInv, TypeOK', Alone(Timer),
           TickBegins \/ TickLocks \/ BackFromRepeat \/ BackFromRun
             \/ \E wheel \in Coarse : BackFromCascade(wheel)
    PROVE  LInv' /\ (UsedHeld => UsedHeld')
<1>1. ASSUME UNCHANGED <<ev, head, call>>, call[Timer].pc = "none", WalkOK',
             saw' = saw \/ saw' = [saw EXCEPT ![Timer] = FALSE],
             DOMAIN due' \subseteq DOMAIN due
      PROVE  LInv' /\ (UsedHeld => UsedHeld')
  <2>1. \A q \in Processes : q # Timer => saw'[q] = saw[q]
    BY <1>1 DEF LInv, TypeOK
  <2>. QED  BY <1>1, <2>1, StillTick
<1>2. tick.pc \notin Backs => call[Timer].pc = "none"
  BY DEF LInv, TimerCallOK
<1>3. CASE TickBegins
  <2>1. WalkOK'
    BY <1>3 DEF TickBegins, Goto, WalkOK, WheelOf
  <2>2. call[Timer].pc = "none"
    BY <1>2, <1>3 DEF TickBegins, Backs
  <2>. QED  BY <1>1, <1>3, <2>1, <2>2 DEF TickBegins, wheelVars
<1>4. CASE TickLocks
  <2>1. /\ UNCHANGED <<ev, head, ptr, call, due>> /\ saw' = [saw EXCEPT ![Timer] = FALSE]
        /\ tick'.pc = "sec" /\ tick'.HeadKeyPointer = head["second"][ptr["second"]]
    BY <1>4 DEF TickLocks, Lock, Goto, Now, wheelVars
  <2>2. WalkOK'
    <3>1. "second" \in Wheels /\ WheelOf(tick'.pc) = "second"
      BY <2>1 DEF Wheels, WheelOf
    <3>. QED  BY <2>1, <3>1, AtHead
  <2>3. call[Timer].pc = "none"
    BY <1>2, <1>4 DEF TickLocks, Backs
  <2>. QED  BY <1>1, <2>1, <2>2, <2>3
<1>5. ASSUME WheelOf(tick'.pc) = WheelOf(tick.pc), tick'.pc # "dead",
             tick'.HeadKeyPointer = tick.HeadKeyPointer, call[Timer].pc = "none",
             UNCHANGED <<ev, head, ptr, call, due>>, saw' = [saw EXCEPT ![Timer] = FALSE]
      PROVE  LInv' /\ (UsedHeld => UsedHeld')
  <2>1. AllListed' = AllListed
    BY <1>5, StillFacts DEF LInv
  <2>2. WalkOK'
    BY <1>5, <2>1, WalkKept
  <2>. QED  BY <1>1, <1>5, <2>2
<1>6. CASE BackFromRepeat
  <2>1. WheelOf(tick'.pc) = WheelOf(tick.pc) /\ tick'.pc # "dead"
        /\ tick'.HeadKeyPointer = tick.HeadKeyPointer
    BY <1>6 DEF BackFromRepeat, Goto, WheelOf
  <2>. QED  BY <1>5, <1>6, <2>1 DEF BackFromRepeat, Lock, wheelVars
<1>7. CASE BackFromRun
  <2>1. WheelOf(tick'.pc) = WheelOf(tick.pc) /\ tick'.pc # "dead"
        /\ tick'.HeadKeyPointer = tick.HeadKeyPointer
    BY <1>7 DEF BackFromRun, Goto, WheelOf
  <2>2. call[Timer].pc = "none"
    BY <1>2, <1>7 DEF BackFromRun, Backs
  <2>. QED  BY <1>5, <1>7, <2>1, <2>2 DEF BackFromRun, Lock, wheelVars
<1>8. ASSUME NEW wheel \in Coarse, BackFromCascade(wheel)
      PROVE  LInv' /\ (UsedHeld => UsedHeld')
  <2>1. WheelOf(tick'.pc) = WheelOf(tick.pc) /\ tick'.pc # "dead"
        /\ tick'.HeadKeyPointer = tick.HeadKeyPointer
    BY <1>8 DEF BackFromCascade, Goto, WheelOf, Back, Coarse
  <2>. QED  BY <1>5, <1>8, <2>1 DEF BackFromCascade, Lock, wheelVars
<1>. QED  BY <1>3, <1>4, <1>6, <1>7, <1>8

LEMMA EndLists ==
    ASSUME LInv, TypeOK', Alone(Timer), EndSecond \/ EndMinute \/ EndHour
    PROVE  LInv' /\ (UsedHeld => UsedHeld')
<1>1. UNCHANGED <<ev, head, call, saw, due>> /\ tick.pc \notin Backs
  BY DEF EndSecond, EndMinute, EndHour, Backs
<1>2. call[Timer].pc = "none"
  BY <1>1 DEF LInv, TimerCallOK
<1>3. ASSUME tick'.pc = "sleep"  PROVE WalkOK'
  BY <1>3 DEF WalkOK, WheelOf
<1>4. ASSUME NEW w \in Wheels, NEW v \in Wheels, v # w, ptr' = Turn(v),
             Goto(w, head[w][ptr[w]]), w # "second"
      PROVE  WalkOK'
  <2>1. ptr'[w] = ptr[w]
    BY <1>4 DEF Turn, LInv, TypeOK
  <2>2. /\ tick'.pc = w /\ tick'.HeadKeyPointer = head[w][ptr[w]]
        /\ WheelOf(w) = w /\ w # "dead"
    BY <1>4 DEF Goto, WheelOf, Wheels
  <2>. QED  BY <1>1, <1>4, <2>1, <2>2, AtHead
<1>5. WalkOK'
  <2>1. CASE EndSecond
    <3>1. tick'.pc = "sleep" \/ Goto("minute", head["minute"][ptr["minute"]])
      BY <2>1 DEF EndSecond, Goto
    <3>2. "minute" \in Wheels /\ "second" \in Wheels /\ ptr' = Turn("second")
      BY <2>1 DEF EndSecond, Wheels
    <3>. QED  BY <1>3, <1>4, <3>1, <3>2
  <2>2. CASE EndMinute
    <3>1. tick'.pc = "sleep" \/ Goto("hour", head["hour"][ptr["hour"]])
      BY <2>2 DEF EndMinute, Goto
    <3>2. "minute" \in Wheels /\ "hour" \in Wheels /\ ptr' = Turn("minute")
      BY <2>2 DEF EndMinute, Wheels
    <3>. QED  BY <1>3, <1>4, <3>1, <3>2
  <2>3. CASE EndHour
    BY <1>3, <2>3 DEF EndHour, Goto
  <2>. QED  BY <2>1, <2>2, <2>3
<1>. QED  BY <1>1, <1>2, <1>5, StillTick

(* An event that has turns to wait: its successor has a predecessor. *)
LEMMA WaitLists ==
    ASSUME LInv, TypeOK', Alone(Timer), NEW wheel, Wait(wheel), tick.HeadKeyPointer # 0,
           tick.pc \in {"sec", "minute", "hour"}
    PROVE  LInv' /\ (UsedHeld => UsedHeld')
<1>1. tick.HeadKeyPointer \in AllListed
  BY DEF LInv, WalkOK, AtSlot, WheelOf
<1>2. PICK t \in AllListed : t = tick.HeadKeyPointer
  BY <1>1
<1>3. /\ ev' = [ev EXCEPT ![t].leftCount = @ - 1]
      /\ tick' = [pc |-> tick.pc, HeadKeyPointer |-> ev[t].next]
      /\ UNCHANGED <<head, ptr, call, saw, due>>
  BY <1>2 DEF Wait, Goto
<1>4. \A u \in Events : /\ ev'[u].pre = ev[u].pre /\ ev'[u].next = ev[u].next
                        /\ ev'[u].tid = ev[u].tid /\ ev'[u].repeat = ev[u].repeat
                        /\ ev'[u].repeatCount = ev[u].repeatCount
  BY <1>3 DEF LInv, TypeOK, Entries
<1>5. AllListed' = AllListed
  BY <1>3, <1>4, StillFacts DEF LInv
<1>6. WalkOK'
  <2>1. ev[t].next # 0 => ev[t].next \in AllListed /\ ev[t].next \in Events /\ ev[ev[t].next].pre = t /\ t # 0
    BY HeadListed DEF LInv, ListsOK
  <2>2. ev[t].next # 0 => ev[t].next \in AllListed' /\ ev'[ev[t].next].pre # 0
    BY <1>4, <1>5, <2>1
  <2>3. tick'.pc # "dead" /\ tick'.HeadKeyPointer = ev[t].next
    BY <1>3
  <2>. QED  BY <2>2, <2>3 DEF WalkOK, AtSlot
<1>7. call[Timer].pc = "none"
  BY DEF LInv, TimerCallOK, Backs
<1>. QED  BY <1>3, <1>4, <1>6, <1>7, StillTick

(* The timer thread takes the entry it has come to out of its list. *)
LEMMA TakenOut ==
    ASSUME LInv, TypeOK', NEW w \in Wheels, NEW t \in Events, t = tick.HeadKeyPointer,
           WheelOf(tick.pc) = w, head' = HeadsWithout(w, t), ptr' = ptr,
           tick'.HeadKeyPointer = ev[t].next, WheelOf(tick'.pc) = w, tick'.pc # "dead",
           ev' = Detached(t) \/ ev' = [Detached(t) EXCEPT ![t] = NoEvent]
    PROVE  /\ ListsOK' /\ Untouched(t) /\ WalkOK' /\ t # 0 /\ ev[t].tid = t
           /\ IF ev' = Detached(t) THEN ev'[t] = ev[t] /\ Bypassed(t)'
                                   ELSE ev'[t] = NoEvent /\ Apart(t)'
<1>1. t \in AllListed /\ t # 0 /\ w # "none" /\ (ev[t].pre = 0 => head[w][ptr[w]] = t)
  BY SizeFacts DEF LInv, WalkOK, AtSlot, Wheels
<1>2. /\ ev[t].tid = t
      /\ \A v \in Wheels, r \in Slots : head[v][r] = t =>
            /\ ev[t].pre = 0
            /\ \A x \in Wheels, y \in Slots : head[x][y] = t => x = v /\ y = r
  BY <1>1 DEF LInv, ListsOK
<1>3. ptr[w] \in Slots
  BY DEF LInv, TypeOK
<1>4. \A v \in Wheels, r \in Slots :
         head'[v][r] = IF head[v][r] = t THEN ev[t].next ELSE head[v][r]
  <2>1. CASE head[w][ptr[w]] = t
    <3>1. head' = [head EXCEPT ![w][ptr[w]] = ev[t].next]
      BY <1>2, <2>1 DEF HeadsWithout
    <3>2. \A v \in Wheels, r \in Slots : head[v][r] = t => v = w /\ r = ptr[w]
      BY <1>2, <1>3, <2>1
    <3>. QED  BY <1>3, <2>1, <3>1, <3>2 DEF LInv, TypeOK
  <2>2. CASE head[w][ptr[w]] # t
    <3>1. head' = head
      BY <1>2, <2>2 DEF HeadsWithout
    <3>2. \A v \in Wheels, r \in Slots : head[v][r] # t
      BY <1>1, <1>2, <2>2
    <3>. QED  BY <3>1, <3>2
  <2>. QED  BY <2>1, <2>2
<1>5. /\ AllListed' = AllListed \ {t} /\ ListsOK' /\ Untouched(t)
      /\ IF ev' = Detached(t) THEN ev'[t] = ev[t] /\ Bypassed(t)'
                              ELSE ev'[t] = NoEvent /\ Apart(t)'
      /\ \A u \in Events : u # t =>
            ev'[u].pre = IF u = ev[t].next THEN ev[t].pre ELSE ev[u].pre
  BY <1>1, <1>4, LeaveListed DEF LInv
<1>6. WalkOK'
  <2>1. ev[t].next # 0 => ev[t].next \in AllListed' /\ ev[t].next \in Events /\ ev[t].next # t
    BY <1>1, <1>5, HeadListed, PreFacts DEF LInv
  <2>2. ev[t].next # 0 => (ev'[ev[t].next].pre = 0 => head'[w][ptr[w]] = ev[t].next)
    BY <1>1, <1>3, <1>4, <1>5, <2>1
  <2>. QED  BY <2>1, <2>2 DEF WalkOK, AtSlot
<1>. QED  BY <1>1, <1>2, <1>5, <1>6

(* It adds it again, or erases it. *)
LEMMA HandedOver ==
    ASSUME LInv, TypeOK', Alone(Timer), NEW w \in Wheels, NEW t \in Events, t = tick.HeadKeyPointer,
           WheelOf(tick.pc) = w, call[Timer].pc = "none",
           head' = HeadsWithout(w, t), ptr' = ptr, saw' = saw,
           tick'.HeadKeyPointer = ev[t].next, WheelOf(tick'.pc) = w, tick'.pc # "dead",
           DOMAIN due' \subseteq DOMAIN due,
           \/ /\ ev' = Detached(t) /\ tick'.pc \in Backs
              /\ \E c \in Calls : /\ call' = [call EXCEPT ![Timer] = c]
                                  /\ c.pc = "select" /\ c.tid = t /\ c.overriding
                                  /\ c.repeat => c.repeatCount < 0
           \/ /\ ev' = [Detached(t) EXCEPT ![t] = NoEvent] /\ call' = call
              /\ t \notin DOMAIN due'
    PROVE  LInv' /\ (UsedHeld => UsedHeld')
<1>1. /\ ListsOK' /\ Untouched(t) /\ WalkOK' /\ t # 0 /\ ev[t].tid = t
      /\ IF ev' = Detached(t) THEN ev'[t] = ev[t] /\ Bypassed(t)'
                              ELSE ev'[t] = NoEvent /\ Apart(t)'
  BY TakenOut
<1>2. Timer \in Processes /\ StepOf(Timer) /\ ~ \E u \in Events : Handing(u)
  BY ThreadsFacts DEF StepOf, LInv, TypeOK, Handing
<1>3. CASE /\ ev' = Detached(t) /\ tick'.pc \in Backs
           /\ \E c \in Calls : /\ call' = [call EXCEPT ![Timer] = c]
                               /\ c.pc = "select" /\ c.tid = t /\ c.overriding
                               /\ c.repeat => c.repeatCount < 0
  <2>1. /\ call'[Timer].pc = "select" /\ call'[Timer].tid = t /\ call'[Timer].overriding
        /\ call'[Timer].repeat => call'[Timer].repeatCount < 0
    BY <1>2, <1>3 DEF LInv, TypeOK
  <2>2. ev'[t] = ev[t] /\ Bypassed(t)'
    BY <1>1, <1>3
  <2>3. Bypassed(call[Timer].tid)'
    BY <2>1, <2>2 DEF Bypassed
  <2>4. OwnCall(Timer, t)
    BY <1>3, <2>1, <2>3 DEF OwnCall, CallOK, TimerCallOK
  <2>5. OwnEntry(t)
    <3>1. Handing(t)'
      BY <2>1 DEF Handing
    <3>2. ev'[t].repeat => ev'[t].repeatCount < 0
      BY <2>2 DEF LInv, RepeatOK
    <3>. QED  BY <1>1, <1>2, <2>2, <3>1, <3>2 DEF OwnEntry
  <2>6. KeepsHold(Timer, t)
    BY <2>1 DEF KeepsHold, Holding
  <2>. QED  BY <1>1, <1>2, <2>4, <2>5, <2>6, Frame, HoldFrame DEF LInv
<1>4. CASE /\ ev' = [Detached(t) EXCEPT ![t] = NoEvent] /\ call' = call
           /\ t \notin DOMAIN due'
  <2>1. ev'[t].tid = 0 /\ ev'[t].repeat = FALSE /\ Apart(t)'
    <3>1. DOMAIN Detached(t) = Events
      BY DetachedType DEF LInv
    <3>2. ev'[t] = NoEvent
      BY <1>4, <3>1
    <3>3. ev'[t].tid # ev[t].tid
      BY <1>1, <3>2 DEF NoEvent
    <3>. QED  BY <1>1, <3>2, <3>3 DEF NoEvent
  <2>2. OwnCall(Timer, t)
    BY <1>2, <1>4 DEF OwnCall, CallOK, TimerCallOK, LInv
  <2>3. OwnEntry(t)
    BY <1>2, <1>4, <2>1 DEF OwnEntry
  <2>4. KeepsHold(Timer, t)
    BY <1>2, <1>4, <2>1 DEF KeepsHold, Holding
  <2>. QED  BY <1>1, <1>2, <2>2, <2>3, <2>4, Frame, HoldFrame DEF LInv
<1>. QED  BY <1>3, <1>4

LEMMA FireLists ==
    ASSUME LInv, TypeOK', Alone(Timer), Fire, tick.pc = "sec", tick.HeadKeyPointer # 0
    PROVE  LInv' /\ (UsedHeld => UsedHeld')
<1>1. PICK t \in Events : t = tick.HeadKeyPointer
  BY DEF LInv, TypeOK
<1>2. call[Timer].pc = "none" /\ ev[t] \in Entries /\ call \in [Processes -> Calls]
  BY DEF LInv, TimerCallOK, Backs, TypeOK
<1>3. t \in AllListed /\ ev[t].tid = t /\ (ev[t].repeat => ev[t].repeatCount < 0)
  BY <1>1, SizeFacts DEF LInv, WalkOK, AtSlot, WheelOf, ListsOK, RepeatOK
<1>4. /\ head' = HeadsWithout("second", t) /\ UNCHANGED <<ptr, saw>>
      /\ due' = Restrict(due, DOMAIN due \ {t})
      /\ \/ /\ ev[t].repeat /\ ev' = Detached(t)
            /\ call' = [call EXCEPT ![Timer] = IF ev[t].repeatCount = 0 THEN NoCall ELSE Again(ev[t])]
            /\ tick' = [pc |-> "sec_back", HeadKeyPointer |-> ev[t].next]
         \/ /\ ev' = [Detached(t) EXCEPT ![t] = NoEvent] /\ call' = call
            /\ tick' = [pc |-> "run", HeadKeyPointer |-> ev[t].next]
  BY <1>1 DEF Fire, Goto
<1>5. DOMAIN due' \subseteq DOMAIN due /\ t \notin DOMAIN due'
  BY <1>4 DEF Restrict
<1>6. /\ tick'.HeadKeyPointer = ev[t].next /\ tick'.pc \in {"sec_back", "run"}
      /\ ev[t].repeat /\ ev' = Detached(t) => tick'.pc \in Backs \/ call' = call
  BY <1>4 DEF Backs
<1>7. WheelOf(tick'.pc) = "second" /\ WheelOf(tick.pc) = "second" /\ "second" \in Wheels
      /\ tick'.pc # "dead"
  BY <1>6 DEF WheelOf, Wheels
<1>8. \/ /\ ev' = Detached(t) /\ tick'.pc \in Backs
         /\ \E c \in Calls : /\ call' = [call EXCEPT ![Timer] = c]
                             /\ c.pc = "select" /\ c.tid = t /\ c.overriding
                             /\ c.repeat => c.repeatCount < 0
      \/ /\ ev' = [Detached(t) EXCEPT ![t] = NoEvent] /\ call' = call
         /\ t \notin DOMAIN due'
  <2>1. ev[t].repeatCount \in Int
    BY <1>2 DEF Entries
  <2>2. ev[t].repeat => Again(ev[t]) \in Calls /\ ev[t].repeatCount # 0 /\ ev[t].repeatCount < 0
    BY <1>2, <1>3, <2>1, AgainType
  <2>3. ev[t].repeat => /\ Again(ev[t]).pc = "select" /\ Again(ev[t]).tid = t
                        /\ Again(ev[t]).overriding /\ Again(ev[t]).repeatCount < 0
    BY <1>3, <2>2 DEF Again, AddCall, NextCount
  <2>. QED  BY <1>4, <1>5, <2>2, <2>3 DEF Backs
<1>. QED  BY <1>1, <1>2, <1>4, <1>5, <1>6, <1>7, <1>8, HandedOver

LEMMA CascadeLists ==
    ASSUME LInv, TypeOK', Alone(Timer), NEW wheel \in Coarse, Cascade(wheel), tick.pc = wheel,
           tick.HeadKeyPointer # 0
    PROVE  LInv' /\ (UsedHeld => UsedHeld')
<1>1. PICK t \in Events : t = tick.HeadKeyPointer
  BY DEF LInv, TypeOK
<1>2. call[Timer].pc = "none" /\ ev[t] \in Entries
  BY DEF LInv, TimerCallOK, Backs, TypeOK, Coarse
<1>3. /\ WheelOf(wheel) = wheel /\ WheelOf(Back[wheel]) = wheel /\ wheel \in Wheels
      /\ wheel # "none" /\ Back[wheel] \in Backs /\ Back[wheel] # "dead"
  BY DEF Coarse, Back, WheelOf, Wheels, Backs
<1>4. t \in AllListed /\ ev[t].tid = t /\ (ev[t].repeat => ev[t].repeatCount < 0)
  BY <1>1, <1>3, SizeFacts DEF LInv, WalkOK, AtSlot, ListsOK, RepeatOK
<1>5. PICK c : c = AddCall(ev[t].tid, ev[t].leftMilliSecond, ev[t].millisecond, ev[t].repeat,
                           ev[t].repeatCount, TRUE)
  OBVIOUS
<1>6. /\ c \in Calls /\ c.pc = "select" /\ c.tid = t /\ c.overriding
      /\ c.repeat => c.repeatCount < 0
  BY <1>2, <1>4, <1>5 DEF AddCall, Calls, Entries
<1>7. /\ ev' = Detached(t) /\ head' = HeadsWithout(wheel, t) /\ UNCHANGED <<ptr, saw, due>>
      /\ call' = [call EXCEPT ![Timer] = c]
      /\ tick'.pc = Back[wheel] /\ tick'.HeadKeyPointer = ev[t].next
  BY <1>1, <1>5 DEF Cascade, Goto
<1>. QED  BY <1>1, <1>2, <1>3, <1>6, <1>7, HandedOver

LEMMA VisitLists ==
    ASSUME LInv, TypeOK', Alone(Timer), VisitSecond \/ \E wheel \in Coarse : VisitCoarse(wheel)
    PROVE  LInv' /\ (UsedHeld => UsedHeld')
<1>1. CASE VisitSecond
  <2>1. tick.pc = "sec" /\ tick.HeadKeyPointer # 0
    BY <1>1 DEF VisitSecond
  <2>2. ~ EventError
    <3>1. ev[tick.HeadKeyPointer].tid = tick.HeadKeyPointer
      BY <2>1 DEF LInv, WalkOK, AtSlot, WheelOf, ListsOK
    <3>. QED  BY <2>1, <3>1 DEF EventError
  <2>. QED  BY <1>1, <2>1, <2>2, WaitLists, FireLists DEF VisitSecond
<1>2. ASSUME NEW wheel \in Coarse, VisitCoarse(wheel)
      PROVE  LInv' /\ (UsedHeld => UsedHeld')
  <2>1. tick.pc = wheel /\ tick.pc \in {"sec", "minute", "hour"} /\ tick.HeadKeyPointer # 0
    BY <1>2 DEF VisitCoarse, Coarse
  <2>. QED  BY <1>2, <2>1, WaitLists, CascadeLists DEF VisitCoarse
<1>. QED  BY <1>1, <1>2
-----------------------------------------------------------------------------
(* The invariant holds of every state. *)

LEMMA NoLists ==
    ASSUME TypeOK, \A w \in Wheels, s \in Slots : head[w][s] = 0
    PROVE  AllListed = {}
<1>1. HoldsLists({})
  BY DEF HoldsLists
<1>. QED  BY <1>1, ListedFacts

LEMMA InitLists == Init => LInv /\ UsedHeld
<1>. SUFFICES ASSUME Init  PROVE LInv /\ UsedHeld
  OBVIOUS
<1>1. TypeOK
  BY InitType
<1>2. AllListed = {} /\ \A w \in Wheels, s \in Slots : head[w][s] = 0
  BY <1>1, NoLists DEF Init
<1>3. \A t \in Events : /\ ev[t].tid = 0 /\ ev[t].pre = 0 /\ ev[t].next = 0
                        /\ ev[t].repeat = FALSE
  BY DEF Init, NoEvent
<1>4. \A p \in Processes : call[p] = NoCall
  BY DEF Init
<1>5. ListsOK /\ UnlistedOK
  BY <1>2, <1>3 DEF ListsOK, UnlistedOK, Apart
<1>6. \A p \in Processes : CallOK(p)
  BY <1>4, NoCallFacts DEF CallOK
<1>7. TimerCallOK /\ CallbackOK /\ WalkOK
  <2>1. call[Timer] = NoCall /\ \A c \in Clients : call[c] = NoCall
    BY <1>4, ThreadsFacts
  <2>2. tick.pc = "sleep"
    BY DEF Init
  <2>. QED  BY <2>1, <2>2, NoCallFacts DEF TimerCallOK, CallbackOK, WalkOK, WheelOf, InCallback
<1>8. RepeatOK /\ DueOK /\ UsedHeld
  <2>1. DOMAIN due = {}
    BY DEF Init
  <2>. QED  BY <1>3, <2>1 DEF RepeatOK, DueOK, UsedHeld
<1>. QED  BY <1>1, <1>5, <1>6, <1>7, <1>8 DEF LInv

LEMMA StutterLists ==
    ASSUME LInv, UNCHANGED vars  PROVE LInv' /\ (UsedHeld => UsedHeld')
<1>1. /\ UNCHANGED <<ev, head, ptr, call, saw, tick, due>> /\ TypeOK'
  BY NextType DEF vars, LInv
<1>2. AllListed' = AllListed /\ ListsOK'
  BY <1>1, StillFacts DEF LInv
<1>3. UnlistedOK'
  BY <1>1, <1>2 DEF LInv, UnlistedOK, Apart, Handing
<1>4. \A p \in Processes : CallOK(p)'
  BY <1>1, <1>2 DEF LInv, CallOK, Lone, Apart
<1>5. TimerCallOK'
  BY <1>1, <1>2 DEF LInv, TimerCallOK, Bypassed
<1>6. CallbackOK'
  BY <1>1, <1>2 DEF LInv, CallbackOK, InCallback, Lone, Apart
<1>7. WalkOK'
  BY <1>1, <1>2 DEF LInv, WalkOK, AtSlot
<1>8. RepeatOK' /\ DueOK'
  BY <1>1 DEF LInv, RepeatOK, DueOK
<1>9. UsedHeld => UsedHeld'
  BY <1>1, <1>2 DEF UsedHeld
<1>. QED  BY <1>1, <1>2, <1>3, <1>4, <1>5, <1>6, <1>7, <1>8, <1>9 DEF LInv

LEMMA NextLists ==
    ASSUME QuietCalls, LInv, [QuietNext]_vars
    PROVE  LInv' /\ (UsedHeld => UsedHeld')
<1>1. CASE UNCHANGED vars
  BY <1>1, StutterLists
<1>2. ASSUME NEW p \in Processes, Alone(p), Step(p) \/ StartCall(p)
      PROVE  LInv' /\ (UsedHeld => UsedHeld')
  <2>1. TypeOK'
    BY <1>2, NextType DEF Next, LInv
  <2>2. CASE CallStep(p)
    BY <1>2, <2>1, <2>2, SeeFlagLists, SelectLists, NoEntryLists, FillLists, RanLists, LinkLists, RemoveLists
       DEF CallStep
  <2>3. CASE p = Timer /\ (TickBegins \/ TickStep)
    <3>1. Alone(Timer)
      BY <1>2, <2>3
    <3>. QED  BY <2>1, <2>3, <3>1, PauseLists, EndLists, VisitLists DEF TickStep
  <2>4. CASE StartCall(p)
    BY <1>2, <2>1, <2>4, StartCallLists
  <2>. QED  BY <1>2, <2>2, <2>3, <2>4 DEF Step
<1>. QED  BY <1>1, <1>2 DEF QuietNext

LEMMA SoundLists == LInv => WheelsSound /\ TimerAlive
<1>. SUFFICES ASSUME LInv  PROVE WheelsSound /\ TimerAlive
  OBVIOUS
<1>1. ASSUME NEW w \in Wheels, NEW s \in Slots, head[w][s] # 0
      PROVE  ev[head[w][s]].pre = 0 /\ Heads(head[w][s]) = {<<w, s>>}
  <2>1. /\ ev[head[w][s]].pre = 0
        /\ \A v \in Wheels, r \in Slots : head[v][r] = head[w][s] => v = w /\ r = s
    BY <1>1 DEF LInv, ListsOK
  <2>2. \A g : g \in Heads(head[w][s]) => g = <<w, s>>
    BY <2>1 DEF Heads
  <2>3. <<w, s>> \in Heads(head[w][s])
    BY DEF Heads
  <2>. QED  BY <2>1, <2>2, <2>3
<1>2. TimerAlive
  BY DEF LInv, WalkOK, TimerAlive
<1>. QED  BY <1>1, <1>2 DEF WheelsSound, LInv, ListsOK

LEMMA NoneLost == LInv /\ UsedHeld => NoEventLost /\ NoEntryLeaks
<1>. SUFFICES ASSUME LInv, UsedHeld  PROVE NoEventLost /\ NoEntryLeaks
  OBVIOUS
<1>1. ASSUME NEW t \in Events, ev[t].tid # 0  PROVE t \in AllListed \cup InHand
  BY <1>1 DEF UsedHeld, InHand
<1>2. ASSUME NEW t \in DOMAIN due  PROVE t \in AllListed \cup InHand
  <2>1. t \in Events
    BY DEF LInv, TypeOK
  <2>2. ev[t].tid # 0 \/ call[Timer].tid = t
    BY DEF LInv, DueOK
  <2>. QED  BY <1>1, <2>1, <2>2, ThreadsFacts DEF InHand
<1>. QED  BY <1>1, <1>2 DEF NoEventLost, NoEntryLeaks
-----------------------------------------------------------------------------
(* The process is stopped and started again. *)

LEMMA RestartLists ==
    ASSUME damaged \/ LInv, Restart
    PROVE  damaged' \/ LInv'
<1>. SUFFICES ASSUME ~ damaged'  PROVE LInv'
  OBVIOUS
<1>1. LInv /\ ~ HandingOver
  BY DEF Restart, NewProcess
<1>2. /\ UNCHANGED <<ev, head, ptr>>
      /\ flag' = FALSE /\ eventSerial' = 1
      /\ minuteCurrent' \in 0 .. MinutesPerHour - 1 /\ secondCurrent' \in 0 .. TicksPerMinute - 1
      /\ call' = [p \in Processes |-> NoCall] /\ saw' = [p \in Processes |-> FALSE]
      /\ tick' = [pc |-> "sleep", HeadKeyPointer |-> 0]
      /\ DOMAIN due' \subseteq DOMAIN due \cap AllListed
  BY DEF Restart, NewProcess, Restrict
<1>3. \A p \in Processes : call'[p] = NoCall
  BY <1>2
<1>4. TypeOK'
  <2>1. call' \in [Processes -> Calls] /\ \A p \in Processes : HasEntry(call'[p])
    BY <1>2, NoCallType DEF HasEntry
  <2>2. eventSerial' \in 0 .. EventSize - FixedEvents - 1
    BY <1>2, SizeFacts
  <2>3. tick'.pc \in TickPcs /\ tick'.HeadKeyPointer \in {0} \cup Events
    BY <1>2 DEF TickPcs
  <2>4. saw' \in [Processes -> BOOLEAN] /\ DOMAIN due' \subseteq Events
    BY <1>1, <1>2 DEF LInv, TypeOK
  <2>. QED  BY <1>1, <1>2, <2>1, <2>2, <2>3, <2>4 DEF LInv, TypeOK
<1>5. AllListed' = AllListed /\ ListsOK'
  BY <1>1, <1>2, <1>4, StillFacts DEF LInv
<1>6. UnlistedOK'
  <2>1. ASSUME NEW t \in Events, t \notin AllListed  PROVE Apart(t)
    <3>1. Apart(t) \/ Bypassed(t)
      BY <1>1, <2>1 DEF LInv, UnlistedOK, Handing, TimerCallOK
    <3>2. Bypassed(t) => ev[t].tid = t /\ t # 0 /\ ev[t].pre = 0 /\ ev[t].next = 0
      BY <1>1, <2>1, SizeFacts DEF Bypassed, HandingOver
    <3>. QED  BY <2>1, <3>1, <3>2 DEF Apart
  <2>. QED  BY <1>2, <1>5, <2>1 DEF UnlistedOK, Apart
<1>7. \A p \in Processes : CallOK(p)'
  BY <1>3, NoCallFacts DEF CallOK
<1>8. TimerCallOK' /\ CallbackOK' /\ WalkOK'
  <2>1. call'[Timer] = NoCall /\ \A c \in Clients : call'[c] = NoCall
    BY <1>3, ThreadsFacts
  <2>2. tick'.pc = "sleep"
    BY <1>2
  <2>. QED  BY <2>1, <2>2, NoCallFacts DEF TimerCallOK, CallbackOK, WalkOK, WheelOf, InCallback
<1>9. RepeatOK'
  BY <1>1, <1>2 DEF LInv, RepeatOK
<1>10. DueOK'
  <2>1. \A t \in AllListed : ev[t].tid # 0
    BY <1>1, HeadListed DEF LInv, ListsOK
  <2>. QED  BY <1>2, <2>1 DEF DueOK
<1>. QED  BY <1>4, <1>5, <1>6, <1>7, <1>8, <1>9, <1>10 DEF LInv

LEMMA RestartNextLists ==
    ASSUME QuietCalls, damaged \/ LInv, [RestartNext]_restartVars
    PROVE  damaged' \/ LInv'
<1>1. CASE Restart
  BY <1>1, RestartLists
<1>2. CASE QuietNext /\ UNCHANGED <<restarts, damaged>>
  BY <1>2, NextLists
<1>3. CASE UNCHANGED restartVars
  <2>1. UNCHANGED vars /\ damaged' = damaged
    BY <1>3 DEF restartVars
  <2>. QED  BY <2>1, StutterLists
<1>. QED  BY <1>1, <1>2, <1>3 DEF RestartNext
-----------------------------------------------------------------------------
LEMMA QuietLists ==
    ASSUME QuietCalls  PROVE QuietSpec => [](LInv /\ UsedHeld)
<1>1. LInv /\ UsedHeld /\ [QuietNext]_vars => (LInv /\ UsedHeld)'
  BY NextLists
<1>. QED  BY <1>1, InitLists, PTL DEF QuietSpec

(* Between ticks and from the functions of events, AddTimeOut, RemoveEvent  *)
(* and Tick keep the lists of all slots apart, linked both ways and free of *)
(* freed entries.                                                           *)
THEOREM WheelsStaySound == ASSUME QuietCalls  PROVE QuietSpec => []WheelsSound
BY QuietLists, SoundLists, PTL

(* The timer thread never meets a freed entry, so it does not end.          *)
THEOREM TimerStaysAlive == ASSUME QuietCalls  PROVE QuietSpec => []TimerAlive
BY QuietLists, SoundLists, PTL

(* Through all moves from wheel to wheel an awaited event is in a list or   *)
(* in the hand of a call.                                                   *)
THEOREM NoneIsLost == ASSUME QuietCalls  PROVE QuietSpec => []NoEventLost
BY QuietLists, NoneLost, PTL

(* An entry of the table that is in use is in a list or in the hand of a    *)
(* call: none is left behind.                                               *)
THEOREM NoneLeaks == ASSUME QuietCalls  PROVE QuietSpec => []NoEntryLeaks
BY QuietLists, NoneLost, PTL

(* The lists in shared memory are sound for each process that finds them,   *)
(* unless one ended while an event was between its list and its erasure.    *)
THEOREM ListsOutlive == ASSUME QuietCalls  PROVE RestartSpec => []ListsSurvive
<1>1. RestartInit => damaged \/ LInv
  BY InitLists DEF RestartInit
<1>2. (damaged \/ LInv) /\ [RestartNext]_restartVars => (damaged \/ LInv)'
  BY RestartNextLists
<1>3. damaged \/ LInv => ListsSurvive
  BY SoundLists DEF ListsSurvive
<1>. QED  BY <1>1, <1>2, <1>3, PTL DEF RestartSpec
================================================================================
