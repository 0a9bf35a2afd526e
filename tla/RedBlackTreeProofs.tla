-------------------------- MODULE RedBlackTreeProofs --------------------------
(***************************************************************************)
(* Proofs about RedBlackTree, for any capacity and keys.                    *)
(*                                                                          *)
(* Callers see what NodeArray says (UpdatesAreArrayUpdates,                 *)
(* ImplementsArray): rotations and repairs, wherever they write, write      *)
(* links and colours only (Kept), and the search and the way to the         *)
(* predecessor stop where the pairs say they should.                        *)
(*                                                                          *)
(* The tree stays sound (KeepsTreeSound) as long as no node is a red half   *)
(* node: the inductive invariant Good says that the links agree (Links) and *)
(* that the search of the key of every node visits that node, which is the  *)
(* order of a search tree without its recursion.  The steps between which   *)
(* it holds are the rotation (RotateGood), a new leaf (AttachGood), a node  *)
(* bypassed by its only child (SpliceVisits), the move of the last node     *)
(* (MovedGood) and colours (AlikeGood).  Loops are followed by induction on *)
(* their turns (Loop), searches end by the pigeonhole principle.            *)
(*                                                                          *)
(* Insertions keep the tree red-black (InsertionsRedBlack, KeepsRedBlack):  *)
(* a function gives every node one black height (Heights), and each turn of *)
(* CheckTree has at most one node that is red under a red one (Balanced).   *)
(***************************************************************************)
EXTENDS RedBlackTree, FiniteSetTheorems, TLAPS

(* The fields of a node.                                                   *)
Fields == {"left", "right", "parent", "index", "Key", "Value", "color"}

(* What every operation leaves of a tree whatever its links: the fields of *)
(* the tree and of every node.                                             *)
Shape(t) == /\ DOMAIN t = {"root", "size", "node"}
            /\ DOMAIN t.node = Slots
            /\ \A i \in Slots : DOMAIN t.node[i] = Fields

(* u has the pairs and the size of t: repairs write links and colours      *)
(* only.                                                                   *)
Kept(t, u) == /\ Shape(u)
              /\ u.size = t.size
              /\ \A i \in Slots : /\ u.node[i].Key = t.node[i].Key
                                  /\ u.node[i].Value = t.node[i].Value

(* Two repairs in a row keep the pairs.                                    *)
LEMMA KeptTrans ==
    ASSUME NEW t, NEW u, NEW w, Kept(t, u), Kept(u, w)
    PROVE  Kept(t, w)
BY DEF Kept

(* Writing a link, an index or a colour, in whatever slot, keeps the       *)
(* pairs.                                                                  *)
LEMMA PutKeeps ==
    ASSUME NEW t, NEW u, NEW i, NEW f \in Fields \ {"Key", "Value"}, NEW v, Kept(t, u)
    PROVE  Kept(t, Put(u, i, f, v))
<1>. DEFINE w == Put(u, i, f, v)
<1>1. w = [u EXCEPT !.node = [u.node EXCEPT ![i] = [u.node[i] EXCEPT ![f] = v]]]
  BY DEF Put
<1>2. /\ DOMAIN w = {"root", "size", "node"}
      /\ w.size = u.size
      /\ w.node = [u.node EXCEPT ![i] = [u.node[i] EXCEPT ![f] = v]]
  <2>. HIDE DEF w
  <2>. QED  BY <1>1 DEF Kept, Shape
<1>3. DOMAIN w.node = Slots
  BY <1>2 DEF Kept, Shape
<1>4. ASSUME NEW j \in Slots
      PROVE  /\ DOMAIN w.node[j] = Fields
             /\ w.node[j].Key = u.node[j].Key
             /\ w.node[j].Value = u.node[j].Value
  <2>1. CASE j = i
    <3>1. w.node[j] = [u.node[j] EXCEPT ![f] = v]
      BY <1>2, <2>1 DEF Kept, Shape
    <3>. HIDE DEF w
    <3>. QED  BY <3>1 DEF Kept, Shape, Fields
  <2>2. CASE j # i
    <3>1. w.node[j] = u.node[j]
      BY <1>2, <2>2 DEF Kept, Shape
    <3>. QED  BY <3>1 DEF Kept, Shape
  <2>. QED  BY <2>1, <2>2
<1>. HIDE DEF w
<1>5. Kept(u, w)
  BY <1>2, <1>3, <1>4 DEF Kept, Shape
<1>. QED  BY <1>5, KeptTrans DEF w

(* So does writing the root.                                               *)
LEMMA PutRootKeeps ==
    ASSUME NEW t, NEW u, NEW i, Kept(t, u)
    PROVE  Kept(t, PutRoot(u, i))
<1>. DEFINE w == PutRoot(u, i)
<1>1. DOMAIN w = {"root", "size", "node"} /\ w.size = u.size /\ w.node = u.node
  BY DEF PutRoot, Kept, Shape
<1>. HIDE DEF w
<1>2. Kept(u, w)
  BY <1>1 DEF Kept, Shape
<1>. QED  BY <1>2, KeptTrans DEF w

(* The two sides of a node.                                                *)
Sides == {"left", "right"}

(* Painting keeps the pairs.                                               *)
LEMMA PaintKeeps ==
    ASSUME NEW t, NEW u, NEW i, NEW c, Kept(t, u)
    PROVE  Kept(t, Paint(u, i, c))
BY PutKeeps DEF Paint, Fields

(* The four or five writes of a rotation keep the pairs.                   *)
LEMMA TurnedKeeps ==
    ASSUME NEW t, NEW u, NEW x, NEW side \in Sides, Kept(t, u)
    PROVE  Kept(t, Turned(u, x, side))
<1>. DEFINE p  == u.node[x].parent
            g  == u.node[p].parent
            u0 == IF g = Nil THEN PutRoot(u, x)
                  ELSE Put(u, g, IF u.node[g].right = p THEN "right" ELSE "left", x)
            u1 == Put(u0, x, "parent", g)
            u2 == Put(u1, x, Other(side), p)
            u3 == Put(u2, p, "parent", x)
            u4 == Put(u3, p, side, Crossing(u, x, side))
<1>1. Turned(u, x, side) = u4
  BY DEF Turned
<1>2. {"parent", "left", "right", side, Other(side)} \subseteq Fields \ {"Key", "Value"}
  BY DEF Fields, Sides, Other
<1>3. Kept(t, u0)
  <2>1. CASE g = Nil
    BY <2>1, PutRootKeeps
  <2>2. CASE g # Nil
    <3>1. PICK s \in {"left", "right"} :
             s = IF u.node[g].right = p THEN "right" ELSE "left"
      OBVIOUS
    <3>2. Kept(t, Put(u, g, s, x))
      BY <1>2, <3>1, PutKeeps
    <3>. QED  BY <2>2, <3>1, <3>2
  <2>. QED  BY <2>1, <2>2
<1>. HIDE DEF u0
<1>4. Kept(t, u1)
  BY <1>2, <1>3, PutKeeps
<1>. HIDE DEF u1
<1>5. Kept(t, u2)
  BY <1>2, <1>4, PutKeeps
<1>. HIDE DEF u2
<1>6. Kept(t, u3)
  BY <1>2, <1>5, PutKeeps
<1>. HIDE DEF u3
<1>7. Kept(t, u4)
  BY <1>2, <1>6, PutKeeps
<1>. QED  BY <1>1, <1>7

(* So does the rotation, with its early return.                            *)
LEMMA RotateKeeps ==
    ASSUME NEW t, NEW u, NEW x, NEW side \in Sides, Kept(t, u)
    PROVE  Kept(t, Rotate(u, x, side))
<1>1. Kept(t, Turned(u, x, side))
  BY TurnedKeeps
<1>. QED  BY <1>1, PutKeeps DEF Rotate, Fields

(* And the rotation that looks for the side itself.                        *)
LEMMA RotateUpKeeps ==
    ASSUME NEW t, NEW u, NEW x, Kept(t, u)
    PROVE  Kept(t, RotateUp(u, x))
BY RotateKeeps DEF RotateUp, Sides

(* The operators that choose a side choose one of the two.                 *)
LEMMA SideTypes == /\ \A t, x : SideOf(t, x) \in Sides
                   /\ \A side \in Sides : Other(side) \in Sides
BY DEF SideOf, Other, Sides

(* Restructuring, in both its forms, keeps the pairs.                      *)
LEMMA RestructuringKeeps ==
    ASSUME NEW t, NEW u, NEW x, Kept(t, u)
    PROVE  Kept(t, Restructuring(u, x))
<1>. DEFINE p == u.node[x].parent
            g == u.node[p].parent
            side == SideOf(u, x)
            one == Rotate(u, p, side)
            two == Rotate(Rotate(u, x, side), x, Other(side))
<1>1. Kept(t, one) /\ Kept(t, two)
  BY RotateKeeps, SideTypes
<1>. HIDE DEF one, two
<1>2. \A w, c : Kept(t, w) => Kept(t, Paint(Paint(w, c, "BLACK"), g, "RED"))
  BY PaintKeeps
<1>. QED  BY <1>1, <1>2 DEF Restructuring, one, two

(* One call of CheckTree keeps the pairs.                                  *)
LEMMA CheckTurnKeeps ==
    ASSUME NEW t, NEW s, Kept(t, s.tree)
    PROVE  Kept(t, CheckTurn(Nil, s).tree)
<1>. DEFINE u == s.tree
<1>1. \A x : Kept(t, Restructuring(u, x))
  BY RestructuringKeeps
<1>2. \A a, b, c, d : Kept(t, Paint(Paint(Paint(u, a, "BLACK"), b, "BLACK"), c, d))
  BY PaintKeeps
<1>. QED  BY <1>1, <1>2 DEF CheckTurn

(* So does the mark of a call that does not return.                        *)
LEMMA HungKeeps ==
    ASSUME NEW t, NEW u, Kept(t, u)
    PROVE  Kept(t, Hung(u).tree)
BY PutRootKeeps DEF Hung

(* CheckTree keeps the pairs, after any number of calls of itself.         *)
LEMMA CheckTreeKeeps ==
    ASSUME NEW t, NEW u, NEW x, Kept(t, u)
    PROVE  Kept(t, CheckTree(u, x))
<1>. DEFINE start == [tree |-> u, at |-> x]
            R == CheckLoop!Run(Nil, start)
            T == {n \in Nat : Kept(t, R[n].tree)}
<1>1. 0 \in T
  BY CheckLoop!RunSteps
<1>2. ASSUME NEW n \in Nat, n \in T  PROVE n + 1 \in T
  <2>1. R[n + 1] = CheckTurn(Nil, R[n])
    BY CheckLoop!RunSteps
  <2>. HIDE DEF R
  <2>2. Kept(t, R[n].tree)
    BY <1>2
  <2>3. Kept(t, CheckTurn(Nil, R[n]).tree)
    BY <2>2, CheckTurnKeeps
  <2>. QED  BY <2>1, <2>3
<1>3. MaxTurns \in T
  <2>1. MaxTurns \in Nat
    BY TreeAssumption DEF MaxTurns
  <2>. HIDE DEF T
  <2>. QED  BY <1>1, <1>2, <2>1, CheckLoop!SetInduction
<1>4. CheckLoop!Result(Nil, start, MaxTurns, Hung(u)) \in {R[MaxTurns], Hung(u)}
  BY CheckLoop!ResultIs
<1>. QED  BY <1>3, <1>4, HungKeeps DEF CheckTree

(* One call of RemoveDoubleBlack keeps the pairs, in each of its cases.    *)
LEMMA DoubleBlackTurnKeeps ==
    ASSUME NEW t, NEW s, Kept(t, s.tree)
    PROVE  Kept(t, DoubleBlackTurn(Nil, s).tree)
<1>. DEFINE u == s.tree
            side == IF u.node[s.at].left = s.short THEN "left" ELSE "right"
            far == Other(side)
<1>1. side \in Sides /\ far \in Sides
  BY DEF Other, Sides
<1>. HIDE DEF side, far
<1>2. \A a, b, c, d, e, v : Kept(t, Paint(Paint(Paint(Rotate(u, a, far), b, v), c, d), e, "BLACK"))
  BY <1>1, RotateKeeps, PaintKeeps
<1>3. \A a, b, c, d, v : Kept(t, Paint(Paint(RotateUp(u, a), b, v), c, d))
  BY RotateUpKeeps, PaintKeeps
<1>4. \A a, b, c, d : Kept(t, Paint(Paint(u, a, b), c, d)) /\ Kept(t, Paint(u, a, b))
  BY PaintKeeps
<1>5. \A a, b, c, d : Kept(t, Rotate(Rotate(Paint(Paint(u, a, b), c, d), a, side), a, far))
  BY <1>1, <1>4, RotateKeeps
<1>. QED  BY <1>2, <1>3, <1>4, <1>5 DEF DoubleBlackTurn, side, far

(* RemoveDoubleBlack keeps the pairs, after any number of calls of itself. *)
LEMMA RemoveDoubleBlackKeeps ==
    ASSUME NEW t, NEW u, NEW d, NEW p, Kept(t, u)
    PROVE  Kept(t, RemoveDoubleBlack(u, d, p))
<1>. DEFINE start == [tree |-> u, short |-> d, at |-> p]
            R == DoubleBlackLoop!Run(Nil, start)
            T == {n \in Nat : Kept(t, R[n].tree)}
<1>1. 0 \in T
  BY DoubleBlackLoop!RunSteps
<1>2. ASSUME NEW n \in Nat, n \in T  PROVE n + 1 \in T
  <2>1. R[n + 1] = DoubleBlackTurn(Nil, R[n])
    BY DoubleBlackLoop!RunSteps
  <2>. HIDE DEF R
  <2>2. Kept(t, R[n].tree)
    BY <1>2
  <2>3. Kept(t, DoubleBlackTurn(Nil, R[n]).tree)
    BY <2>2, DoubleBlackTurnKeeps
  <2>. QED  BY <2>1, <2>3
<1>3. 2 * MaxTurns \in T
  <2>1. 2 * MaxTurns \in Nat
    BY TreeAssumption DEF MaxTurns
  <2>. HIDE DEF T
  <2>. QED  BY <1>1, <1>2, <2>1, CheckLoop!SetInduction
<1>4. DoubleBlackLoop!Result(Nil, start, 2 * MaxTurns, Hung(u)) \in {R[2 * MaxTurns], Hung(u)}
  BY DoubleBlackLoop!ResultIs
<1>. QED  BY <1>3, <1>4, HungKeeps DEF RemoveDoubleBlack

(* Linking a new node and repairing the tree above it keeps the pairs.     *)
LEMMA AttachKeeps ==
    ASSUME NEW t, NEW u, NEW x, NEW start, Kept(t, u)
    PROVE  Kept(t, Attach(u, x, start))
<1>1. ASSUME NEW i  PROVE Kept(t, LinkedBelow(u, x, i))
  <2>1. Kept(t, Put(Put(u, i, SideFor(u, x, i), x), x, "parent", i))
    BY PutKeeps DEF SideFor, Fields
  <2>. QED  BY <2>1, CheckTreeKeeps, PutRootKeeps DEF LinkedBelow
<1>. QED  BY <1>1 DEF Attach

(* Unlinking a node without a left child keeps the pairs.                  *)
LEMMA UnlinkedWithoutLeftKeeps ==
    ASSUME NEW t, NEW u, NEW i, Kept(t, u)
    PROVE  Kept(t, UnlinkedWithoutLeft(u, i))
<1>1. \A a, b : Kept(t, Bypass(u, a, b))
  BY PutKeeps DEF Bypass, Fields
<1>2. \A w, a, b : Kept(t, w) => Kept(t, Adopt(w, a, b)) /\ Kept(t, PutRoot(w, a))
  BY PutKeeps, PaintKeeps, PutRootKeeps DEF Adopt, Fields
<1>3. \A a, b, c, d : Kept(t, RemoveDoubleBlack(Bypass(u, a, b), c, d))
  BY <1>1, RemoveDoubleBlackKeeps
<1>. QED  BY <1>1, <1>2, <1>3 DEF UnlinkedWithoutLeft

(* Unlinking the predecessor keeps the pairs, once its own has been        *)
(* copied.                                                                 *)
LEMMA UnlinkedPredecessorKeeps ==
    ASSUME NEW t, NEW i, NEW x, Shape(CopyPair(t, i, x))
    PROVE  Kept(CopyPair(t, i, x), UnlinkedPredecessor(t, i, x))
<1>. DEFINE u == CopyPair(t, i, x)
<1>. HIDE DEF u
<1>1. Kept(u, u)
  BY DEF Kept, u
<1>2. \A a, b : Kept(u, Bypass(u, a, b))
  BY <1>1, PutKeeps DEF Bypass, Fields
<1>3. \A w, a, b : Kept(u, w) => Kept(u, Adopt(w, a, b))
  BY PutKeeps, PaintKeeps DEF Adopt, Fields
<1>4. \A a, b, c, d : Kept(u, RemoveDoubleBlack(Bypass(u, a, b), c, d))
  BY <1>2, RemoveDoubleBlackKeeps
<1>. QED  BY <1>2, <1>3, <1>4 DEF UnlinkedPredecessor, u
-----------------------------------------------------------------------------
(* The slots a search for k passes, one a turn.                            *)
Search(t, k) == SearchLoop!Run([tree |-> t, key |-> k], t.root)

(* The bound on the turns is a number.                                     *)
LEMMA MaxTurnsType == MaxTurns \in Nat /\ MaxSize \in Nat /\ MaxSize > 0
BY TreeAssumption DEF MaxTurns

(* A search begins at the root, goes to a child or stays where it has      *)
(* ended, and find answers where it is after MaxTurns turns if it has      *)
(* ended there.                                                            *)
LEMMA SearchSteps ==
    ASSUME NEW t, NEW k
    PROVE  /\ Search(t, k)[0] = t.root
           /\ \A n \in Nat : Search(t, k)[n + 1] =
                 IF SearchEnds(t, k, Search(t, k)[n]) THEN Search(t, k)[n]
                 ELSE IF LooksBroken(t, Search(t, k)[n]) THEN Broken
                 ELSE Child(t, k, Search(t, k)[n])
           /\ Find(t, k) = IF SearchEnds(t, k, Search(t, k)[MaxTurns])
                           THEN Search(t, k)[MaxTurns] ELSE Endless
<1>. DEFINE q == [tree |-> t, key |-> k]
<1>1. q.tree = t /\ q.key = k
  OBVIOUS
<1>. HIDE DEF q
<1>2. /\ SearchLoop!Run(q, t.root)[0] = t.root
      /\ \A n \in Nat :
            SearchLoop!Run(q, t.root)[n + 1] = SearchTurn(q, SearchLoop!Run(q, t.root)[n])
  BY SearchLoop!RunSteps
<1>3. Search(t, k) = SearchLoop!Run(q, t.root)
  BY DEF Search, q
<1>4. Find(t, k) = IF SearchOver(q, Search(t, k)[MaxTurns])
                   THEN Search(t, k)[MaxTurns] ELSE Endless
  BY <1>3, SearchLoop!ResultIs DEF Find, q
<1>. QED  BY <1>1, <1>2, <1>3, <1>4 DEF SearchTurn, SearchOver

(* A search that has ended stays where it is.                              *)
LEMMA SearchRests ==
    ASSUME NEW t, NEW k, NEW m \in Nat, SearchEnds(t, k, Search(t, k)[m])
    PROVE  \A n \in Nat : n >= m => Search(t, k)[n] = Search(t, k)[m]
<1>. DEFINE q == [tree |-> t, key |-> k]
<1>1. q.tree = t /\ q.key = k
  OBVIOUS
<1>. HIDE DEF q
<1>2. Search(t, k) = SearchLoop!Run(q, t.root)
  BY DEF Search, q
<1>3. SearchTurn(q, SearchLoop!Run(q, t.root)[m]) = SearchLoop!Run(q, t.root)[m]
  BY <1>1, <1>2 DEF SearchTurn
<1>. QED  BY <1>2, <1>3, SearchLoop!RunRests
-----------------------------------------------------------------------------
(* The key, the parent and the children of a node.                         *)
KeyOf(t, i) == t.node[i].Key
Up(t, i) == t.node[i].parent
Down(t, i, side) == t.node[i][side]

(* The side on which a search for k leaves node i.                         *)
Toward(t, k, i) == IF k < KeyOf(t, i) THEN "left" ELSE "right"

(* TypeOK of any tree.                                                     *)
Typed(t) == t \in [root : Slots \cup {Nil}, size : 0 .. MaxSize, node : [Slots -> Nodes]]

(* The slots L hold a linked tree: LinksAgree of any tree and any set of   *)
(* slots, which need not be the first ones while a node is being removed.  *)
Links(t, L) ==
    /\ L \subseteq Slots
    /\ t.root \in L \cup {Nil}
    /\ \A i \in L :
          /\ KeyOf(t, i) \in Nat
          /\ t.node[i].index = i
          /\ Up(t, i) \in L \cup {Nil}
          /\ Up(t, i) = Nil <=> i = t.root
          /\ \A side \in Sides :
                /\ Down(t, i, side) \in (L \cup {Nil}) \ {i}
                /\ Down(t, i, side) # Nil => Up(t, Down(t, i, side)) = i
                /\ Down(t, i, side) = Down(t, i, Other(side)) => Down(t, i, side) = Nil

(* The search for k passes slot y.                                         *)
Visits(t, k, y) == \E j \in Nat : Search(t, k)[j] = y

(* The inductive invariant. The slots L hold a linked tree, and every node *)
(* of L is met by the search for its own key. Neither order nor balance is *)
(* part of it: both follow as far as they are needed, and no colour        *)
(* matters.                                                                *)
Good(t, L) == /\ Typed(t)
              /\ Links(t, L)
              /\ \A l \in L : Visits(t, KeyOf(t, l), l)

(* Slots are numbers, and none of the marks is a slot.                     *)
LEMMA SlotFacts ==
    /\ \A L : L \subseteq Slots => \A i \in L : i \in Nat /\ i \notin {Nil, Broken, Endless}
    /\ Nil \notin {Broken, Endless}
BY TreeAssumption DEF Slots, Nil, Broken, Endless

(* A search leaves a node on one of its sides, and Other is the other one. *)
LEMMA TowardFacts ==
    /\ \A t, k, i : Toward(t, k, i) \in Sides
    /\ \A t, k, i : Child(t, k, i) = Down(t, i, Toward(t, k, i))
    /\ \A side \in Sides : Other(side) \in Sides /\ Other(side) # side /\ Other(Other(side)) = side
BY DEF Toward, Child, Down, KeyOf, Sides, Other

(* What Links says of one node, in the terms of the search: no linked node *)
(* looks broken, so that a search ends exactly at its key.                 *)
LEMMA LinkFacts ==
    ASSUME NEW t, NEW L, Links(t, L), NEW i \in L
    PROVE  /\ i \in Nat
           /\ i \notin {Nil, Broken, Endless}
           /\ ~ LooksBroken(t, i)
           /\ KeyOf(t, i) \in Nat
           /\ Up(t, i) \in L \cup {Nil}
           /\ Up(t, i) = Nil <=> i = t.root
           /\ \A side \in Sides :
                 /\ Down(t, i, side) \in L \cup {Nil}
                 /\ Down(t, i, side) # i
                 /\ Down(t, i, side) # Nil => /\ Up(t, Down(t, i, side)) = i
                                              /\ Down(t, i, side) # Down(t, i, Other(side))
           /\ \A k : SearchEnds(t, k, i) <=> KeyOf(t, i) = k
<1>1. i \in Nat /\ i \notin {Nil, Broken, Endless}
  BY SlotFacts DEF Links
<1>2. ~ LooksBroken(t, i)
  <2>1. Down(t, i, "left") # i /\ Down(t, i, "right") # i /\ t.node[i].index = i
    BY DEF Links, Sides
  <2>. QED  BY <2>1 DEF LooksBroken, Down
<1>3. \A k : SearchEnds(t, k, i) <=> KeyOf(t, i) = k
  BY <1>1, <1>2 DEF SearchEnds, KeyOf
<1>. QED  BY <1>1, <1>2, <1>3 DEF Links

(* A search never leaves the linked nodes but to end at Nil.               *)
LEMMA PathLive ==
    ASSUME NEW t, NEW L, Links(t, L), NEW k
    PROVE  \A n \in Nat : Search(t, k)[n] \in L \cup {Nil}
<1>. DEFINE P == Search(t, k)
            T == {n \in Nat : P[n] \in L \cup {Nil}}
<1>1. 0 \in T
  BY SearchSteps DEF Links
<1>2. ASSUME NEW n \in Nat, n \in T  PROVE n + 1 \in T
  <2>1. P[n + 1] = IF SearchEnds(t, k, P[n]) THEN P[n]
                   ELSE IF LooksBroken(t, P[n]) THEN Broken ELSE Child(t, k, P[n])
    BY SearchSteps
  <2>. HIDE DEF P
  <2>2. CASE P[n] = Nil
    BY <1>2, <2>1, <2>2 DEF SearchEnds
  <2>3. CASE P[n] \in L
    BY <2>1, <2>3, LinkFacts, TowardFacts
  <2>. QED  BY <1>2, <2>2, <2>3
<1>. HIDE DEF T
<1>3. Nat \subseteq T
  BY <1>1, <1>2, SearchLoop!SetInduction
<1>. QED  BY <1>3 DEF T

(* Each turn of a search ends it or goes from a linked node with another   *)
(* key to a different slot, its child.                                     *)
LEMMA PathStep ==
    ASSUME NEW t, NEW L, Links(t, L), NEW k, NEW n \in Nat
    PROVE  \/ /\ SearchEnds(t, k, Search(t, k)[n])
              /\ Search(t, k)[n + 1] = Search(t, k)[n]
           \/ /\ Search(t, k)[n] \in L
              /\ KeyOf(t, Search(t, k)[n]) # k
              /\ Search(t, k)[n + 1] = Child(t, k, Search(t, k)[n])
              /\ Search(t, k)[n + 1] # Search(t, k)[n]
<1>. DEFINE P == Search(t, k)
<1>1. P[n + 1] = IF SearchEnds(t, k, P[n]) THEN P[n]
                 ELSE IF LooksBroken(t, P[n]) THEN Broken ELSE Child(t, k, P[n])
  BY SearchSteps
<1>2. P[n] \in L \cup {Nil}
  BY PathLive
<1>. HIDE DEF P
<1>3. CASE P[n] = Nil
  BY <1>1, <1>3 DEF SearchEnds, P
<1>4. CASE P[n] \in L
  <2>1. ~ LooksBroken(t, P[n]) /\ (SearchEnds(t, k, P[n]) <=> KeyOf(t, P[n]) = k)
    BY <1>4, LinkFacts
  <2>2. Child(t, k, P[n]) # P[n]
    BY <1>4, LinkFacts, TowardFacts
  <2>. QED  BY <1>1, <1>4, <2>1, <2>2 DEF P
<1>. QED  BY <1>2, <1>3, <1>4

(* A search that passes a node with another key passes its child.          *)
LEMMA VisitStep ==
    ASSUME NEW t, NEW L, Links(t, L), NEW k, NEW y \in L, Visits(t, k, y), KeyOf(t, y) # k
    PROVE  Visits(t, k, Child(t, k, y))
<1>1. PICK j \in Nat : Search(t, k)[j] = y
  BY DEF Visits
<1>2. ~ SearchEnds(t, k, y)
  BY LinkFacts
<1>3. Search(t, k)[j + 1] = Child(t, k, y)
  BY <1>1, <1>2, PathStep
<1>. QED  BY <1>3 DEF Visits

(* Every search passes the root.                                           *)
LEMMA VisitRoot ==
    ASSUME NEW t, NEW k
    PROVE  Visits(t, k, t.root)
BY SearchSteps DEF Visits

(* Induction along a search: a set that holds the root and the next slot   *)
(* of each of its slots holds all slots the search passes.                 *)
LEMMA VisitsWithin ==
    ASSUME NEW t, NEW L, Links(t, L), NEW k, NEW S,
           t.root \in L => t.root \in S,
           \A y \in S : Visits(t, k, y) /\ y \in L /\ KeyOf(t, y) # k
                           => (Child(t, k, y) \in L => Child(t, k, y) \in S)
    PROVE  \A y \in L : Visits(t, k, y) => y \in S
<1>. DEFINE P == Search(t, k)
            T == {n \in Nat : P[n] \in L => P[n] \in S}
<1>1. 0 \in T
  BY SearchSteps
<1>2. ASSUME NEW n \in Nat, n \in T  PROVE n + 1 \in T
  <2>1. Visits(t, k, P[n])
    BY DEF Visits
  <2>2. \/ P[n + 1] = P[n]
        \/ P[n] \in L /\ KeyOf(t, P[n]) # k /\ P[n + 1] = Child(t, k, P[n])
    BY PathStep
  <2>. HIDE DEF P
  <2>. QED  BY <1>2, <2>1, <2>2
<1>3. Nat \subseteq T
  <2>. HIDE DEF T
  <2>. QED  BY <1>1, <1>2, SearchLoop!SetInduction
<1>. QED  BY <1>3 DEF Visits

(* A search that comes to a node other than the root has been at its       *)
(* parent before.                                                          *)
LEMMA Came ==
    ASSUME NEW t, NEW L, Links(t, L), NEW k, NEW n \in Nat, NEW z \in L, z # t.root,
           Search(t, k)[n] = z
    PROVE  /\ Up(t, z) \in L
           /\ KeyOf(t, Up(t, z)) # k
           /\ Child(t, k, Up(t, z)) = z
           /\ \E m \in Nat : m < n /\ Search(t, k)[m] = Up(t, z)
<1>. DEFINE P == Search(t, k)
            J == {j \in Nat : j <= n /\ P[j] = z}
<1>1. PICK j \in J : \A m \in J : j <= m
  <2>1. n \in J /\ J \subseteq Nat
    OBVIOUS
  <2>. HIDE DEF J
  <2>. QED  BY <2>1, SearchLoop!LeastNumber
<1>2. j # 0
  BY SearchSteps
<1>. DEFINE m == j - 1
            y == P[m]
<1>3. m \in Nat /\ j = m + 1 /\ m < n
  BY <1>2
<1>4. y # z
  BY <1>1, <1>3
<1>5. P[m + 1] = z /\ P[m] = y
  BY <1>3
<1>. HIDE DEF m, J
<1>6. y \in L /\ KeyOf(t, y) # k /\ z = Child(t, k, y)
  BY <1>3, <1>4, <1>5, PathStep
<1>. HIDE DEF y
<1>7. Up(t, z) = y
  <2>1. z # Nil
    BY LinkFacts
  <2>. QED  BY <1>6, <2>1, LinkFacts, TowardFacts
<1>. QED  BY <1>3, <1>5, <1>6, <1>7

(* So it passes the parent, where it turned to this child.                 *)
LEMMA VisitCame ==
    ASSUME NEW t, NEW L, Links(t, L), NEW k, NEW z \in L, z # t.root, Visits(t, k, z)
    PROVE  /\ Up(t, z) \in L
           /\ KeyOf(t, Up(t, z)) # k
           /\ Child(t, k, Up(t, z)) = z
           /\ Visits(t, k, Up(t, z))
BY Came DEF Visits

(* Before it ends, a search meets no slot twice: going back from equal     *)
(* slots to their parents, one of the two would come to the root too       *)
(* early.                                                                  *)
LEMMA SearchNotTwice ==
    ASSUME NEW t, NEW L, Links(t, L), NEW k, NEW d \in Nat,
           \A n \in Nat : n < d => ~ SearchEnds(t, k, Search(t, k)[n])
    PROVE  \A a, b \in Nat : a < b /\ b < d => Search(t, k)[a] # Search(t, k)[b]
<1>. DEFINE P == Search(t, k)
            T == {a \in Nat : \A b \in Nat : a < b /\ b < d => P[a] # P[b]}
<1>1. \A n \in Nat : n < d => P[n] \in L /\ P[n + 1] = Child(t, k, P[n])
  BY PathStep
<1>2. ASSUME NEW n \in Nat, n + 1 < d
      PROVE  P[n] \in L /\ P[n + 1] \in L /\ Up(t, P[n + 1]) = P[n]
  <2>0. n < d /\ n + 1 \in Nat
    BY <1>2
  <2>1. P[n] \in L /\ P[n + 1] \in L /\ P[n + 1] = Child(t, k, P[n])
    <3>. HIDE DEF P
    <3>. QED  BY <1>1, <1>2, <2>0
  <2>. HIDE DEF P
  <2>2. PICK side \in Sides : P[n + 1] = Down(t, P[n], side)
    BY <2>1, TowardFacts
  <2>3. P[n + 1] # Nil
    BY <2>1, LinkFacts
  <2>4. Up(t, Down(t, P[n], side)) = P[n]
    <3>1. P[n] \in L /\ Down(t, P[n], side) # Nil
      BY <2>1, <2>2, <2>3
    <3>. QED  BY <3>1, LinkFacts
  <2>. QED  BY <2>1, <2>2, <2>4
<1>3. P[0] = t.root
  BY SearchSteps
<1>. HIDE DEF P
<1>4. 0 \in T
  <2>. SUFFICES ASSUME NEW b \in Nat, 0 < b, b < d, P[0] = P[b]  PROVE FALSE
    OBVIOUS
  <2>. DEFINE n == b - 1
  <2>1. n \in Nat /\ n + 1 = b
    OBVIOUS
  <2>. HIDE DEF n
  <2>2. P[n] \in L /\ P[b] \in L /\ Up(t, P[b]) = P[n]
    BY <1>2, <2>1
  <2>3. P[b] = t.root
    BY <1>3
  <2>4. Up(t, P[b]) = Nil
    BY <2>2, <2>3, LinkFacts
  <2>5. P[n] # Nil
    BY <2>2, LinkFacts
  <2>. QED  BY <2>2, <2>4, <2>5
<1>5. ASSUME NEW a \in Nat, a \in T  PROVE a + 1 \in T
  <2>. SUFFICES ASSUME NEW b \in Nat, a + 1 < b, b < d, P[a + 1] = P[b]  PROVE FALSE
    OBVIOUS
  <2>. DEFINE n == b - 1
  <2>1. n \in Nat /\ n + 1 = b /\ a < n /\ n < d /\ a + 1 < d
    OBVIOUS
  <2>. HIDE DEF n
  <2>2. Up(t, P[b]) = P[n] /\ Up(t, P[a + 1]) = P[a]
    BY <1>2, <2>1
  <2>. QED  BY <1>5, <2>1, <2>2
<1>6. Nat \subseteq T
  <2>. HIDE DEF T
  <2>. QED  BY <1>4, <1>5, SearchLoop!SetInduction
<1>. QED  BY <1>6 DEF P

(* Therefore a search ends within MaxSize turns: the guard against endless *)
(* loops (line 372) never has anything to stop.                            *)
LEMMA SearchFinishes ==
    ASSUME NEW t, NEW L, Links(t, L), NEW k
    PROVE  \E n \in 0 .. MaxSize : SearchEnds(t, k, Search(t, k)[n])
<1>. DEFINE P == Search(t, k)
            f == [n \in 0 .. MaxSize |-> P[n]]
<1>. SUFFICES ASSUME \A n \in 0 .. MaxSize : ~ SearchEnds(t, k, P[n])  PROVE FALSE
  OBVIOUS
<1>1. MaxSize \in Nat /\ MaxSize + 1 \in Nat
  BY MaxTurnsType
<1>2. \A n \in Nat : n < MaxSize + 1 => ~ SearchEnds(t, k, P[n])
  BY <1>1
<1>3. \A a, b \in Nat : a < b /\ b < MaxSize + 1 => P[a] # P[b]
  BY <1>1, <1>2, SearchNotTwice
<1>4. \A n \in 0 .. MaxSize : P[n] \in L
  BY <1>1, PathStep
<1>. HIDE DEF P
<1>5. f \in [0 .. MaxSize -> Slots]
  BY <1>4 DEF Links
<1>6. /\ IsFiniteSet(0 .. MaxSize) /\ Cardinality(0 .. MaxSize) = MaxSize + 1
      /\ IsFiniteSet(Slots) /\ Cardinality(Slots) = MaxSize
  BY <1>1, FS_Interval, MaxTurnsType DEF Slots
<1>7. \E a, b \in 0 .. MaxSize : a # b /\ f[a] = f[b]
  <2>. DEFINE S == 0 .. MaxSize
  <2>1. IsFiniteSet(S) /\ IsFiniteSet(Slots) /\ Cardinality(Slots) < Cardinality(S)
    BY <1>1, <1>6
  <2>2. f \in [S -> Slots]
    BY <1>5
  <2>. HIDE DEF S, f
  <2>3. \E a, b \in S : a # b /\ f[a] = f[b]
    BY <2>1, <2>2, FS_PigeonHole
  <2>. QED  BY <2>3 DEF S
<1>8. PICK a \in 0 .. MaxSize, b \in 0 .. MaxSize : a # b /\ P[a] = P[b]
  BY <1>7
<1>. QED  BY <1>1, <1>3, <1>8

(* find answers a linked slot with the key or Nil, and answers any slot at *)
(* which the search ends.                                                  *)
LEMMA FindIs ==
    ASSUME NEW t, NEW L, Links(t, L), NEW k
    PROVE  /\ Find(t, k) \in L \cup {Nil}
           /\ Find(t, k) = Search(t, k)[MaxTurns]
           /\ Find(t, k) \in L => KeyOf(t, Find(t, k)) = k
           /\ \A y : Visits(t, k, y) /\ SearchEnds(t, k, y) => Find(t, k) = y
<1>. DEFINE P == Search(t, k)
<1>1. PICK n \in 0 .. MaxSize : SearchEnds(t, k, P[n])
  BY SearchFinishes
<1>2. n \in Nat /\ MaxTurns >= n /\ MaxTurns \in Nat
  BY MaxTurnsType DEF MaxTurns
<1>3. P[MaxTurns] = P[n]
  BY <1>1, <1>2, SearchRests
<1>4. Find(t, k) = P[MaxTurns] /\ SearchEnds(t, k, P[MaxTurns])
  BY <1>1, <1>3, SearchSteps
<1>5. P[MaxTurns] \in L \cup {Nil}
  BY <1>2, PathLive
<1>6. ASSUME NEW y, Visits(t, k, y), SearchEnds(t, k, y)  PROVE Find(t, k) = y
  <2>1. PICK j \in Nat : P[j] = y
    BY <1>6 DEF Visits
  <2>2. CASE MaxTurns >= j
    BY <1>2, <1>4, <1>6, <2>1, <2>2, SearchRests
  <2>3. CASE j >= MaxTurns
    BY <1>2, <1>4, <2>1, <2>3, SearchRests
  <2>. HIDE DEF P
  <2>. QED  BY <1>2, <2>2, <2>3
<1>. HIDE DEF P
<1>7. Find(t, k) \in L => KeyOf(t, Find(t, k)) = k
  BY <1>4, LinkFacts
<1>. QED  BY <1>4, <1>5, <1>6, <1>7 DEF P

(* In a good tree the search for the key of a node ends at this node, and  *)
(* no two nodes share a key.                                               *)
LEMMA GoodFinds ==
    ASSUME NEW t, NEW L, Good(t, L), NEW i \in L
    PROVE  /\ Find(t, KeyOf(t, i)) = i
           /\ Search(t, KeyOf(t, i))[MaxTurns] = i
           /\ \A l \in L : KeyOf(t, l) = KeyOf(t, i) => l = i
<1>1. Links(t, L)
  BY DEF Good
<1>2. \A l \in L : Visits(t, KeyOf(t, l), l) /\ SearchEnds(t, KeyOf(t, l), l)
  BY <1>1, LinkFacts DEF Good
<1>3. \A l \in L : Find(t, KeyOf(t, l)) = l
  BY <1>1, <1>2, FindIs
<1>. QED  BY <1>1, <1>3, FindIs
-----------------------------------------------------------------------------
(* The slots the way to the predecessor passes: to the left child and then *)
(* right, one a turn (lines 320-324).                                      *)
Chain(t, i) == RightLoop!Run(t, Down(t, i, "left"))

(* The first slot, the next ones, and what Rightmost answers.              *)
LEMMA ChainSteps ==
    ASSUME NEW t, NEW i
    PROVE  /\ Chain(t, i)[0] = Down(t, i, "left")
           /\ \A n \in Nat : Chain(t, i)[n + 1] =
                 IF Down(t, Chain(t, i)[n], "right") = Nil THEN Chain(t, i)[n]
                 ELSE Down(t, Chain(t, i)[n], "right")
           /\ Rightmost(t, Down(t, i, "left")) =
                 IF Down(t, Chain(t, i)[MaxTurns], "right") = Nil
                 THEN Chain(t, i)[MaxTurns] ELSE Endless
<1>1. /\ Chain(t, i)[0] = Down(t, i, "left")
      /\ \A n \in Nat : Chain(t, i)[n + 1] = RightTurn(t, Chain(t, i)[n])
  BY RightLoop!RunSteps DEF Chain
<1>2. Rightmost(t, Down(t, i, "left")) =
         IF RightEnds(t, Chain(t, i)[MaxTurns]) THEN Chain(t, i)[MaxTurns] ELSE Endless
  BY RightLoop!ResultIs DEF Rightmost, Chain
<1>. QED  BY <1>1, <1>2 DEF RightTurn, RightEnds, Down

(* The way stays within the linked nodes.                                  *)
LEMMA ChainLive ==
    ASSUME NEW t, NEW L, Links(t, L), NEW i \in L, Down(t, i, "left") # Nil
    PROVE  \A n \in Nat : Chain(t, i)[n] \in L
<1>. DEFINE T == {n \in Nat : Chain(t, i)[n] \in L}
<1>0. "left" \in Sides /\ "right" \in Sides
  BY DEF Sides
<1>1. 0 \in T
  BY <1>0, ChainSteps, LinkFacts
<1>2. ASSUME NEW n \in Nat, n \in T  PROVE n + 1 \in T
  <2>1. Down(t, Chain(t, i)[n], "right") \in L \cup {Nil}
    BY <1>0, <1>2, LinkFacts
  <2>2. Chain(t, i)[n + 1] = IF Down(t, Chain(t, i)[n], "right") = Nil
                             THEN Chain(t, i)[n] ELSE Down(t, Chain(t, i)[n], "right")
    BY ChainSteps
  <2>. QED  BY <1>2, <2>1, <2>2
<1>. HIDE DEF T
<1>3. Nat \subseteq T
  BY <1>1, <1>2, SearchLoop!SetInduction
<1>. QED  BY <1>3 DEF T

(* As long as there is a right child it goes there, away from the root.    *)
LEMMA ChainLink ==
    ASSUME NEW t, NEW L, Links(t, L), NEW i \in L, Down(t, i, "left") # Nil,
           NEW n \in Nat, Down(t, Chain(t, i)[n], "right") # Nil
    PROVE  /\ Chain(t, i)[n + 1] = Down(t, Chain(t, i)[n], "right")
           /\ Up(t, Chain(t, i)[n + 1]) = Chain(t, i)[n]
           /\ Chain(t, i)[n + 1] # t.root
<1>1. Chain(t, i)[n] \in L /\ Chain(t, i)[n + 1] \in L
  BY ChainLive
<1>2. Chain(t, i)[n + 1] = Down(t, Chain(t, i)[n], "right")
  BY ChainSteps
<1>3. Up(t, Chain(t, i)[n + 1]) = Chain(t, i)[n]
  BY <1>1, <1>2, LinkFacts DEF Sides
<1>4. Chain(t, i)[n] # Nil
  BY <1>1, LinkFacts
<1>. QED  BY <1>1, <1>2, <1>3, <1>4, LinkFacts

(* It begins below node i.                                                 *)
LEMMA ChainFirst ==
    ASSUME NEW t, NEW L, Links(t, L), NEW i \in L, Down(t, i, "left") # Nil
    PROVE  /\ Chain(t, i)[0] = Down(t, i, "left")
           /\ Up(t, Chain(t, i)[0]) = i
           /\ Chain(t, i)[0] # t.root
<1>1. Chain(t, i)[0] = Down(t, i, "left") /\ Chain(t, i)[0] \in L
  BY ChainLive, ChainSteps
<1>2. Up(t, Chain(t, i)[0]) = i /\ i # Nil
  BY <1>1, LinkFacts DEF Sides
<1>. QED  BY <1>1, <1>2, LinkFacts

(* The side on which a search turns tells how the key compares.            *)
LEMMA TurnsRight ==
    ASSUME NEW t, NEW L, Links(t, L), NEW i \in L, NEW k \in Nat, NEW z,
           z # Nil, Child(t, k, i) = z, KeyOf(t, i) # k
    PROVE  /\ z = Down(t, i, "left") => k < KeyOf(t, i)
           /\ z = Down(t, i, "right") => KeyOf(t, i) < k
<1>1. KeyOf(t, i) \in Nat
  BY LinkFacts
<1>2. Child(t, k, i) = IF k < KeyOf(t, i) THEN Down(t, i, "left") ELSE Down(t, i, "right")
  BY DEF Child, Down, KeyOf
<1>3. Down(t, i, "left") # Nil => Down(t, i, "left") # Down(t, i, "right")
  BY LinkFacts DEF Sides, Other
<1>. QED  BY <1>1, <1>2, <1>3

(* The search for the key at the end of such a way passes node i and all   *)
(* of the way; so the keys rise along it, all below that of i, and it is   *)
(* shorter than MaxTurns.                                                  *)
LEMMA ChainBack ==
    ASSUME NEW t, NEW L, Good(t, L), NEW i \in L, Down(t, i, "left") # Nil, NEW M \in Nat,
           \A n \in Nat : n < M => Down(t, Chain(t, i)[n], "right") # Nil,
           NEW k, k = KeyOf(t, Chain(t, i)[M])
    PROVE  /\ M < MaxTurns
           /\ \A n \in Nat : n < M => KeyOf(t, Chain(t, i)[n]) < k
           /\ k < KeyOf(t, i)
           /\ Visits(t, k, i)
<1>. DEFINE R == Chain(t, i)
            P == Search(t, k)
            Q(m) == \E j \in Nat : j + m <= MaxTurns /\ P[j] = R[M - m]
            T == {m \in Nat : m <= M => Q(m)}
<1>0. Links(t, L) /\ MaxTurns \in Nat
  BY MaxTurnsType DEF Good
<1>1. \A n \in Nat : R[n] \in L
  BY <1>0, ChainLive
<1>2. k \in Nat
  BY <1>0, <1>1, LinkFacts
<1>3. \A n \in Nat : n < M => /\ R[n + 1] = Down(t, R[n], "right")
                              /\ Up(t, R[n + 1]) = R[n]
                              /\ R[n + 1] # t.root
  BY <1>0, ChainLink
<1>4. R[0] = Down(t, i, "left") /\ Up(t, R[0]) = i /\ R[0] # t.root
  BY <1>0, ChainFirst
<1>5. P[MaxTurns] = R[M]
  BY <1>1, GoodFinds
<1>6. \A n \in Nat : R[n] # Nil
  BY <1>0, <1>1, LinkFacts
<1>. HIDE DEF R
<1>7. 0 \in T
  <2>1. MaxTurns \in Nat /\ MaxTurns + 0 <= MaxTurns /\ M - 0 = M
    BY <1>0
  <2>. QED  BY <1>5, <2>1
<1>8. ASSUME NEW m \in Nat, m < M, Q(m)
      PROVE  Q(m + 1) /\ KeyOf(t, R[M - (m + 1)]) < k
  <2>. DEFINE n == M - (m + 1)
  <2>1. n \in Nat /\ n < M /\ n + 1 = M - m
    BY <1>8
  <2>2. PICK j \in Nat : j + m <= MaxTurns /\ P[j] = R[n + 1]
    BY <1>8, <2>1
  <2>. HIDE DEF n, P
  <2>3. /\ R[n] \in L /\ R[n + 1] \in L /\ Up(t, R[n + 1]) = R[n]
        /\ R[n + 1] # t.root /\ R[n + 1] = Down(t, R[n], "right") /\ R[n + 1] # Nil
    BY <1>1, <1>3, <1>6, <2>1
  <2>4. /\ KeyOf(t, R[n]) # k
        /\ Child(t, k, R[n]) = R[n + 1]
        /\ \E l \in Nat : l < j /\ P[l] = R[n]
    BY <1>0, <2>2, <2>3, Came DEF P
  <2>5. PICK l \in Nat : l < j /\ P[l] = R[n]
    BY <2>4
  <2>6. l + (m + 1) <= MaxTurns
    BY <1>0, <2>2, <2>5
  <2>7. Q(m + 1)
    BY <2>5, <2>6 DEF n
  <2>8. KeyOf(t, R[n]) < k
    BY <1>0, <1>2, <2>3, <2>4, TurnsRight
  <2>. QED  BY <2>7, <2>8 DEF n
<1>9. ASSUME NEW m \in Nat, m \in T  PROVE m + 1 \in T
  <2>1. CASE m + 1 <= M
    <3>1. m < M /\ Q(m)
      BY <1>9, <2>1
    <3>. QED  BY <1>8, <3>1
  <2>. QED  BY <2>1
<1>10. \A m \in Nat : m <= M => Q(m)
  <2>1. Nat \subseteq T
    <3>. HIDE DEF T
    <3>. QED  BY <1>7, <1>9, SearchLoop!SetInduction
  <2>. QED  BY <2>1
<1>11. ASSUME NEW n \in Nat, n < M  PROVE KeyOf(t, R[n]) < k
  <2>. DEFINE m == M - n - 1
  <2>1. m \in Nat /\ m < M /\ M - (m + 1) = n /\ m <= M
    BY <1>11
  <2>. HIDE DEF m, Q
  <2>. QED  BY <1>8, <1>10, <2>1
<1>12. PICK j \in Nat : j + M <= MaxTurns /\ P[j] = R[0]
  <2>1. Q(M)
    BY <1>10
  <2>. QED  BY <2>1
<1>. HIDE DEF P
<1>13. /\ KeyOf(t, i) # k
       /\ Child(t, k, i) = R[0]
       /\ \E l \in Nat : l < j /\ P[l] = i
  <2>1. R[0] \in L
    BY <1>1
  <2>. QED  BY <1>0, <1>4, <1>12, <2>1, Came DEF P
<1>14. M < MaxTurns
  BY <1>0, <1>12, <1>13
<1>15. k < KeyOf(t, i)
  BY <1>0, <1>2, <1>4, <1>6, <1>13, TurnsRight
<1>16. Visits(t, k, i)
  BY <1>13 DEF Visits, P
<1>. QED  BY <1>11, <1>14, <1>15, <1>16 DEF R

(* The way to the predecessor ends, and Rightmost answers its last slot.   *)
LEMMA ChainEnds ==
    ASSUME NEW t, NEW L, Good(t, L), NEW i \in L, Down(t, i, "left") # Nil
    PROVE  \E M \in Nat : /\ \A n \in Nat : n < M => Down(t, Chain(t, i)[n], "right") # Nil
                          /\ Down(t, Chain(t, i)[M], "right") = Nil
                          /\ Rightmost(t, Down(t, i, "left")) = Chain(t, i)[M]
<1>. DEFINE R == Chain(t, i)
            J == {n \in Nat : n <= MaxTurns /\ Down(t, R[n], "right") = Nil}
<1>0. MaxTurns \in Nat
  BY MaxTurnsType
<1>1. J # {}
  <2>. SUFFICES ASSUME J = {}  PROVE FALSE
    OBVIOUS
  <2>1. \A n \in Nat : n < MaxTurns => Down(t, R[n], "right") # Nil
    BY <1>0
  <2>2. MaxTurns < MaxTurns
    BY <1>0, <2>1, ChainBack
  <2>. QED  BY <1>0, <2>2
<1>2. PICK M \in J : \A n \in J : M <= n
  <2>1. J \subseteq Nat
    OBVIOUS
  <2>. HIDE DEF J
  <2>. QED  BY <1>1, <2>1, SearchLoop!LeastNumber
<1>3. M \in Nat /\ M <= MaxTurns /\ Down(t, R[M], "right") = Nil
  OBVIOUS
<1>4. \A n \in Nat : n < M => Down(t, R[n], "right") # Nil
  BY <1>0, <1>2, <1>3
<1>5. R[MaxTurns] = R[M]
  <2>1. RightTurn(t, R[M]) = R[M]
    BY <1>3 DEF RightTurn, RightEnds, Down
  <2>. QED  BY <1>0, <1>3, <2>1, RightLoop!RunRests DEF Chain
<1>. QED  BY <1>3, <1>4, <1>5, ChainSteps

(* As far as the search for the key of i goes, the search for any key that *)
(* passes i makes the same turns.                                          *)
LEMMA SharedPath ==
    ASSUME NEW t, NEW L, Good(t, L), NEW i \in L, NEW k \in Nat, Visits(t, k, i)
    PROVE  \A n \in Nat : n <= MaxTurns =>
              /\ Search(t, KeyOf(t, i))[n] \in L
              /\ Visits(t, k, Search(t, KeyOf(t, i))[n])
              /\ Search(t, KeyOf(t, i))[n] # i =>
                    /\ KeyOf(t, Search(t, KeyOf(t, i))[n]) # k
                    /\ k < KeyOf(t, Search(t, KeyOf(t, i))[n])
                          <=> KeyOf(t, i) < KeyOf(t, Search(t, KeyOf(t, i))[n])
<1>. DEFINE P == Search(t, KeyOf(t, i))
            Same(y) == /\ y \in L
                       /\ Visits(t, k, y)
                       /\ y # i => /\ KeyOf(t, y) # k
                                   /\ k < KeyOf(t, y) <=> KeyOf(t, i) < KeyOf(t, y)
            T == {m \in Nat : m <= MaxTurns => Same(P[MaxTurns - m])}
<1>0. Links(t, L) /\ MaxTurns \in Nat /\ KeyOf(t, i) \in Nat
  BY MaxTurnsType, LinkFacts DEF Good
<1>1. 0 \in T
  <2>1. P[MaxTurns] = i /\ MaxTurns - 0 = MaxTurns
    BY <1>0, GoodFinds
  <2>. QED  BY <2>1
<1>2. ASSUME NEW m \in Nat, m + 1 <= MaxTurns, Same(P[MaxTurns - m])
      PROVE  Same(P[MaxTurns - (m + 1)])
  <2>. DEFINE n == MaxTurns - (m + 1)
              y == P[n]
              z == P[n + 1]
  <2>1. n \in Nat /\ n + 1 = MaxTurns - m
    BY <1>0, <1>2
  <2>2. z \in L /\ Visits(t, k, z) /\ (z = y => Same(y))
    BY <1>2, <2>1
  <2>3. \/ z = y
        \/ y \in L /\ KeyOf(t, y) # KeyOf(t, i) /\ z = Child(t, KeyOf(t, i), y)
    BY <1>0, <2>1, PathStep
  <2>. HIDE DEF P, n, y, z
  <2>4. CASE y \in L /\ KeyOf(t, y) # KeyOf(t, i) /\ z = Child(t, KeyOf(t, i), y)
    <3>1. PICK side \in Sides : z = Down(t, y, side)
      BY <2>4, TowardFacts
    <3>2. z # Nil /\ y # Nil
      BY <1>0, <2>2, <2>4, LinkFacts
    <3>3. Up(t, z) = y
      BY <1>0, <2>4, <3>1, <3>2, LinkFacts
    <3>4. z # t.root
      BY <1>0, <2>2, <3>2, <3>3, LinkFacts
    <3>5. KeyOf(t, y) # k /\ Child(t, k, y) = z /\ Visits(t, k, y)
      BY <1>0, <2>2, <3>3, <3>4, VisitCame
    <3>6. KeyOf(t, y) \in Nat
      BY <1>0, <2>4, LinkFacts
    <3>7. k < KeyOf(t, y) <=> KeyOf(t, i) < KeyOf(t, y)
      <4>1. CASE side = "left"
        <5>1. k < KeyOf(t, y) /\ KeyOf(t, i) < KeyOf(t, y)
          BY <1>0, <2>4, <3>1, <3>2, <3>5, <4>1, TurnsRight
        <5>. QED  BY <5>1
      <4>2. CASE side = "right"
        <5>1. KeyOf(t, y) < k /\ KeyOf(t, y) < KeyOf(t, i)
          BY <1>0, <2>4, <3>1, <3>2, <3>5, <4>2, TurnsRight
        <5>. QED  BY <1>0, <3>6, <5>1
      <4>. QED  BY <4>1, <4>2 DEF Sides
    <3>8. Same(y)
      BY <2>4, <3>5, <3>7
    <3>. QED  BY <3>8 DEF y, n
  <2>. HIDE DEF Same
  <2>. QED  BY <2>2, <2>3, <2>4 DEF y, n
<1>. HIDE DEF Same
<1>3. ASSUME NEW m \in Nat, m \in T  PROVE m + 1 \in T
  <2>1. CASE m + 1 <= MaxTurns
    <3>1. m <= MaxTurns
      BY <1>0, <2>1
    <3>. QED  BY <1>2, <1>3, <2>1, <3>1
  <2>. QED  BY <2>1
<1>4. Nat \subseteq T
  <2>. HIDE DEF T
  <2>. QED  BY <1>1, <1>3, SearchLoop!SetInduction
<1>5. ASSUME NEW n \in Nat, n <= MaxTurns  PROVE Same(P[n])
  <2>. DEFINE m == MaxTurns - n
  <2>1. m \in Nat /\ m <= MaxTurns /\ MaxTurns - m = n
    BY <1>0, <1>5
  <2>. HIDE DEF m
  <2>. QED  BY <1>4, <2>1
<1>. QED  BY <1>5 DEF Same

(* So does the search for any number between the two keys.                 *)
LEMMA BetweenVisits ==
    ASSUME NEW t, NEW L, Good(t, L), NEW i \in L, NEW k \in Nat, Visits(t, k, i),
           NEW b \in Nat, k < b, b < KeyOf(t, i)
    PROVE  Visits(t, b, i)
<1>. DEFINE P == Search(t, KeyOf(t, i))
            T == {n \in Nat : n <= MaxTurns => Visits(t, b, P[n])}
<1>0. Links(t, L) /\ MaxTurns \in Nat /\ KeyOf(t, i) \in Nat
  BY MaxTurnsType, LinkFacts DEF Good
<1>1. 0 \in T
  BY SearchSteps, VisitRoot
<1>2. ASSUME NEW n \in Nat, n \in T, n + 1 <= MaxTurns  PROVE Visits(t, b, P[n + 1])
  <2>. DEFINE y == P[n]
              z == P[n + 1]
  <2>1. n <= MaxTurns /\ Visits(t, b, y)
    BY <1>0, <1>2
  <2>2. /\ y \in L
        /\ y # i => KeyOf(t, y) # k /\ (k < KeyOf(t, y) <=> KeyOf(t, i) < KeyOf(t, y))
    BY <2>1, SharedPath
  <2>3. \/ z = y
        \/ KeyOf(t, y) # KeyOf(t, i) /\ z = Child(t, KeyOf(t, i), y)
    BY <1>0, PathStep
  <2>. HIDE DEF y, z
  <2>4. CASE KeyOf(t, y) # KeyOf(t, i) /\ z = Child(t, KeyOf(t, i), y)
    <3>1. KeyOf(t, y) \in Nat
      BY <1>0, <2>2, LinkFacts
    <3>2. KeyOf(t, y) # k /\ (k < KeyOf(t, y) <=> KeyOf(t, i) < KeyOf(t, y))
      BY <2>2, <2>4
    <3>3. KeyOf(t, y) # b /\ (b < KeyOf(t, y) <=> KeyOf(t, i) < KeyOf(t, y))
      BY <1>0, <2>4, <3>1, <3>2
    <3>4. Child(t, b, y) = z
      BY <2>4, <3>3 DEF Child, KeyOf
    <3>5. Visits(t, b, z)
      BY <1>0, <2>1, <2>2, <3>3, <3>4, VisitStep
    <3>. QED  BY <3>5 DEF z
  <2>. QED  BY <2>1, <2>3, <2>4 DEF y, z
<1>3. ASSUME NEW n \in Nat, n \in T  PROVE n + 1 \in T
  BY <1>2, <1>3
<1>4. Nat \subseteq T
  <2>. HIDE DEF T
  <2>. QED  BY <1>1, <1>3, SearchLoop!SetInduction
<1>5. MaxTurns \in T /\ P[MaxTurns] = i
  BY <1>0, <1>4, GoodFinds
<1>. QED  BY <1>0, <1>5

(* Rightmost answers the node with the greatest key below that of i (lines *)
(* 320-324), although nothing but searches was assumed of the tree: the    *)
(* search for a key in between would have to end at a node below.          *)
LEMMA RightmostIsPredecessor ==
    ASSUME NEW t, NEW L, Good(t, L), NEW i \in L, Down(t, i, "left") # Nil,
           NEW x, x = Rightmost(t, Down(t, i, "left"))
    PROVE  /\ x \in L
           /\ x # i
           /\ x # t.root
           /\ Down(t, x, "right") = Nil
           /\ KeyOf(t, x) < KeyOf(t, i)
           /\ \A l \in L : KeyOf(t, l) < KeyOf(t, i) => KeyOf(t, l) <= KeyOf(t, x)
<1>. DEFINE R == Chain(t, i)
            k == KeyOf(t, x)
<1>0. Links(t, L)
  BY DEF Good
<1>1. PICK M \in Nat : /\ \A n \in Nat : n < M => Down(t, R[n], "right") # Nil
                       /\ Down(t, R[M], "right") = Nil
                       /\ x = R[M]
  BY ChainEnds
<1>2. \A n \in Nat : R[n] \in L
  BY <1>0, ChainLive
<1>3. /\ \A n \in Nat : n < M => KeyOf(t, R[n]) < k
      /\ k < KeyOf(t, i)
      /\ Visits(t, k, i)
  BY <1>1, ChainBack
<1>4. \A n \in Nat : n < M => R[n + 1] = Down(t, R[n], "right") /\ R[n + 1] # t.root
  BY <1>0, <1>1, ChainLink
<1>5. R[0] = Down(t, i, "left") /\ R[0] # t.root
  BY <1>0, ChainFirst
<1>6. x \in L /\ k \in Nat /\ KeyOf(t, i) \in Nat
  BY <1>0, <1>1, <1>2, LinkFacts
<1>. HIDE DEF R
<1>7. x # i /\ x # t.root
  <2>1. CASE M = 0
    BY <1>1, <1>3, <1>5, <1>6, <2>1
  <2>2. CASE M # 0
    <3>. DEFINE n == M - 1
    <3>1. n \in Nat /\ n < M /\ n + 1 = M
      BY <2>2
    <3>. HIDE DEF n
    <3>. QED  BY <1>1, <1>3, <1>4, <1>6, <3>1
  <2>. QED  BY <2>1, <2>2
<1>8. ASSUME NEW l \in L, KeyOf(t, l) < KeyOf(t, i), ~ (KeyOf(t, l) <= k)  PROVE FALSE
  <2>. DEFINE b == KeyOf(t, l)
              T == {n \in Nat : n <= M => Visits(t, b, R[n])}
  <2>1. b \in Nat /\ k < b /\ b < KeyOf(t, i)
    <3>1. b \in Nat
      BY <1>0, LinkFacts
    <3>. QED  BY <1>6, <1>8, <3>1
  <2>2. Visits(t, b, i)
    BY <1>3, <1>6, <2>1, BetweenVisits
  <2>. HIDE DEF b
  <2>3. 0 \in T
    <3>1. KeyOf(t, i) # b
      BY <1>6, <2>1
    <3>2. Child(t, b, i) = R[0]
      BY <1>5, <2>1 DEF Child, KeyOf, Down
    <3>. QED  BY <1>0, <2>2, <3>1, <3>2, VisitStep
  <2>4. ASSUME NEW n \in Nat, n \in T  PROVE n + 1 \in T
    <3>. SUFFICES ASSUME n + 1 <= M  PROVE Visits(t, b, R[n + 1])
      OBVIOUS
    <3>1. n < M /\ n <= M /\ Visits(t, b, R[n])
      BY <2>4
    <3>2. R[n] \in L /\ KeyOf(t, R[n]) < k /\ KeyOf(t, R[n]) \in Nat
      <4>1. R[n] \in L
        BY <1>2
      <4>. QED  BY <1>0, <1>3, <3>1, <4>1, LinkFacts
    <3>3. KeyOf(t, R[n]) # b /\ ~ (b < KeyOf(t, R[n]))
      BY <1>6, <2>1, <3>2
    <3>4. Child(t, b, R[n]) = R[n + 1]
      BY <1>4, <3>1, <3>3 DEF Child, KeyOf, Down
    <3>. QED  BY <1>0, <3>1, <3>2, <3>3, <3>4, VisitStep
  <2>5. Visits(t, b, x)
    <3>1. Nat \subseteq T
      <4>. HIDE DEF T
      <4>. QED  BY <2>3, <2>4, SearchLoop!SetInduction
    <3>2. M \in T
      BY <3>1
    <3>. QED  BY <1>1, <3>2
  <2>6. Visits(t, b, Nil)
    <3>1. k # b /\ ~ (b < k)
      BY <1>6, <2>1
    <3>2. Child(t, b, x) = Nil
      BY <1>1, <3>1 DEF Child, KeyOf, Down
    <3>. QED  BY <1>0, <1>6, <2>5, <3>1, <3>2, VisitStep
  <2>7. Find(t, b) = Nil
    BY <1>0, <2>6, FindIs DEF SearchEnds
  <2>8. Find(t, b) = l /\ l # Nil
    BY <1>0, GoodFinds, LinkFacts DEF b
  <2>. QED  BY <2>7, <2>8
<1>9. ASSUME NEW l \in L, KeyOf(t, l) < KeyOf(t, i)  PROVE KeyOf(t, l) <= k
  BY <1>8, <1>9
<1>. QED  BY <1>1, <1>3, <1>6, <1>7, <1>9
-----------------------------------------------------------------------------
(* The invariant of the state.                                             *)
GoodTree == Good(tree, Live)

(* What the type says of a tree.                                           *)
LEMMA TypedFacts ==
    ASSUME NEW t, Typed(t)
    PROVE  /\ t.size \in 0 .. MaxSize
           /\ t.root \in Slots \cup {Nil}
           /\ 0 .. t.size - 1 \subseteq Slots
           /\ \A i \in Slots : /\ t.node[i] \in Nodes
                               /\ KeyOf(t, i) \in Nat
<1>1. /\ t.size \in 0 .. MaxSize
      /\ t.root \in Slots \cup {Nil}
      /\ \A i \in Slots : t.node[i] \in Nodes
  BY DEF Typed
<1>2. 0 .. t.size - 1 \subseteq Slots
  BY <1>1, MaxTurnsType DEF Slots
<1>3. \A n \in Nodes : n.Key \in Keys \cup {0}
  BY DEF Nodes
<1>4. Keys \cup {0} \subseteq Nat
  BY TreeAssumption
<1>5. \A i \in Slots : KeyOf(t, i) \in Nat
  BY <1>1, <1>3, <1>4 DEF KeyOf
<1>. QED  BY <1>1, <1>2, <1>5

(* The properties TLC checks, types, links and searches, give the          *)
(* invariant.                                                              *)
LEMMA SoundIsGood ==
    ASSUME Sound
    PROVE  GoodTree
<1>1. Typed(tree)
  BY DEF Sound, TypeOK, Typed
<1>2. Live \subseteq Slots
  BY <1>1, TypedFacts DEF Live
<1>3. ASSUME NEW i \in Live  PROVE ~ LooksBroken(tree, i) /\ Visits(tree, KeyOf(tree, i), i)
  <2>1. i \in Nat /\ i \notin {Nil, Broken, Endless}
    BY <1>2, SlotFacts
  <2>2. Find(tree, KeyOf(tree, i)) = i
    BY DEF Sound, FindsEveryKey, KeyOf
  <2>3. /\ Search(tree, KeyOf(tree, i))[MaxTurns] = i
        /\ SearchEnds(tree, KeyOf(tree, i), i)
    BY <2>1, <2>2, SearchSteps
  <2>. QED  BY <2>1, <2>3, MaxTurnsType DEF SearchEnds, Visits
<1>4. ASSUME NEW i \in Live
      PROVE  /\ KeyOf(tree, i) \in Nat
             /\ tree.node[i].index = i
             /\ Up(tree, i) \in Live \cup {Nil}
             /\ Up(tree, i) = Nil <=> i = tree.root
  <2>1. KeyOf(tree, i) \in Nat
    BY <1>1, <1>2, TypedFacts
  <2>. QED  BY <2>1 DEF Sound, LinksAgree, Up
<1>5. ASSUME NEW i \in Live, NEW side \in Sides
      PROVE  /\ Down(tree, i, side) \in (Live \cup {Nil}) \ {i}
             /\ Down(tree, i, side) # Nil => Up(tree, Down(tree, i, side)) = i
             /\ Down(tree, i, side) = Down(tree, i, Other(side)) => Down(tree, i, side) = Nil
  <2>1. /\ Down(tree, i, "left") \in Live \cup {Nil}
        /\ Down(tree, i, "right") \in Live \cup {Nil}
        /\ Down(tree, i, "left") # Nil => Up(tree, Down(tree, i, "left")) = i
        /\ Down(tree, i, "right") # Nil => Up(tree, Down(tree, i, "right")) = i
        /\ Down(tree, i, "left") = Down(tree, i, "right") => Down(tree, i, "left") = Nil
    BY DEF Sound, LinksAgree, Down, Up
  <2>2. Down(tree, i, "left") # i /\ Down(tree, i, "right") # i
    BY <1>3, <1>4 DEF LooksBroken, Down
  <2>. QED  BY <2>1, <2>2 DEF Sides, Other
<1>6. tree.root \in Live \cup {Nil}
  BY DEF Sound, LinksAgree
<1>7. Links(tree, Live)
  BY <1>2, <1>4, <1>5, <1>6 DEF Links
<1>. QED  BY <1>1, <1>3, <1>7 DEF GoodTree, Good

(* A search in an empty tree ends at once.                                 *)
LEMMA NothingVisited ==
    ASSUME NEW t, NEW k, t.root = Nil
    PROVE  \A y : Visits(t, k, y) => y = Nil
<1>1. Search(t, k)[0] = Nil /\ SearchEnds(t, k, Search(t, k)[0])
  BY SearchSteps DEF SearchEnds
<1>2. \A n \in Nat : Search(t, k)[n] = Nil
  BY <1>1, SearchRests
<1>. QED  BY <1>2 DEF Visits

(* The invariant gives the properties TLC checks.                          *)
LEMMA GoodIsSound ==
    ASSUME GoodTree
    PROVE  Sound
<1>1. Typed(tree) /\ Links(tree, Live) /\ Live \subseteq Slots
  BY DEF GoodTree, Good, Links
<1>2. TypeOK
  BY <1>1 DEF Typed, TypeOK
<1>3. tree.root = Nil <=> tree.size = 0
  <2>1. CASE tree.size = 0
    <3>1. Live = {}
      BY <2>1 DEF Live
    <3>. QED  BY <1>1, <2>1, <3>1 DEF Links
  <2>2. CASE tree.size # 0
    <3>1. 0 \in Live
      BY <1>1, <2>2, TypedFacts, MaxTurnsType DEF Live
    <3>2. Visits(tree, KeyOf(tree, 0), 0) /\ 0 # Nil
      BY <3>1 DEF GoodTree, Good, Nil
    <3>. QED  BY <2>2, <3>2, NothingVisited
  <2>. QED  BY <2>1, <2>2
<1>4. ASSUME NEW i \in Live
      PROVE  /\ {tree.node[i].left, tree.node[i].right, tree.node[i].parent}
                   \subseteq Live \cup {Nil}
             /\ \A c \in {tree.node[i].left, tree.node[i].right} \ {Nil} :
                   tree.node[c].parent = i
             /\ tree.node[i].left = tree.node[i].right => tree.node[i].left = Nil
             /\ tree.node[i].index = i
             /\ tree.node[i].parent = Nil <=> i = tree.root
  <2>1. /\ Down(tree, i, "left") \in Live \cup {Nil}
        /\ Down(tree, i, "right") \in Live \cup {Nil}
        /\ Down(tree, i, "left") # Nil => Up(tree, Down(tree, i, "left")) = i
        /\ Down(tree, i, "right") # Nil => Up(tree, Down(tree, i, "right")) = i
        /\ Down(tree, i, "left") # Nil => Down(tree, i, "left") # Down(tree, i, "right")
    BY <1>1, LinkFacts DEF Sides, Other
  <2>2. tree.node[i].index = i
    BY <1>1 DEF Links
  <2>3. Up(tree, i) \in Live \cup {Nil} /\ (Up(tree, i) = Nil <=> i = tree.root)
    BY <1>1, LinkFacts
  <2>. QED  BY <2>1, <2>2, <2>3 DEF Up, Down
<1>5. LinksAgree
  <2>1. tree.root \in Live \cup {Nil}
    BY <1>1 DEF Links
  <2>. QED  BY <1>3, <1>4, <2>1 DEF LinksAgree
<1>6. \A i \in Live : Find(tree, tree.node[i].Key) = i
  BY GoodFinds DEF GoodTree, KeyOf
<1>7. ASSUME NEW k \in Keys \ {tree.node[i].Key : i \in Live}  PROVE Find(tree, k) = Nil
  BY <1>1, FindIs DEF KeyOf
<1>. QED  BY <1>2, <1>5, <1>6, <1>7 DEF Sound, FindsEveryKey
-----------------------------------------------------------------------------
(* The array that callers see.                                             *)
Pairs(t) == [i \in Slots |-> [Key |-> t.node[i].Key, Value |-> t.node[i].Value]]

(* A repair does not change it.                                            *)
LEMMA KeptPairs ==
    ASSUME NEW t, NEW u, Kept(t, u)
    PROVE  Pairs(u) = Pairs(t) /\ u.size = t.size
BY DEF Kept, Pairs

(* A sound tree has the fields of one.                                     *)
LEMMA SoundShape ==
    ASSUME Sound
    PROVE  /\ Shape(tree)
           /\ Kept(tree, tree)
<1>1. DOMAIN tree = {"root", "size", "node"}
  BY DEF Sound, TypeOK
<1>2. tree.node \in [Slots -> Nodes]
  BY DEF Sound, TypeOK
<1>3. ASSUME NEW n \in Nodes  PROVE DOMAIN n = Fields
  BY DEF Nodes, Fields
<1>4. Shape(tree)
  BY <1>1, <1>2, <1>3 DEF Shape
<1>. QED  BY <1>4 DEF Kept

(* An insertion appends a pair to the array.                               *)
LEMMA InsertedPairs ==
    ASSUME NEW t, Shape(t), t.size \in Slots, NEW k, NEW v
    PROVE  /\ Inserted(t, k, v).size = t.size + 1
           /\ Pairs(Inserted(t, k, v)) = [Pairs(t) EXCEPT ![t.size] = [Key |-> k, Value |-> v]]
<1>. DEFINE x == t.size
            new == [left |-> Nil, right |-> Nil, parent |-> Nil, index |-> x,
                    Key |-> k, Value |-> v, color |-> "RED"]
            fresh == [t EXCEPT !.node[x] = new]
            linked == IF t.root = Nil THEN Paint(PutRoot(fresh, x), x, "BLACK")
                                      ELSE Attach(fresh, x, t.root)
<1>1. Inserted(t, k, v) = [linked EXCEPT !.size = @ + 1]
  BY DEF Inserted
<1>2. /\ DOMAIN fresh = {"root", "size", "node"}
      /\ fresh.size = t.size
      /\ fresh.node = [t.node EXCEPT ![x] = new]
  BY DEF Shape
<1>3. DOMAIN new = Fields /\ new.Key = k /\ new.Value = v
  BY DEF Fields
<1>. HIDE DEF fresh, new
<1>4. Shape(fresh)
  BY <1>2, <1>3 DEF Shape
<1>5. Kept(fresh, linked)
  BY <1>4, PaintKeeps, PutRootKeeps, AttachKeeps DEF Kept
<1>. HIDE DEF linked
<1>6. Pairs(fresh) = [Pairs(t) EXCEPT ![x] = [Key |-> k, Value |-> v]]
  <2>1. \A i \in Slots : fresh.node[i] = IF i = x THEN new ELSE t.node[i]
    BY <1>2 DEF Shape
  <2>. QED  BY <1>3, <2>1 DEF Pairs
<1>7. DOMAIN linked = {"root", "size", "node"} /\ linked.size = t.size
  BY <1>2, <1>5 DEF Kept, Shape
<1>8. Inserted(t, k, v).node = linked.node /\ Inserted(t, k, v).size = t.size + 1
  BY <1>1, <1>7
<1>9. Pairs(linked) = Pairs(fresh)
  BY <1>5, KeptPairs
<1>. QED  BY <1>6, <1>8, <1>9 DEF Pairs

(* What find answers in a good tree.                                       *)
LEMMA FoundKey ==
    ASSUME GoodTree, NEW k
    PROVE  /\ Find(tree, k) \in Live \cup {Nil}
           /\ Find(tree, k) \in Live => KeyOf(tree, Find(tree, k)) = k
           /\ Find(tree, k) = Nil => \A l \in Live : KeyOf(tree, l) # k
           /\ Live \subseteq Slots
<1>1. Links(tree, Live) /\ Live \subseteq Slots
  BY DEF GoodTree, Good, Links
<1>2. \A l \in Live : Find(tree, KeyOf(tree, l)) = l /\ l # Nil
  BY <1>1, GoodFinds, LinkFacts DEF GoodTree
<1>. QED  BY <1>1, <1>2, FindIs

(* insert does to the array what NodeArray says of it.                     *)
LEMMA InsertImplements ==
    ASSUME Sound, NEW k \in Keys, NEW v \in InsertValues, Insert(k, v)
    PROVE  Array!InsertNode(k, v)
<1>. DEFINE found == Find(tree, k)
<1>. USE DEF Array!InsertNode, Array!Present, Array!SlotsOf, Array!HasRoom,
             Array!AfterInsert, Array!Live, Array!arrayVars
<1>0. found \in Live \cup {Nil} /\ GoodTree /\ Live \subseteq Slots
  BY SoundIsGood, FoundKey
<1>1. \/ found \in Live /\ tree' = [tree EXCEPT !.node[found].Value = v]
      \/ found = Nil /\ Append(tree, k, v)
  BY <1>0, SlotFacts DEF Insert
<1>2. Array!Live = Live /\ Live \subseteq Slots /\ Shape(tree)
  BY <1>0, SoundShape DEF Live
<1>3. \A i \in Live : Pairs(tree)[i].Key = KeyOf(tree, i)
  BY <1>2 DEF Pairs, KeyOf
<1>. HIDE DEF found
<1>4. CASE found \in Live /\ tree' = [tree EXCEPT !.node[found].Value = v]
  <2>1. found \in Live /\ KeyOf(tree, found) = k
    BY <1>0, <1>4, FoundKey DEF found
  <2>2. tree'.size = tree.size /\ tree'.node = [tree.node EXCEPT ![found].Value = v]
    BY <1>2, <1>4 DEF Shape
  <2>3. Pairs(tree)' = [Pairs(tree) EXCEPT ![found].Value = v]
    <3>1. \A i \in Slots : /\ tree'.node[i].Key = tree.node[i].Key
                           /\ tree'.node[i].Value = IF i = found THEN v ELSE tree.node[i].Value
      BY <1>2, <2>2 DEF Shape, Fields
    <3>. QED  BY <1>4, <3>1 DEF Pairs
  <2>4. found \in Array!SlotsOf(k) /\ k \in Array!Present
    BY <1>2, <1>3, <2>1 DEF Pairs
  <2>. QED  BY <2>2, <2>3, <2>4 DEF Pairs
<1>5. CASE found = Nil /\ Append(tree, k, v)
  <2>1. \A i \in Live : KeyOf(tree, i) # k
    BY <1>0, <1>5, FoundKey DEF found
  <2>2. k \notin Array!Present
    BY <1>2, <1>3, <2>1 DEF Pairs
  <2>3. CASE tree.size < MaxSize /\ tree' = Inserted(tree, k, v)
    <3>1. tree.size \in Slots
      <4>1. tree.size \in 0 .. MaxSize /\ MaxSize \in Nat
        BY MaxTurnsType, TypedFacts DEF Sound, TypeOK, Typed
      <4>. QED  BY <2>3, <4>1 DEF Slots
    <3>2. /\ tree'.size = tree.size + 1
          /\ Pairs(tree') = [Pairs(tree) EXCEPT ![tree.size] = [Key |-> k, Value |-> v]]
      BY <1>2, <2>3, <3>1, InsertedPairs
    <3>. QED  BY <2>2, <2>3, <3>2 DEF Pairs
  <2>4. CASE tree.size = MaxSize /\ tree' = tree
    <3>1. ~ Array!HasRoom
      BY <2>4, MaxTurnsType
    <3>2. UNCHANGED Array!arrayVars
      BY <2>4
    <3>. QED  BY <2>2, <3>1, <3>2
  <2>. QED  BY <1>5, <2>3, <2>4 DEF Append
<1>. QED  BY <1>1, <1>4, <1>5

(* What the copy of a pair does to the array.                              *)
LEMMA CopyPairPairs ==
    ASSUME NEW t, Shape(t), NEW i \in Slots, NEW x \in Slots
    PROVE  /\ Shape(CopyPair(t, i, x))
           /\ CopyPair(t, i, x).size = t.size
           /\ Pairs(CopyPair(t, i, x)) = [Pairs(t) EXCEPT ![i] = Pairs(t)[x]]
<1>. DEFINE u == CopyPair(t, i, x)
            key == [t EXCEPT !.node[i].Key = t.node[x].Key]
<1>1. u = [key EXCEPT !.node[i].Value = t.node[x].Value]
  BY DEF CopyPair
<1>2. /\ DOMAIN key = {"root", "size", "node"}
      /\ key.size = t.size
      /\ key.node = [t.node EXCEPT ![i].Key = t.node[x].Key]
  BY DEF Shape
<1>. HIDE DEF key, u
<1>3. /\ DOMAIN u = {"root", "size", "node"}
      /\ u.size = t.size
      /\ u.node = [key.node EXCEPT ![i].Value = t.node[x].Value]
  BY <1>1, <1>2
<1>4. DOMAIN u.node = Slots
  BY <1>2, <1>3 DEF Shape
<1>5. ASSUME NEW j \in Slots
      PROVE  /\ DOMAIN u.node[j] = Fields
             /\ u.node[j].Key = IF j = i THEN t.node[x].Key ELSE t.node[j].Key
             /\ u.node[j].Value = IF j = i THEN t.node[x].Value ELSE t.node[j].Value
  <2>1. CASE j = i
    <3>1. key.node[j] = [t.node[j] EXCEPT !.Key = t.node[x].Key]
      BY <1>2, <2>1 DEF Shape
    <3>2. u.node[j] = [key.node[j] EXCEPT !.Value = t.node[x].Value]
      BY <1>2, <1>3, <2>1 DEF Shape
    <3>3. DOMAIN t.node[j] = Fields
      BY DEF Shape
    <3>. QED  BY <2>1, <3>1, <3>2, <3>3 DEF Fields
  <2>2. CASE j # i
    <3>1. u.node[j] = t.node[j]
      BY <1>2, <1>3, <2>2 DEF Shape
    <3>. QED  BY <2>2, <3>1 DEF Shape
  <2>. QED  BY <2>1, <2>2
<1>6. Pairs(u) = [Pairs(t) EXCEPT ![i] = Pairs(t)[x]]
  BY <1>5 DEF Pairs
<1>. QED  BY <1>3, <1>4, <1>5, <1>6 DEF Shape, u

(* Unlinking a node does nothing to the array beyond the copy of the       *)
(* predecessor's pair.                                                     *)
LEMMA WithoutNodePairs ==
    ASSUME NEW t, Shape(t), NEW i \in Slots, NEW x \in Slots
    PROVE  LET u == WithoutNode(t, i, x)
           IN  /\ Shape(u)
               /\ u.size = t.size
               /\ Pairs(u) = [Pairs(t) EXCEPT ![i] = Pairs(t)[x]]
<1>1. Kept(t, t)
  BY DEF Kept
<1>2. CASE x = i
  <2>1. Kept(t, UnlinkedWithoutLeft(t, i))
    BY <1>1, UnlinkedWithoutLeftKeeps
  <2>2. Pairs(t) = [Pairs(t) EXCEPT ![i] = Pairs(t)[x]]
    BY <1>2 DEF Pairs
  <2>. QED  BY <1>2, <2>1, <2>2, KeptPairs DEF WithoutNode, Kept
<1>3. CASE x # i
  <2>1. Kept(CopyPair(t, i, x), UnlinkedPredecessor(t, i, x))
    BY CopyPairPairs, UnlinkedPredecessorKeeps
  <2>2. /\ Shape(UnlinkedPredecessor(t, i, x))
        /\ UnlinkedPredecessor(t, i, x).size = CopyPair(t, i, x).size
        /\ Pairs(UnlinkedPredecessor(t, i, x)) = Pairs(CopyPair(t, i, x))
    BY <2>1, KeptPairs DEF Kept
  <2>3. WithoutNode(t, i, x) = UnlinkedPredecessor(t, i, x)
    BY <1>3 DEF WithoutNode
  <2>. QED  BY <2>2, <2>3, CopyPairPairs
<1>. QED  BY <1>2, <1>3

(* Moving the last node moves its pair.                                    *)
LEMMA CompactedPairs ==
    ASSUME NEW u, Shape(u), NEW x \in Slots, NEW last \in Slots, last = u.size - 1
    PROVE  /\ Compacted(u, x).size = last
           /\ \A l \in Slots : Pairs(Compacted(u, x))[l] =
                 IF l = last THEN [Key |-> 0, Value |-> 0]
                 ELSE IF l = x THEN Pairs(u)[last] ELSE Pairs(u)[l]
<1>. DEFINE m == u.node[last]
            Follow(link) == IF link = last THEN x ELSE link
            Node(i) == IF i = x THEN m ELSE u.node[i]
            Moved(i) == IF i = last THEN ZeroNode
                        ELSE [Node(i) EXCEPT
                                !.index  = IF i = x THEN x ELSE @,
                                !.left   = IF i = m.parent /\ Node(i).right # last
                                           THEN Follow(@) ELSE @,
                                !.right  = IF i = m.parent THEN Follow(@) ELSE @,
                                !.parent = IF i \in {m.left, m.right} THEN x ELSE @]
            w == Compacted(u, x)
<1>1. /\ w.size = last
      /\ w.node = IF x = last THEN [u.node EXCEPT ![last] = ZeroNode]
                              ELSE [i \in Slots |-> Moved(i)]
  BY DEF Compacted, SizeAfterRemoval
<1>2. ZeroNode.Key = 0 /\ ZeroNode.Value = 0
  BY DEF ZeroNode
<1>3. ASSUME NEW i \in Slots, i # last
      PROVE  Moved(i).Key = Node(i).Key /\ Moved(i).Value = Node(i).Value
  <2>1. DOMAIN Node(i) = Fields
    BY DEF Shape
  <2>. HIDE DEF Node, m
  <2>. QED  BY <1>3, <2>1 DEF Fields
<1>4. ASSUME NEW i \in Slots
      PROVE  /\ w.node[i].Key = IF i = last THEN 0 ELSE Node(i).Key
             /\ w.node[i].Value = IF i = last THEN 0 ELSE Node(i).Value
  <2>1. CASE x = last
    <3>1. w.node[i] = IF i = last THEN ZeroNode ELSE u.node[i]
      BY <1>1, <2>1 DEF Shape
    <3>. QED  BY <1>2, <2>1, <3>1
  <2>2. CASE x # last
    <3>1. w.node[i] = Moved(i)
      BY <1>1, <2>2
    <3>. HIDE DEF w, Node
    <3>2. CASE i = last
      BY <1>2, <3>1, <3>2
    <3>3. CASE i # last
      <4>. HIDE DEF Moved
      <4>. QED  BY <1>3, <3>1, <3>3
    <3>. QED  BY <3>2, <3>3
  <2>. QED  BY <2>1, <2>2
<1>. HIDE DEF w, Moved
<1>5. ASSUME NEW l \in Slots
      PROVE  Pairs(w)[l] = IF l = last THEN [Key |-> 0, Value |-> 0]
                           ELSE IF l = x THEN Pairs(u)[last] ELSE Pairs(u)[l]
  <2>1. Pairs(w)[l] = IF l = last THEN [Key |-> 0, Value |-> 0]
                      ELSE [Key |-> Node(l).Key, Value |-> Node(l).Value]
    BY <1>4 DEF Pairs
  <2>2. [Key |-> Node(l).Key, Value |-> Node(l).Value] =
           IF l = x THEN Pairs(u)[last] ELSE Pairs(u)[l]
    BY DEF Pairs
  <2>. QED  BY <2>1, <2>2
<1>. QED  BY <1>1, <1>5 DEF w

(* The slot that Remove frees: the one of the removed node if it has no    *)
(* left child, otherwise that of its predecessor.                          *)
LEMMA UnlinkedIs ==
    ASSUME NEW t, NEW L, Good(t, L), NEW i \in L, NEW x, x = Unlinked(t, i)
    PROVE  /\ x \in L
           /\ x = i => Down(t, x, "left") = Nil
           /\ x # i => /\ x # t.root
                       /\ Down(t, x, "right") = Nil
                       /\ KeyOf(t, x) < KeyOf(t, i)
                       /\ \A l \in L : KeyOf(t, l) < KeyOf(t, i) => KeyOf(t, l) <= KeyOf(t, x)
<1>1. x = IF Down(t, i, "left") = Nil THEN i ELSE Rightmost(t, Down(t, i, "left"))
  BY DEF Unlinked, Down
<1>. QED  BY <1>1, RightmostIsPredecessor

(* Remove does to the array what NodeArray says of it: the pair copied and *)
(* the pair moved are those of the predecessor and of the last node.       *)
LEMMA RemoveImplements ==
    ASSUME Sound, NEW k \in Keys, Remove(k)
    PROVE  Array!DeleteNode(k)
<1>. DEFINE found == Find(tree, k)
<1>1. found \in Live \cup {Nil} /\ GoodTree /\ Live \subseteq Slots
  BY SoundIsGood, FoundKey
<1>2. \/ /\ found \in Live
         /\ tree' = Compacted(WithoutNode(tree, found, Unlinked(tree, found)),
                              Unlinked(tree, found))
      \/ found = Nil /\ tree' = tree
  BY <1>1, SlotFacts DEF Remove
<1>3. Array!Live = Live /\ Live \subseteq Slots /\ Shape(tree)
  BY <1>1, SoundShape DEF Live, Array!Live
<1>4. \A i \in Live : Pairs(tree)[i].Key = KeyOf(tree, i)
  BY <1>3 DEF Pairs, KeyOf
<1>. HIDE DEF found
<1>5. CASE /\ found \in Live
           /\ tree' = Compacted(WithoutNode(tree, found, Unlinked(tree, found)),
                                Unlinked(tree, found))
  <2>. DEFINE x == Unlinked(tree, found)
              u == WithoutNode(tree, found, x)
              last == tree.size - 1
  <2>1. found \in Live /\ KeyOf(tree, found) = k
    BY <1>1, <1>5, FoundKey DEF found
  <2>2. \/ x = found
        \/ /\ x \in Live
           /\ KeyOf(tree, x) < KeyOf(tree, found)
           /\ \A l \in Live :
                 KeyOf(tree, l) < KeyOf(tree, found) => KeyOf(tree, l) <= KeyOf(tree, x)
    BY <1>1, <2>1, UnlinkedIs DEF GoodTree
  <2>3. x \in Live /\ x \in Slots
    BY <1>3, <2>1, <2>2
  <2>4. last \in Slots
    <3>1. tree.size \in 0 .. MaxSize /\ MaxSize \in Nat
      BY MaxTurnsType, TypedFacts DEF Sound, TypeOK, Typed
    <3>. QED  BY <2>1, <3>1 DEF Live, Slots
  <2>5. tree' = Compacted(u, x)
    BY <1>5
  <2>. HIDE DEF x, u
  <2>6. Shape(u) /\ u.size = tree.size /\ Pairs(u) = [Pairs(tree) EXCEPT ![found] = Pairs(tree)[x]]
    BY <1>3, <1>5, <2>3, WithoutNodePairs DEF u
  <2>7. /\ tree'.size = last
        /\ \A l \in Slots : Pairs(tree')[l] =
              IF l = last THEN [Key |-> 0, Value |-> 0]
              ELSE IF l = x THEN Pairs(u)[last] ELSE Pairs(u)[l]
    <3>1. last = u.size - 1 /\ last \in Slots /\ x \in Slots /\ Shape(u)
      BY <2>3, <2>4, <2>6
    <3>. HIDE DEF last
    <3>2. /\ Compacted(u, x).size = last
          /\ \A l \in Slots : Pairs(Compacted(u, x))[l] =
                IF l = last THEN [Key |-> 0, Value |-> 0]
                ELSE IF l = x THEN Pairs(u)[last] ELSE Pairs(u)[l]
      BY <3>1, CompactedPairs
    <3>. QED  BY <2>5, <3>2
  <2>8. Pairs(tree') = Array!AfterRemove(Pairs(tree), tree.size, found, x)
    <3>1. Pairs(tree') = [l \in Slots |-> Pairs(tree')[l]]
      BY DEF Pairs
    <3>. QED  BY <2>6, <2>7, <3>1 DEF Array!AfterRemove, Array!ZeroNode, Array!Slots, Slots
  <2>9. found \in Array!SlotsOf(k)
    BY <1>3, <1>4, <2>1 DEF Array!SlotsOf, Pairs
  <2>10. x \in {found} \cup Array!Predecessors(found)
    <3>1. ASSUME x # found  PROVE x \in Array!Predecessors(found)
      BY <1>3, <1>4, <2>1, <2>2, <3>1 DEF Array!Predecessors, Pairs
    <3>. QED  BY <3>1
  <2>11. k \in Array!Present
    BY <1>3, <1>4, <2>1 DEF Array!Present, Pairs
  <2>. QED  BY <2>7, <2>8, <2>9, <2>10, <2>11 DEF Array!DeleteNode, Pairs
<1>6. CASE found = Nil /\ tree' = tree
  <2>1. \A i \in Live : KeyOf(tree, i) # k
    BY <1>1, <1>6, FoundKey DEF found
  <2>2. k \notin Array!Present
    BY <1>3, <1>4, <2>1 DEF Array!Present, Pairs
  <2>. QED  BY <1>6, <2>2 DEF Array!DeleteNode, Array!arrayVars
<1>. QED  BY <1>2, <1>5, <1>6

(* For trees of every size, with whatever colours, every insertion into a  *)
(* sound tree and every removal from one does to the dense array of pairs  *)
(* what NodeArray says (insert, Remove): no rotation and no repair in      *)
(* between loses or doubles a pair, and no search or descent they make     *)
(* runs on for ever.                                                       *)
THEOREM UpdatesAreArrayUpdates == Spec => UpdatesImplementArray
<1>1. ASSUME Sound
      PROVE  /\ \A k \in Keys, v \in InsertValues : Insert(k, v) => Array!InsertNode(k, v)
             /\ \A k \in Keys : Remove(k) => Array!DeleteNode(k)
  BY <1>1, InsertImplements, RemoveImplements
<1>2. [tree' # tree /\ Sound =>
         /\ \A k \in Keys, v \in InsertValues : Insert(k, v) => Array!InsertNode(k, v)
         /\ \A k \in Keys : Remove(k) => Array!DeleteNode(k)]_tree
  BY <1>1
<1>. QED  BY <1>2, PTL DEF UpdatesImplementArray
-----------------------------------------------------------------------------
(* v has the type of field f.                                              *)
Fits(f, v) == \A n \in Nodes : [n EXCEPT ![f] = v] \in Nodes

(* Links and colours fit their fields.                                     *)
LEMMA FitsFacts ==
    /\ \A v \in Slots \cup {Nil} : Fits("left", v) /\ Fits("right", v) /\ Fits("parent", v)
    /\ \A v \in Slots \cup {Nil}, side \in Sides : Fits(side, v)
    /\ \A c \in {"BLACK", "RED"} : Fits("color", c)
BY DEF Fits, Nodes, Sides

(* What a write of one field does.                                         *)
LEMMA PutFacts ==
    ASSUME NEW t, Typed(t), NEW i \in Slots, NEW f \in Fields, NEW v, Fits(f, v)
    PROVE  /\ Typed(Put(t, i, f, v))
           /\ Put(t, i, f, v).root = t.root
           /\ Put(t, i, f, v).size = t.size
           /\ \A j \in Slots, h \in Fields :
                 Put(t, i, f, v).node[j][h] = IF j = i /\ h = f THEN v ELSE t.node[j][h]
<1>. DEFINE u == Put(t, i, f, v)
            n == [t.node[i] EXCEPT ![f] = v]
<1>1. u = [t EXCEPT !.node = [t.node EXCEPT ![i] = n]]
  BY DEF Put
<1>2. t.node \in [Slots -> Nodes] /\ n \in Nodes /\ t.node[i] \in Nodes
  BY DEF Typed, Fits
<1>3. \A m \in Nodes : DOMAIN m = Fields
  BY DEF Nodes, Fields
<1>4. \A h \in Fields : n[h] = IF h = f THEN v ELSE t.node[i][h]
  BY <1>2, <1>3
<1>. HIDE DEF u, n
<1>5. /\ u.root = t.root
      /\ u.size = t.size
      /\ u.node = [t.node EXCEPT ![i] = n]
      /\ u = [root |-> u.root, size |-> u.size, node |-> u.node]
  BY <1>1 DEF Typed
<1>6. u.node \in [Slots -> Nodes] /\ \A j \in Slots : u.node[j] = IF j = i THEN n ELSE t.node[j]
  BY <1>2, <1>5
<1>7. Typed(u)
  <2>1. u.root \in Slots \cup {Nil} /\ u.size \in 0 .. MaxSize
    BY <1>5 DEF Typed
  <2>. QED  BY <1>5, <1>6, <2>1 DEF Typed
<1>. QED  BY <1>4, <1>5, <1>6, <1>7 DEF u

(* u is t with v in field f of slot i.                                     *)
Written(t, u, i, f, v) ==
    /\ Typed(u)
    /\ u.root = t.root
    /\ u.size = t.size
    /\ \A j \in Slots, h \in Fields :
          u.node[j][h] = IF j = i /\ h = f THEN v ELSE t.node[j][h]

(* Put writes it.                                                          *)
LEMMA PutWrites ==
    ASSUME NEW t, Typed(t), NEW i \in Slots, NEW f \in Fields, NEW v, Fits(f, v)
    PROVE  Written(t, Put(t, i, f, v), i, f, v)
BY PutFacts DEF Written

(* What a write of the root does.                                          *)
LEMMA PutRootFacts ==
    ASSUME NEW t, Typed(t), NEW i \in Slots \cup {Nil}
    PROVE  /\ Typed(PutRoot(t, i))
           /\ PutRoot(t, i).root = i
           /\ PutRoot(t, i).size = t.size
           /\ PutRoot(t, i).node = t.node
BY DEF Typed, PutRoot

(* A write to a slot that does not exist, such as painting Nil, does       *)
(* nothing.                                                                *)
LEMMA PutNowhere ==
    ASSUME NEW t, Typed(t), NEW i, i \notin Slots, NEW f, NEW v
    PROVE  Put(t, i, f, v) = t
<1>1. [t.node EXCEPT ![i] = [t.node[i] EXCEPT ![f] = v]] = t.node
  BY DEF Typed
<1>2. Put(t, i, f, v) = [t EXCEPT !.node = [t.node EXCEPT ![i] = [t.node[i] EXCEPT ![f] = v]]]
  BY DEF Put
<1>. QED  BY <1>1, <1>2 DEF Typed

(* The fields that searches and links depend on.                           *)
Steering == {"left", "right", "parent", "index", "Key"}

(* t and u differ in colours and values only, as far as L goes.            *)
Alike(t, u, L) == /\ u.root = t.root
                  /\ \A i \in L, f \in Steering : u.node[i][f] = t.node[i][f]

(* Such trees have the same links, keys and turns.                         *)
LEMMA AlikeFacts ==
    ASSUME NEW t, NEW u, NEW L, Alike(t, u, L), NEW i \in L
    PROVE  /\ u.node[i].index = t.node[i].index
           /\ KeyOf(u, i) = KeyOf(t, i)
           /\ Up(u, i) = Up(t, i)
           /\ \A side \in Sides : Down(u, i, side) = Down(t, i, side)
           /\ \A k : Toward(u, k, i) = Toward(t, k, i)
           /\ \A k : Child(u, k, i) = Child(t, k, i)
<1>1. /\ u.node[i].index = t.node[i].index
      /\ KeyOf(u, i) = KeyOf(t, i)
      /\ Up(u, i) = Up(t, i)
      /\ \A side \in Sides : Down(u, i, side) = Down(t, i, side)
  BY DEF Alike, KeyOf, Up, Down, Sides, Steering
<1>2. \A k : Toward(u, k, i) = Toward(t, k, i)
  BY <1>1 DEF Toward
<1>. QED  BY <1>1, <1>2, TowardFacts

(* Links do not depend on colours and values.                              *)
LEMMA AlikeLinks ==
    ASSUME NEW t, NEW u, NEW L, Links(t, L), Alike(t, u, L)
    PROVE  Links(u, L)
<1>1. u.root = t.root
  BY DEF Alike
<1>2. L \subseteq Slots /\ t.root \in L \cup {Nil}
  BY DEF Links
<1>3. ASSUME NEW i \in L
      PROVE  /\ KeyOf(u, i) \in Nat
             /\ u.node[i].index = i
             /\ Up(u, i) \in L \cup {Nil}
             /\ Up(u, i) = Nil <=> i = u.root
  BY <1>1, AlikeFacts DEF Links
<1>4. ASSUME NEW i \in L, NEW side \in Sides
      PROVE  /\ Down(u, i, side) \in (L \cup {Nil}) \ {i}
             /\ Down(u, i, side) # Nil => Up(u, Down(u, i, side)) = i
             /\ Down(u, i, side) = Down(u, i, Other(side)) => Down(u, i, side) = Nil
  <2>1. Other(side) \in Sides
    BY TowardFacts
  <2>2. Down(u, i, side) = Down(t, i, side) /\ Down(u, i, Other(side)) = Down(t, i, Other(side))
    BY <2>1, AlikeFacts
  <2>3. /\ Down(t, i, side) \in (L \cup {Nil}) \ {i}
        /\ Down(t, i, side) # Nil => Up(t, Down(t, i, side)) = i
        /\ Down(t, i, side) = Down(t, i, Other(side)) => Down(t, i, side) = Nil
    BY DEF Links
  <2>4. Down(t, i, side) # Nil => Up(u, Down(t, i, side)) = Up(t, Down(t, i, side))
    BY <2>3, AlikeFacts
  <2>. QED  BY <2>2, <2>3, <2>4
<1>. QED  BY <1>1, <1>2, <1>3, <1>4 DEF Links

(* Nor do searches.                                                        *)
LEMMA AlikeSearch ==
    ASSUME NEW t, NEW u, NEW L, Links(t, L), Alike(t, u, L), NEW k
    PROVE  \A n \in Nat : Search(u, k)[n] = Search(t, k)[n]
<1>. DEFINE T == {n \in Nat : Search(u, k)[n] = Search(t, k)[n]}
<1>1. 0 \in T
  BY SearchSteps DEF Alike
<1>2. ASSUME NEW n \in Nat, n \in T  PROVE n + 1 \in T
  <2>. DEFINE y == Search(t, k)[n]
  <2>1. Search(u, k)[n] = y /\ y \in L \cup {Nil}
    BY <1>2, PathLive
  <2>2. Search(u, k)[n + 1] = IF SearchEnds(u, k, y) THEN y
                 ELSE IF LooksBroken(u, y) THEN Broken ELSE Child(u, k, y)
    BY <2>1, SearchSteps
  <2>3. Search(t, k)[n + 1] = IF SearchEnds(t, k, y) THEN y
                 ELSE IF LooksBroken(t, y) THEN Broken ELSE Child(t, k, y)
    BY SearchSteps
  <2>. HIDE DEF y
  <2>4. CASE y = Nil
    <3>1. SearchEnds(u, k, y) /\ SearchEnds(t, k, y)
      BY <2>4 DEF SearchEnds
    <3>. QED  BY <2>2, <2>3, <3>1
  <2>5. CASE y \in L
    <3>1. Links(u, L)
      BY AlikeLinks
    <3>2. /\ SearchEnds(u, k, y) <=> SearchEnds(t, k, y)
          /\ ~ LooksBroken(u, y) /\ ~ LooksBroken(t, y)
      <4>1. SearchEnds(u, k, y) <=> KeyOf(u, y) = k
        BY <2>5, <3>1, LinkFacts
      <4>2. SearchEnds(t, k, y) <=> KeyOf(t, y) = k
        BY <2>5, LinkFacts
      <4>. QED  BY <2>5, <3>1, <4>1, <4>2, LinkFacts, AlikeFacts
    <3>3. Child(u, k, y) = Child(t, k, y)
      BY <2>5, AlikeFacts
    <3>. QED  BY <2>2, <2>3, <3>2, <3>3
  <2>. QED  BY <2>1, <2>4, <2>5
<1>3. Nat \subseteq T
  <2>. HIDE DEF T
  <2>. QED  BY <1>1, <1>2, SearchLoop!SetInduction
<1>. QED  BY <1>3

(* So the invariant does not either.                                       *)
LEMMA AlikeGood ==
    ASSUME NEW t, NEW u, NEW L, Good(t, L), Typed(u), Alike(t, u, L)
    PROVE  Good(u, L)
<1>1. Links(t, L) /\ Links(u, L)
  BY AlikeLinks DEF Good
<1>2. ASSUME NEW l \in L  PROVE Visits(u, KeyOf(u, l), l)
  <2>1. KeyOf(u, l) = KeyOf(t, l) /\ Visits(t, KeyOf(t, l), l)
    BY AlikeFacts DEF Good
  <2>. QED  BY <1>1, <2>1, AlikeSearch DEF Visits
<1>. QED  BY <1>1, <1>2 DEF Good

(* What painting does.                                                     *)
LEMMA PaintFacts ==
    ASSUME NEW t, Typed(t), NEW i, NEW c \in {"BLACK", "RED"}
    PROVE  /\ Typed(Paint(t, i, c))
           /\ Paint(t, i, c).size = t.size
           /\ Alike(t, Paint(t, i, c), Slots)
           /\ \A j \in Slots : Paint(t, i, c).node[j].color = IF j = i THEN c ELSE t.node[j].color
<1>1. CASE i \in Slots
  <2>1. Fits("color", c) /\ "color" \in Fields
    BY FitsFacts DEF Fields
  <2>. DEFINE u == Put(t, i, "color", c)
  <2>2. /\ Typed(u)
        /\ u.root = t.root
        /\ u.size = t.size
        /\ \A j \in Slots, h \in Fields :
              u.node[j][h] = IF j = i /\ h = "color" THEN c ELSE t.node[j][h]
    BY <1>1, <2>1, PutFacts
  <2>. HIDE DEF u
  <2>3. Alike(t, u, Slots)
    BY <2>2 DEF Alike, Fields, Steering
  <2>4. \A j \in Slots : u.node[j].color = IF j = i THEN c ELSE t.node[j].color
    BY <2>1, <2>2
  <2>. QED  BY <2>2, <2>3, <2>4 DEF Paint, u
<1>2. CASE i \notin Slots
  <2>1. Paint(t, i, c) = t
    BY <1>2, PutNowhere DEF Paint
  <2>. QED  BY <1>2, <2>1 DEF Alike
<1>. QED  BY <1>1, <1>2

(* Painting keeps the invariant, whatever is painted.                      *)
LEMMA PaintGood ==
    ASSUME NEW t, NEW L, Good(t, L), NEW i, NEW c \in {"BLACK", "RED"}
    PROVE  Good(Paint(t, i, c), L)
<1>1. Typed(t) /\ L \subseteq Slots
  BY DEF Good, Links
<1>2. Typed(Paint(t, i, c)) /\ Alike(t, Paint(t, i, c), L)
  BY <1>1, PaintFacts DEF Alike
<1>. QED  BY <1>2, AlikeGood
-----------------------------------------------------------------------------
(* A node is not its own grandparent or great-grandparent: the search for  *)
(* its key would pass it twice.                                            *)
LEMMA NoCycle ==
    ASSUME NEW t, NEW L, Good(t, L), NEW x \in L, Up(t, x) # Nil
    PROVE  /\ x # t.root /\ Up(t, x) \in L
           /\ Up(t, x) # x
           /\ Up(t, Up(t, x)) \in L \cup {Nil}
           /\ Up(t, Up(t, x)) # x
           /\ Up(t, Up(t, x)) # Up(t, x)
           /\ Up(t, Up(t, x)) # Nil => Up(t, Up(t, Up(t, x))) # x
<1>. DEFINE k == KeyOf(t, x)
            P == Search(t, k)
            p == Up(t, x)
            g == Up(t, p)
            J == {n \in Nat : P[n] = x}
<1>0. Links(t, L) /\ Visits(t, k, x)
  BY DEF Good
<1>1. PICK n \in J : \A m \in J : n <= m
  <2>1. J \subseteq Nat /\ J # {}
    BY <1>0 DEF Visits
  <2>. HIDE DEF J
  <2>. QED  BY <2>1, SearchLoop!LeastNumber
<1>2. n \in Nat /\ P[n] = x /\ \A m \in Nat : m < n => P[m] # x
  BY <1>1
<1>3. x # t.root /\ p \in L /\ g \in L \cup {Nil}
  BY <1>0, LinkFacts
<1>4. PICK m \in Nat : m < n /\ P[m] = p
  BY <1>0, <1>2, <1>3, Came
<1>5. p # x
  BY <1>2, <1>4
<1>. HIDE DEF k, P, J
<1>6. CASE g = Nil
  BY <1>3, <1>5, <1>6, LinkFacts, <1>0
<1>7. CASE g # Nil
  <2>1. p # t.root
    BY <1>0, <1>3, <1>7, LinkFacts
  <2>2. /\ Child(t, k, g) = p
        /\ \E l \in Nat : l < m /\ P[l] = g
    BY <1>0, <1>3, <1>4, <2>1, Came DEF P
  <2>3. PICK l \in Nat : l < m /\ P[l] = g
    BY <2>2
  <2>4. g # x
    BY <1>2, <1>4, <2>3
  <2>5. g # p
    <3>1. Child(t, k, p) # p
      BY <1>0, <1>3, LinkFacts, TowardFacts
    <3>. QED  BY <2>2, <3>1
  <2>6. Up(t, g) # x
    <3>. SUFFICES ASSUME Up(t, g) = x  PROVE FALSE
      OBVIOUS
    <3>1. g # t.root /\ g \in L
      BY <1>0, <1>3, <1>7, LinkFacts
    <3>2. \E h \in Nat : h < l /\ P[h] = x
      BY <1>0, <2>3, <3>1, Came DEF P
    <3>. QED  BY <1>2, <1>4, <2>3, <3>2
  <2>. QED  BY <1>3, <1>5, <2>4, <2>5, <2>6
<1>. QED  BY <1>6, <1>7

(* A node is a child of its parent on one side, and every search that      *)
(* passes it turned to this side.                                          *)
LEMMA OnOneSide ==
    ASSUME NEW t, NEW L, Good(t, L), NEW x \in L, Up(t, x) # Nil
    PROVE  \E side \in Sides : /\ Down(t, Up(t, x), side) = x
                               /\ Down(t, Up(t, x), Other(side)) # x
                               /\ \A k : Visits(t, k, x) => Toward(t, k, Up(t, x)) = side
<1>. DEFINE p == Up(t, x)
<1>1. Links(t, L) /\ x # t.root /\ p \in L
  BY NoCycle DEF Good
<1>2. \A k : Visits(t, k, x) => Child(t, k, p) = x
  BY <1>1, VisitCame
<1>3. PICK side \in Sides : Down(t, p, side) = x
  BY <1>2, TowardFacts DEF Good
<1>4. x # Nil
  BY <1>1, LinkFacts
<1>5. Down(t, p, Other(side)) # x
  BY <1>1, <1>3, <1>4, LinkFacts
<1>. HIDE DEF p
<1>6. ASSUME NEW k, Visits(t, k, x)  PROVE Toward(t, k, p) = side
  <2>1. Down(t, p, Toward(t, k, p)) = x /\ Toward(t, k, p) \in Sides
    BY <1>2, <1>6, TowardFacts
  <2>2. \A s \in Sides : s = side \/ s = Other(side)
    BY DEF Sides, Other
  <2>. QED  BY <1>5, <2>1, <2>2
<1>. QED  BY <1>3, <1>5, <1>6 DEF p

(* The links after a rotation of x above its parent p, where g was above p *)
(* and c is the child that crosses over. None of the writes undoes another *)
(* one.                                                                    *)
LEMMA RotateFacts ==
    ASSUME NEW t, Typed(t), NEW x \in Slots, NEW side \in Sides,
           NEW p \in Slots, p = Up(t, x),
           NEW g \in Slots \cup {Nil}, g = Up(t, p),
           NEW c \in Slots \cup {Nil}, c = Down(t, x, Other(side)),
           p # x, g # p, g # x, c # x, c # p, c # Nil => c # g,
           Down(t, p, Other(side)) # x,
           NEW up, up = IF Down(t, g, "right") = p THEN "right" ELSE "left",
           NEW u, u = Rotate(t, x, side)
    PROVE  /\ Typed(u)
           /\ u.size = t.size
           /\ u.root = IF g = Nil THEN x ELSE t.root
           /\ \A j \in Slots :
                 /\ u.node[j].index = t.node[j].index
                 /\ KeyOf(u, j) = KeyOf(t, j)
                 /\ u.node[j].color = t.node[j].color
                 /\ Up(u, j) = IF j = x THEN g ELSE IF j = p THEN x
                               ELSE IF j = c THEN p ELSE Up(t, j)
                 /\ \A s \in Sides :
                       Down(u, j, s) = IF j = x /\ s = Other(side) THEN p
                                       ELSE IF j = p /\ s = side THEN c
                                       ELSE IF j = g /\ s = up THEN x
                                       ELSE Down(t, j, s)
<1>0. /\ Other(side) \in Fields /\ side \in Fields /\ up \in Fields /\ up \in Sides
      /\ "parent" \in Fields /\ Other(side) \in Sides /\ Nil \notin Slots
  BY SlotFacts DEF Other, Sides, Fields
<1>1. /\ Fits("parent", g) /\ Fits(Other(side), p) /\ Fits("parent", x) /\ Fits(side, c)
      /\ Fits("parent", p) /\ Fits(up, x)
  BY <1>0, FitsFacts
<1>2. PICK w0 : w0 = IF g = Nil THEN PutRoot(t, x) ELSE Put(t, g, up, x)
  OBVIOUS
<1>3. /\ Typed(w0) /\ w0.size = t.size /\ w0.root = IF g = Nil THEN x ELSE t.root
      /\ \A j \in Slots, h \in Fields :
            w0.node[j][h] = IF j = g /\ h = up THEN x ELSE t.node[j][h]
  <2>1. CASE g = Nil
    BY <1>0, <1>2, <2>1, PutRootFacts
  <2>2. CASE g # Nil
    <3>1. Written(t, w0, g, up, x)
      BY <1>0, <1>1, <1>2, <2>2, PutWrites
    <3>. QED  BY <2>2, <3>1 DEF Written
  <2>. QED  BY <2>1, <2>2
<1>4. PICK w1 : w1 = Put(w0, x, "parent", g)
  OBVIOUS
<1>5. PICK w2 : w2 = Put(w1, x, Other(side), p)
  OBVIOUS
<1>6. PICK w3 : w3 = Put(w2, p, "parent", x)
  OBVIOUS
<1>7. PICK w4 : w4 = Put(w3, p, side, c)
  OBVIOUS
<1>8. u = IF c = Nil THEN w4 ELSE Put(w4, c, "parent", p)
  <2>1. p # Nil
    BY <1>0
  <2>. QED  BY <1>2, <1>4, <1>5, <1>6, <1>7, <2>1 DEF Rotate, Turned, Crossing, Up, Down
<1>9. Written(w0, w1, x, "parent", g)
  BY <1>0, <1>1, <1>3, <1>4, PutWrites
<1>10. Written(w1, w2, x, Other(side), p)
  <2>1. Typed(w1)
    BY <1>9 DEF Written
  <2>. QED  BY <1>0, <1>1, <1>5, <2>1, PutWrites
<1>11. Written(w2, w3, p, "parent", x)
  <2>1. Typed(w2)
    BY <1>10 DEF Written
  <2>. QED  BY <1>0, <1>1, <1>6, <2>1, PutWrites
<1>12. Written(w3, w4, p, side, c)
  <2>1. Typed(w3)
    BY <1>11 DEF Written
  <2>. QED  BY <1>0, <1>1, <1>7, <2>1, PutWrites
<1>13. /\ Typed(u) /\ u.size = w4.size /\ u.root = w4.root
       /\ \A j \in Slots, h \in Fields :
             u.node[j][h] = IF j = c /\ h = "parent" THEN p ELSE w4.node[j][h]
  <2>1. CASE c = Nil
    BY <1>0, <1>8, <1>12, <2>1 DEF Written
  <2>2. CASE c # Nil
    <3>1. Typed(w4)
      BY <1>12 DEF Written
    <3>2. Written(w4, u, c, "parent", p)
      BY <1>0, <1>1, <1>8, <2>2, <3>1, PutWrites
    <3>. QED  BY <3>2 DEF Written
  <2>. QED  BY <2>1, <2>2
<1>14. side # "parent" /\ Other(side) # "parent" /\ up # "parent"
  BY <1>0 DEF Sides
<1>15. u.size = t.size /\ u.root = IF g = Nil THEN x ELSE t.root
  BY <1>3, <1>9, <1>10, <1>11, <1>12, <1>13 DEF Written
<1>16. ASSUME NEW j \in Slots, NEW h \in {"index", "Key", "color"}
       PROVE  u.node[j][h] = t.node[j][h]
  <2>1. h \in Fields /\ h \notin {side, Other(side), up, "parent"}
    BY <1>0 DEF Fields, Sides
  <2>. QED  BY <1>3, <1>9, <1>10, <1>11, <1>12, <1>13, <2>1 DEF Written
<1>17. ASSUME NEW j \in Slots
       PROVE  u.node[j]["parent"] = IF j = x THEN g ELSE IF j = p THEN x
                                    ELSE IF j = c THEN p ELSE t.node[j]["parent"]
  BY <1>0, <1>3, <1>9, <1>10, <1>11, <1>12, <1>13, <1>14 DEF Written
<1>18. ASSUME NEW j \in Slots, NEW s \in Sides
       PROVE  u.node[j][s] = IF j = x /\ s = Other(side) THEN p
                             ELSE IF j = p /\ s = side THEN c
                             ELSE IF j = g /\ s = up THEN x
                             ELSE t.node[j][s]
  <2>1. s \in Fields /\ s # "parent"
    BY DEF Sides, Fields
  <2>. QED  BY <1>3, <1>9, <1>10, <1>11, <1>12, <1>13, <2>1 DEF Written
<1>. QED  BY <1>13, <1>15, <1>16, <1>17, <1>18 DEF KeyOf, Up, Down

(* u is t after such a rotation, as far as L goes.                         *)
Turn(t, u, L, x, p, g, c, side, up) ==
    /\ Typed(u)
    /\ u.root = IF g = Nil THEN x ELSE t.root
    /\ \A j \in L :
          /\ u.node[j].index = t.node[j].index
          /\ KeyOf(u, j) = KeyOf(t, j)
          /\ u.node[j].color = t.node[j].color
          /\ Up(u, j) = IF j = x THEN g ELSE IF j = p THEN x
                        ELSE IF j = c THEN p ELSE Up(t, j)
          /\ \A s \in Sides :
                Down(u, j, s) = IF j = x /\ s = Other(side) THEN p
                                ELSE IF j = p /\ s = side THEN c
                                ELSE IF j = g /\ s = up THEN x
                                ELSE Down(t, j, s)

(* The nodes a rotation moves, as they are before it.                      *)
Around(t, L, x, p, g, c, side, up) ==
    /\ x \in L /\ p \in L /\ g \in L \cup {Nil} /\ c \in L \cup {Nil}
    /\ side \in Sides /\ up \in Sides
    /\ p = Up(t, x) /\ g = Up(t, p) /\ c = Down(t, x, Other(side))
    /\ p # x /\ g # p /\ g # x /\ c # x /\ c # p /\ (c # Nil => c # g /\ Up(t, c) = x)
    /\ Down(t, p, side) = x
    /\ Down(t, p, Other(side)) # x
    /\ g # Nil => Down(t, g, up) = p /\ Down(t, g, Other(up)) # p

(* A rotation of a node of a good tree is one.                             *)
LEMMA RotateTurns ==
    ASSUME NEW t, NEW L, Good(t, L), NEW x \in L, NEW side \in Sides,
           Up(t, x) # Nil, Down(t, Up(t, x), Other(side)) # x
    PROVE  \E p, g, c, up : /\ Around(t, L, x, p, g, c, side, up)
                            /\ Turn(t, Rotate(t, x, side), L, x, p, g, c, side, up)
<1>1. PICK p : p = Up(t, x)
  OBVIOUS
<1>2. PICK g : g = Up(t, p)
  OBVIOUS
<1>3. PICK c : c = Down(t, x, Other(side))
  OBVIOUS
<1>4. PICK up : up = IF Down(t, g, "right") = p THEN "right" ELSE "left"
  OBVIOUS
<1>5. Typed(t) /\ Links(t, L) /\ L \subseteq Slots
  BY DEF Good, Links
<1>6. /\ p \in L /\ p # x /\ g \in L \cup {Nil} /\ g # x /\ g # p
      /\ g # Nil => Up(t, g) # x
  BY <1>1, <1>2, NoCycle
<1>7. Other(side) \in Sides /\ up \in Sides
  BY <1>4, TowardFacts DEF Sides
<1>8. c \in L \cup {Nil} /\ c # x /\ (c # Nil => Up(t, c) = x)
  BY <1>3, <1>5, <1>7, LinkFacts
<1>9. c # p /\ (c # Nil => c # g)
  <2>1. p # Nil
    BY <1>5, <1>6, LinkFacts
  <2>. QED  BY <1>2, <1>6, <1>8, <2>1
<1>10. Down(t, p, side) = x
  <2>1. PICK s \in Sides : Down(t, p, s) = x
    BY <1>1, OnOneSide
  <2>2. s = side \/ s = Other(side)
    BY DEF Sides, Other
  <2>. QED  BY <1>1, <2>1, <2>2
<1>11. g # Nil => Down(t, g, up) = p /\ Down(t, g, Other(up)) # p
  <2>. SUFFICES ASSUME g # Nil  PROVE Down(t, g, up) = p /\ Down(t, g, Other(up)) # p
    OBVIOUS
  <2>1. PICK s \in Sides : Down(t, g, s) = p /\ Down(t, g, Other(s)) # p
    BY <1>2, <1>6, OnOneSide
  <2>2. s = up
    BY <1>4, <2>1 DEF Sides, Other
  <2>. QED  BY <2>1, <2>2
<1>12. Around(t, L, x, p, g, c, side, up)
  BY <1>1, <1>2, <1>3, <1>6, <1>7, <1>8, <1>9, <1>10, <1>11 DEF Around
<1>13. PICK u : u = Rotate(t, x, side)
  OBVIOUS
<1>14. x \in Slots /\ p \in Slots /\ g \in Slots \cup {Nil} /\ c \in Slots \cup {Nil}
  BY <1>5, <1>6, <1>8
<1>15. Turn(t, u, L, x, p, g, c, side, up)
  <2>1. Down(t, p, Other(side)) # x
    BY <1>1
  <2>2. /\ Typed(u)
        /\ u.size = t.size
        /\ u.root = IF g = Nil THEN x ELSE t.root
        /\ \A j \in Slots :
              /\ u.node[j].index = t.node[j].index
              /\ KeyOf(u, j) = KeyOf(t, j)
              /\ u.node[j].color = t.node[j].color
              /\ Up(u, j) = IF j = x THEN g ELSE IF j = p THEN x
                            ELSE IF j = c THEN p ELSE Up(t, j)
              /\ \A s \in Sides :
                    Down(u, j, s) = IF j = x /\ s = Other(side) THEN p
                                    ELSE IF j = p /\ s = side THEN c
                                    ELSE IF j = g /\ s = up THEN x
                                    ELSE Down(t, j, s)
    BY <1>1, <1>2, <1>3, <1>4, <1>5, <1>6, <1>8, <1>9, <1>13, <1>14, <2>1, RotateFacts
  <2>. QED  BY <1>5, <2>2 DEF Turn
<1>. QED  BY <1>12, <1>13, <1>15

(* It leaves linked nodes.                                                 *)
LEMMA TurnLinks ==
    ASSUME NEW t, NEW u, NEW L, Good(t, L), NEW x, NEW p, NEW g, NEW c, NEW side, NEW up,
           Around(t, L, x, p, g, c, side, up), Turn(t, u, L, x, p, g, c, side, up)
    PROVE  Links(u, L)
<1>1. Links(t, L) /\ L \subseteq Slots /\ Nil \notin L
  BY SlotFacts DEF Good, Links
<1>. USE DEF Around, Turn
<1>2. x # Nil /\ p # Nil /\ x # t.root /\ (g # Nil => p # t.root) /\ (g = Nil => p = t.root)
      /\ (c # Nil => c # t.root)
  BY <1>1, LinkFacts
<1>3. t.root \in L \cup {Nil}
  BY <1>1 DEF Links
<1>4. ASSUME NEW i \in L
      PROVE  /\ KeyOf(u, i) \in Nat
             /\ u.node[i].index = i
             /\ Up(u, i) \in L \cup {Nil}
             /\ Up(u, i) = Nil <=> i = u.root
  <2>1. KeyOf(t, i) \in Nat /\ t.node[i].index = i /\ Up(t, i) \in L \cup {Nil}
        /\ (Up(t, i) = Nil <=> i = t.root)
    BY <1>1 DEF Links
  <2>. QED  BY <1>1, <1>2, <2>1
<1>5. ASSUME NEW i \in L, NEW s \in Sides
      PROVE  /\ Down(u, i, s) \in (L \cup {Nil}) \ {i}
             /\ Down(u, i, s) # Nil => Up(u, Down(u, i, s)) = i
             /\ Down(u, i, s) = Down(u, i, Other(s)) => Down(u, i, s) = Nil
  <2>1. /\ Down(t, i, s) \in (L \cup {Nil}) \ {i}
        /\ Down(t, i, s) # Nil => Up(t, Down(t, i, s)) = i
        /\ Down(t, i, s) = Down(t, i, Other(s)) => Down(t, i, s) = Nil
        /\ Down(t, i, Other(s)) \in L \cup {Nil}
        /\ Down(t, i, Other(s)) # Nil => Up(t, Down(t, i, Other(s))) = i
        /\ Other(s) \in Sides /\ Other(s) # s /\ Other(Other(s)) = s
    BY <1>1, LinkFacts, TowardFacts DEF Links
  <2>2. /\ Down(u, i, s) = IF i = x /\ s = Other(side) THEN p
                           ELSE IF i = p /\ s = side THEN c
                           ELSE IF i = g /\ s = up THEN x
                           ELSE Down(t, i, s)
        /\ Down(u, i, Other(s)) = IF i = x /\ Other(s) = Other(side) THEN p
                           ELSE IF i = p /\ Other(s) = side THEN c
                           ELSE IF i = g /\ Other(s) = up THEN x
                           ELSE Down(t, i, Other(s))
    BY <2>1
  <2>3. (s = side \/ s = Other(side)) /\ (s = up \/ s = Other(up)) /\ (Other(side) # side)
        /\ Other(Other(side)) = side /\ Other(up) # up /\ Other(Other(up)) = up
    BY DEF Sides, Other
  <2>4. Down(u, i, s) \in (L \cup {Nil}) \ {i}
    BY <2>1, <2>2
  <2>5. Down(u, i, s) # Nil => Up(u, Down(u, i, s)) = i
    <3>. SUFFICES ASSUME Down(u, i, s) # Nil  PROVE Up(u, Down(u, i, s)) = i
      OBVIOUS
    <3>1. CASE i = x
      <4>1. CASE s = Other(side)
        BY <1>2, <2>2, <3>1, <4>1
      <4>2. CASE s = side
        <5>1. Down(u, x, side) = Down(t, x, side)
          BY <2>2, <2>3, <3>1, <4>2
        <5>2. Down(t, x, side) # c /\ Down(t, x, side) # p /\ Down(t, x, side) # x
              /\ Down(t, x, side) \in L /\ Up(t, Down(t, x, side)) = x
          BY <2>1, <3>1, <4>2, <5>1
        <5>. QED  BY <3>1, <4>2, <5>1, <5>2
      <4>. QED  BY <2>3, <4>1, <4>2
    <3>2. CASE i = p
      <4>1. CASE s = side
        BY <1>2, <2>2, <2>3, <3>2, <4>1
      <4>2. CASE s = Other(side)
        <5>1. Down(u, p, s) = Down(t, p, s)
          BY <2>2, <2>3, <3>2, <4>2
        <5>2. Down(t, p, s) # c /\ Down(t, p, s) # p /\ Down(t, p, s) # x
              /\ Down(t, p, s) \in L /\ Up(t, Down(t, p, s)) = p
          BY <1>2, <2>1, <3>2, <4>2, <5>1
        <5>. QED  BY <3>2, <5>1, <5>2
      <4>. QED  BY <2>3, <4>1, <4>2
    <3>3. CASE i = g
      <4>1. CASE s = up
        BY <2>2, <3>3, <4>1
      <4>2. CASE s = Other(up)
        <5>1. Down(u, g, s) = Down(t, g, s)
          BY <2>2, <2>3, <3>3, <4>2
        <5>2. Down(t, g, s) # c /\ Down(t, g, s) # p /\ Down(t, g, s) # x
              /\ Down(t, g, s) \in L /\ Up(t, Down(t, g, s)) = g
          BY <1>1, <2>1, <3>3, <4>2, <5>1
        <5>. QED  BY <3>3, <5>1, <5>2
      <4>. QED  BY <2>3, <4>1, <4>2
    <3>4. CASE i \notin {x, p, g}
      <4>1. Down(u, i, s) = Down(t, i, s)
        BY <2>2, <3>4
      <4>2. Down(t, i, s) # c /\ Down(t, i, s) # p /\ Down(t, i, s) # x
            /\ Down(t, i, s) \in L /\ Up(t, Down(t, i, s)) = i
        BY <2>1, <3>4, <4>1
      <4>. QED  BY <4>1, <4>2
    <3>. QED  BY <3>1, <3>2, <3>3, <3>4
  <2>6. Down(u, i, s) = Down(u, i, Other(s)) => Down(u, i, s) = Nil
    <3>1. CASE i = x
      <4>1. Down(t, x, side) # p
        BY <1>1, <1>2, LinkFacts
      <4>. QED  BY <2>1, <2>2, <2>3, <3>1, <4>1
    <3>2. CASE i = p
      <4>1. c # Nil => Down(t, p, Other(side)) # c
        BY <1>1, <1>2, <2>1, <2>3, <3>2, LinkFacts
      <4>. QED  BY <2>1, <2>2, <2>3, <3>2, <4>1
    <3>3. CASE i = g
      <4>1. Down(t, g, Other(up)) # x
        BY <1>1, <1>2, <2>1, <2>3, <3>3, LinkFacts
      <4>. QED  BY <2>1, <2>2, <2>3, <3>3, <4>1
    <3>4. CASE i \notin {x, p, g}
      BY <2>1, <2>2, <3>4
    <3>. QED  BY <3>1, <3>2, <3>3, <3>4
  <2>. QED  BY <2>4, <2>5, <2>6
<1>6. u.root \in L \cup {Nil}
  BY <1>3
<1>. QED  BY <1>1, <1>4, <1>5, <1>6 DEF Links

(* The order of the keys at both ends of the turned link.                  *)
LEMMA Cross ==
    ASSUME NEW t, NEW x, NEW p, NEW k \in Nat, NEW side \in Sides,
           KeyOf(t, x) \in Nat, KeyOf(t, p) \in Nat, KeyOf(t, x) # KeyOf(t, p),
           Toward(t, KeyOf(t, x), p) = side
    PROVE  /\ Toward(t, k, p) = Other(side) => Toward(t, k, x) = Other(side) /\ k # KeyOf(t, x)
           /\ Toward(t, KeyOf(t, p), x) = Other(side)
<1>1. CASE side = "left"
  BY <1>1 DEF Toward, Other
<1>2. CASE side = "right"
  BY <1>2 DEF Toward, Other
<1>. QED  BY <1>1, <1>2 DEF Sides

(* VisitStep, in terms of Down.                                            *)
LEMMA StepDown ==
    ASSUME NEW t, NEW L, Links(t, L), NEW k, NEW y \in L, Visits(t, k, y), KeyOf(t, y) # k
    PROVE  Visits(t, k, Down(t, y, Toward(t, k, y)))
BY VisitStep, TowardFacts

(* After a rotation every search passes the nodes it passed before, but    *)
(* the old parent p only if it has not ended at x.                         *)
LEMMA TurnVisits ==
    ASSUME NEW t, NEW u, NEW L, Good(t, L), NEW x, NEW p, NEW g, NEW c, NEW side, NEW up,
           Around(t, L, x, p, g, c, side, up), Turn(t, u, L, x, p, g, c, side, up),
           NEW k \in Nat, NEW y \in L, Visits(t, k, y)
    PROVE  /\ y # p => Visits(u, k, y)
           /\ y = p => Visits(u, k, x)
<1>. DEFINE S == {z \in L : /\ z # p => Visits(u, k, z)
                            /\ z = p => Visits(u, k, x)}
<1>1. Links(t, L) /\ Links(u, L) /\ L \subseteq Slots /\ Nil \notin L
  BY TurnLinks, SlotFacts DEF Good, Links
<1>2. /\ x \in L /\ p \in L /\ g \in L \cup {Nil} /\ c \in L \cup {Nil} /\ side \in Sides
      /\ p = Up(t, x) /\ g = Up(t, p) /\ c = Down(t, x, Other(side))
      /\ p # x /\ g # p /\ g # x
      /\ Down(t, p, side) = x /\ Down(t, p, Other(side)) # x
      /\ g # Nil => Down(t, g, up) = p /\ Down(t, g, Other(up)) # p
      /\ up \in Sides
  BY DEF Around
<1>3. /\ u.root = IF g = Nil THEN x ELSE t.root
      /\ \A j \in L : KeyOf(u, j) = KeyOf(t, j)
      /\ \A j \in L, s \in Sides :
            Down(u, j, s) = IF j = x /\ s = Other(side) THEN p
                            ELSE IF j = p /\ s = side THEN c
                            ELSE IF j = g /\ s = up THEN x
                            ELSE Down(t, j, s)
  BY DEF Turn
<1>4. /\ KeyOf(t, x) \in Nat /\ KeyOf(t, p) \in Nat /\ KeyOf(t, x) # KeyOf(t, p)
      /\ Toward(t, KeyOf(t, x), p) = side
      /\ \A h : Visits(t, h, x) => Toward(t, h, p) = side
  <2>1. KeyOf(t, x) \in Nat /\ KeyOf(t, p) \in Nat
    BY <1>1, <1>2, LinkFacts
  <2>2. KeyOf(t, x) # KeyOf(t, p)
    BY <1>2, GoodFinds
  <2>3. p # Nil
    BY <1>1, <1>2
  <2>4. PICK s \in Sides : Down(t, p, s) = x /\ \A h : Visits(t, h, x) => Toward(t, h, p) = s
    BY <1>2, <2>3, OnOneSide
  <2>5. s = side
    BY <1>2, <2>4 DEF Sides, Other
  <2>6. Visits(t, KeyOf(t, x), x)
    BY <1>2 DEF Good
  <2>. QED  BY <2>1, <2>2, <2>4, <2>5, <2>6
<1>5. \A s \in Sides : (s = side \/ s = Other(side)) /\ (s = up \/ s = Other(up))
  BY <1>2 DEF Sides, Other
<1>6. /\ Other(side) \in Sides /\ Other(side) # side /\ Other(up) # up
  BY <1>2, TowardFacts
<1>7. \A j \in L : Toward(u, k, j) = Toward(t, k, j)
  BY <1>3 DEF Toward
<1>8. t.root \in L => t.root \in S
  <2>. SUFFICES ASSUME t.root \in L  PROVE t.root \in S
    OBVIOUS
  <2>1. CASE g = Nil
    <3>1. t.root = p
      <4>1. p \in L /\ Up(t, p) = Nil
        BY <1>2, <2>1
      <4>. QED  BY <1>1, <4>1, LinkFacts
    <3>. QED  BY <1>2, <1>3, <2>1, <3>1, VisitRoot
  <2>2. CASE g # Nil
    <3>1. t.root # p
      BY <1>1, <1>2, <2>2, LinkFacts
    <3>. QED  BY <1>3, <2>2, <3>1, VisitRoot
  <2>. QED  BY <2>1, <2>2
<1>9. ASSUME NEW z \in S, Visits(t, k, z), KeyOf(t, z) # k, Child(t, k, z) \in L
      PROVE  Child(t, k, z) \in S
  <2>. DEFINE s == Toward(t, k, z)
              w == Child(t, k, z)
  <2>1. z \in L /\ s \in Sides /\ w = Down(t, z, s) /\ w \in L /\ w # Nil
    BY <1>1, <1>9, TowardFacts
  <2>2. Up(t, w) = z
    BY <1>1, <2>1, LinkFacts
  <2>3. ASSUME NEW j \in L, Visits(u, k, j), KeyOf(t, j) # k
        PROVE  Visits(u, k, Down(u, j, Toward(t, k, j)))
    BY <1>1, <1>3, <1>7, <2>3, StepDown
  <2>4. Toward(t, k, z) = s
    OBVIOUS
  <2>. HIDE DEF s, w
  <2>5. CASE z = p
    <3>1. Visits(u, k, x)
      BY <1>9, <2>5
    <3>2. CASE s = side
      <4>1. w = x
        BY <1>2, <2>1, <2>5, <3>2
      <4>. QED  BY <1>2, <3>1, <4>1 DEF w
    <3>3. CASE s = Other(side)
      <4>1. Toward(t, k, p) = Other(side)
        BY <2>4, <2>5, <3>3
      <4>2. Toward(t, k, x) = Other(side) /\ k # KeyOf(t, x)
        BY <1>2, <1>4, <4>1, Cross
      <4>3. Down(u, x, Other(side)) = p
        BY <1>2, <1>3, <1>6
      <4>4. Visits(u, k, p)
        BY <1>2, <2>3, <3>1, <4>2, <4>3
      <4>5. Visits(u, k, Down(u, p, Other(side)))
        BY <1>2, <1>9, <2>3, <2>5, <4>1, <4>4
      <4>6. Down(u, p, Other(side)) = w
        BY <1>2, <1>3, <1>6, <2>1, <2>5, <3>3
      <4>7. w # p
        BY <1>1, <2>1, <2>5, LinkFacts
      <4>. QED  BY <2>1, <4>5, <4>6, <4>7 DEF w
    <3>. QED  BY <1>5, <2>1, <3>2, <3>3
  <2>6. CASE z = x
    <3>1. Visits(u, k, x)
      BY <1>2, <1>9, <2>6
    <3>2. Toward(t, k, p) = side
      BY <1>4, <1>9, <2>6
    <3>3. w # p
      BY <1>2, <2>2, <2>6
    <3>4. CASE s = side
      <4>1. Down(u, x, Toward(t, k, x)) = w
        BY <1>2, <1>3, <1>6, <2>1, <2>4, <2>6, <3>4
      <4>2. Visits(u, k, w)
        BY <1>2, <1>9, <2>3, <2>6, <3>1, <4>1
      <4>. QED  BY <2>1, <3>3, <4>2 DEF w
    <3>5. CASE s = Other(side)
      <4>1. w = c
        BY <1>2, <2>1, <2>6, <3>5
      <4>2. Visits(u, k, p)
        <5>1. Down(u, x, Toward(t, k, x)) = p
          BY <1>2, <1>3, <1>6, <2>4, <2>6, <3>5
        <5>. QED  BY <1>2, <1>9, <2>3, <2>6, <3>1, <5>1
      <4>3. KeyOf(t, p) # k
        <5>1. x # t.root
          BY <1>1, <1>2, LinkFacts
        <5>. QED  BY <1>1, <1>2, <1>9, <2>6, <5>1, VisitCame
      <4>4. Visits(u, k, Down(u, p, side))
        BY <1>2, <2>3, <3>2, <4>2, <4>3
      <4>5. Down(u, p, side) = c
        BY <1>2, <1>3, <1>6
      <4>. QED  BY <2>1, <3>3, <4>1, <4>4, <4>5 DEF w
    <3>. QED  BY <1>5, <2>1, <3>4, <3>5
  <2>7. CASE z = g
    <3>1. Visits(u, k, Down(u, g, s))
      BY <1>2, <1>9, <2>1, <2>3, <2>4, <2>7
    <3>2. CASE s = up
      <4>1. w = p /\ Down(u, g, s) = x
        BY <1>1, <1>2, <1>3, <2>1, <2>7, <3>2
      <4>. QED  BY <1>2, <3>1, <4>1 DEF w
    <3>3. CASE s = Other(up)
      <4>1. w # p /\ Down(u, g, s) = w
        BY <1>1, <1>2, <1>3, <1>6, <2>1, <2>7, <3>3
      <4>. QED  BY <2>1, <3>1, <4>1 DEF w
    <3>. QED  BY <1>5, <2>1, <3>2, <3>3
  <2>8. CASE z \notin {x, p, g}
    <3>1. Down(u, z, s) = w
      BY <1>3, <2>1, <2>8
    <3>2. Visits(u, k, w)
      BY <1>9, <2>1, <2>3, <2>4, <2>8, <3>1
    <3>3. w # p
      BY <1>2, <2>2, <2>8
    <3>. QED  BY <2>1, <3>2, <3>3 DEF w
  <2>. QED  BY <2>5, <2>6, <2>7, <2>8
<1>10. y \in S
  <2>. HIDE DEF S
  <2>. QED  BY <1>1, <1>8, <1>9, VisitsWithin
<1>. QED  BY <1>10

(* So every search for a key in the tree still finds its node.             *)
LEMMA TurnGood ==
    ASSUME NEW t, NEW u, NEW L, Good(t, L), NEW x, NEW p, NEW g, NEW c, NEW side, NEW up,
           Around(t, L, x, p, g, c, side, up), Turn(t, u, L, x, p, g, c, side, up)
    PROVE  Good(u, L)
<1>1. Links(u, L) /\ Links(t, L) /\ Typed(u)
  BY TurnLinks DEF Good, Turn
<1>2. /\ x \in L /\ p \in L /\ p = Up(t, x) /\ p # x /\ side \in Sides /\ Down(t, p, side) = x
      /\ Down(t, p, Other(side)) # x
  BY DEF Around
<1>3. \A j \in L : KeyOf(u, j) = KeyOf(t, j) /\ KeyOf(t, j) \in Nat
  BY <1>1, LinkFacts DEF Turn
<1>4. ASSUME NEW l \in L  PROVE Visits(u, KeyOf(u, l), l)
  <2>. DEFINE k == KeyOf(t, l)
  <2>1. Visits(t, k, l) /\ k \in Nat
    BY <1>3 DEF Good
  <2>2. CASE l # p
    BY <1>3, <2>1, <2>2, TurnVisits
  <2>3. CASE l = p
    <3>1. Visits(u, k, x)
      BY <2>1, <2>3, TurnVisits
    <3>2. Toward(t, KeyOf(t, x), p) = side
      <4>1. p # Nil /\ Visits(t, KeyOf(t, x), x)
        BY <1>1, <1>2, LinkFacts DEF Good
      <4>2. PICK s \in Sides : Down(t, p, s) = x /\ Toward(t, KeyOf(t, x), p) = s
        BY <1>2, <4>1, OnOneSide
      <4>3. s = side
        BY <1>2, <4>2 DEF Sides, Other
      <4>. QED  BY <4>2, <4>3
    <3>3. KeyOf(t, x) # k
      BY <1>2, <2>3, GoodFinds
    <3>4. Toward(t, k, x) = Other(side)
      BY <1>2, <1>3, <2>3, <3>2, <3>3, Cross
    <3>5. Toward(u, k, x) = Other(side)
      BY <1>2, <1>3, <3>4 DEF Toward
    <3>6. Down(u, x, Other(side)) = p
      BY <1>2, TowardFacts DEF Turn
    <3>7. Visits(u, k, p)
      <4>1. KeyOf(u, x) # k
        BY <1>2, <1>3, <3>3
      <4>. HIDE DEF k
      <4>. QED  BY <1>1, <1>2, <3>1, <3>5, <3>6, <4>1, StepDown
    <3>. QED  BY <1>3, <2>3, <3>7
  <2>. QED  BY <2>2, <2>3
<1>. QED  BY <1>1, <1>4 DEF Good

(* A rotation keeps the invariant, also one that returns early, wherever   *)
(* in the tree and whatever the colours.                                   *)
LEMMA RotateGood ==
    ASSUME NEW t, NEW L, Good(t, L), NEW x \in L, NEW side \in Sides
    PROVE  Good(Rotate(t, x, side), L)
<1>1. CASE Up(t, x) = Nil \/ Down(t, Up(t, x), Other(side)) = x
  <2>1. Rotate(t, x, side) = t
    BY <1>1 DEF Rotate, Up, Down
  <2>. QED  BY <2>1
<1>2. CASE ~ (Up(t, x) = Nil \/ Down(t, Up(t, x), Other(side)) = x)
  BY <1>2, RotateTurns, TurnGood
<1>. QED  BY <1>1, <1>2
-----------------------------------------------------------------------------
(* Restructuring keeps the invariant.                                      *)
LEMMA RestructuringGood ==
    ASSUME NEW t, NEW L, Good(t, L), NEW x \in L, Up(t, x) # Nil
    PROVE  Good(Restructuring(t, x), L)
<1>. DEFINE p == Up(t, x)
            g == Up(t, p)
            side == SideOf(t, x)
            one == Rotate(t, p, SideOf(t, x))
            two == Rotate(Rotate(t, x, SideOf(t, x)), x, Other(SideOf(t, x)))
<1>1. p \in L
  BY NoCycle
<1>2. side \in Sides /\ Other(side) \in Sides
  BY SideTypes
<1>3. Good(Rotate(t, x, side), L)
  BY <1>2, RotateGood
<1>4. Good(one, L) /\ Good(two, L)
  BY <1>1, <1>2, <1>3, RotateGood
<1>. HIDE DEF one, two
<1>5. ASSUME NEW w, Good(w, L), NEW i, NEW j
      PROVE  Good(Paint(Paint(w, i, "BLACK"), j, "RED"), L)
  <2>1. Good(Paint(w, i, "BLACK"), L)
    BY <1>5, PaintGood
  <2>. QED  BY <2>1, PaintGood
<1>6. \/ Restructuring(t, x) = t
      \/ Restructuring(t, x) = Paint(Paint(two, x, "BLACK"), g, "RED")
      \/ Restructuring(t, x) = Paint(Paint(one, p, "BLACK"), g, "RED")
  <2>1. CASE g = Nil
    BY <2>1 DEF Restructuring, Up
  <2>2. CASE g # Nil /\ t.node[g][Other(side)] = p
    BY <2>2 DEF Restructuring, Up, two
  <2>3. CASE g # Nil /\ t.node[g][Other(side)] # p
    BY <2>3 DEF Restructuring, Up, one
  <2>. QED  BY <2>1, <2>2, <2>3
<1>. QED  BY <1>4, <1>5, <1>6

(* Another painting.                                                       *)
LEMMA PaintAlike ==
    ASSUME NEW t, NEW L, Good(t, L), NEW u, Good(u, L), Alike(t, u, L),
           NEW i, NEW c \in {"BLACK", "RED"}
    PROVE  Good(Paint(u, i, c), L) /\ Alike(t, Paint(u, i, c), L)
<1>1. Typed(u) /\ L \subseteq Slots
  BY DEF Good, Links
<1>2. Alike(u, Paint(u, i, c), Slots)
  BY <1>1, PaintFacts
<1>3. Alike(t, Paint(u, i, c), L)
  BY <1>1, <1>2 DEF Alike
<1>. QED  BY <1>3, PaintGood

(* One call of CheckTree keeps the invariant; it goes on only at the       *)
(* grandparent, and then has changed colours only.                         *)
LEMMA CheckTurnGood ==
    ASSUME NEW L, NEW s, Good(s.tree, L), s.at = Returned \/ s.at \in L,
           NEW r, r = CheckTurn(Nil, s)
    PROVE  /\ Good(r.tree, L)
           /\ \/ r.at = Returned
              \/ /\ s.at \in L
                 /\ r.at \in L
                 /\ Up(s.tree, s.at) \in L
                 /\ r.at = Up(s.tree, Up(s.tree, s.at))
                 /\ Alike(s.tree, r.tree, L)
<1>1. CASE s.at = Returned
  BY <1>1 DEF CheckTurn
<1>2. CASE s.at \in L /\ s.at # Returned
  <2>. DEFINE t == s.tree
              x == s.at
              p == Up(t, x)
              g == Up(t, p)
              u == t.node[g][Other(SideOf(t, p))]
              c == IF g = t.root THEN "BLACK" ELSE "RED"
              painted == Paint(Paint(Paint(t, u, "BLACK"), p, "BLACK"), g, c)
  <2>1. \/ r = [tree |-> t, at |-> Returned]
        \/ p # Nil /\ r = [tree |-> Restructuring(t, x), at |-> Returned]
        \/ p # Nil /\ g # Nil /\ r = [tree |-> painted, at |-> g]
    BY <1>2 DEF CheckTurn, Up
  <2>2. CASE r = [tree |-> t, at |-> Returned]
    BY <2>2
  <2>3. CASE p # Nil /\ r = [tree |-> Restructuring(t, x), at |-> Returned]
    <3>1. Good(Restructuring(t, x), L)
      BY <1>2, <2>3, RestructuringGood
    <3>. QED  BY <2>3, <3>1
  <2>4. CASE p # Nil /\ g # Nil /\ r = [tree |-> painted, at |-> g]
    <3>1. Good(t, L) /\ Alike(t, t, L) /\ c \in {"BLACK", "RED"}
      BY DEF Alike
    <3>. HIDE DEF c, u
    <3>2. PICK w : w = Paint(t, u, "BLACK")
      OBVIOUS
    <3>3. PICK v : v = Paint(w, p, "BLACK")
      OBVIOUS
    <3>4. Good(w, L) /\ Alike(t, w, L)
      BY <3>1, <3>2, PaintAlike
    <3>5. Good(v, L) /\ Alike(t, v, L)
      BY <3>1, <3>3, <3>4, PaintAlike
    <3>6. Good(Paint(v, g, c), L) /\ Alike(t, Paint(v, g, c), L)
      BY <3>1, <3>5, PaintAlike
    <3>7. painted = Paint(v, g, c)
      BY <3>2, <3>3
    <3>8. p \in L /\ g \in L
      BY <1>2, <2>4, NoCycle
    <3>9. r.tree = Paint(v, g, c) /\ r.at = g
      BY <2>4, <3>7
    <3>. QED  BY <1>2, <3>6, <3>8, <3>9
  <2>. QED  BY <2>1, <2>2, <2>3, <2>4
<1>. QED  BY <1>1, <1>2

(* CheckTree keeps the invariant, and it ends: each call of itself is two  *)
(* nodes nearer to the root.                                               *)
LEMMA CheckTreeGood ==
    ASSUME NEW t, NEW L, Good(t, L), NEW x \in L
    PROVE  /\ Good(CheckTree(t, x), L)
           /\ \E n \in Nat :
                 LET s == CheckLoop!Run(Nil, [tree |-> t, at |-> x])[n]
                 IN  s.at = Returned /\ s.tree = CheckTree(t, x)
<1>. DEFINE start == [tree |-> t, at |-> x]
            R == CheckLoop!Run(Nil, start)
            k == KeyOf(t, x)
            P == Search(t, k)
            A(n) == /\ R[n].at \in L
                    /\ Alike(t, R[n].tree, L)
                    /\ \E m \in Nat : m + 2 * n <= MaxTurns /\ P[m] = R[n].at
            T == {n \in Nat : Good(R[n].tree, L) /\ (R[n].at = Returned \/ A(n))}
<1>0. MaxTurns \in Nat /\ Links(t, L)
  BY MaxTurnsType DEF Good
<1>1. R[0] = start /\ \A n \in Nat : R[n + 1] = CheckTurn(Nil, R[n])
  BY CheckLoop!RunSteps
<1>2. P[MaxTurns] = x
  BY GoodFinds
<1>3. start.tree = t /\ start.at = x
  OBVIOUS
<1>. HIDE DEF R, start, k, P
<1>4. 0 \in T
  <2>1. Alike(t, t, L) /\ MaxTurns + 2 * 0 <= MaxTurns
    BY <1>0 DEF Alike
  <2>2. A(0)
    BY <1>0, <1>1, <1>2, <1>3, <2>1
  <2>. QED  BY <1>1, <1>3, <2>2
<1>5. ASSUME NEW n \in Nat, n \in T  PROVE n + 1 \in T
  <2>1. Good(R[n].tree, L) /\ (R[n].at = Returned \/ A(n))
    BY <1>5
  <2>2. PICK s : s = R[n]
    OBVIOUS
  <2>3. PICK r : r = R[n + 1]
    OBVIOUS
  <2>4. /\ Good(r.tree, L)
        /\ \/ r.at = Returned
           \/ /\ s.at \in L
              /\ r.at \in L
              /\ Up(s.tree, s.at) \in L
              /\ r.at = Up(s.tree, Up(s.tree, s.at))
              /\ Alike(s.tree, r.tree, L)
    <3>1. r = CheckTurn(Nil, s)
      BY <1>1, <2>2, <2>3
    <3>2. Good(s.tree, L) /\ (s.at = Returned \/ s.at \in L)
      BY <2>1, <2>2
    <3>. QED  BY <3>1, <3>2, CheckTurnGood
  <2>5. CASE r.at = Returned
    BY <2>3, <2>4, <2>5
  <2>6. CASE /\ s.at \in L
             /\ r.at \in L
             /\ Up(s.tree, s.at) \in L
             /\ r.at = Up(s.tree, Up(s.tree, s.at))
             /\ Alike(s.tree, r.tree, L)
    <3>1. A(n)
      <4>1. s.at # Returned
        BY <1>0, <2>6, LinkFacts DEF Returned
      <4>. QED  BY <2>1, <2>2, <4>1
    <3>2. PICK m \in Nat : m + 2 * n <= MaxTurns /\ P[m] = s.at
      BY <2>2, <3>1
    <3>3. Alike(t, s.tree, L)
      BY <2>2, <3>1
    <3>. DEFINE y == s.at
                p == Up(t, y)
                g == Up(t, p)
    <3>4. /\ Up(s.tree, y) = p /\ p \in L
          /\ Up(s.tree, p) = g /\ g \in L
          /\ r.at = g
      <4>1. Up(s.tree, y) = p /\ p \in L
        BY <2>6, <3>3, AlikeFacts
      <4>2. Up(s.tree, p) = g
        BY <3>3, <4>1, AlikeFacts
      <4>. QED  BY <2>6, <4>1, <4>2
    <3>5. y # t.root /\ p # t.root /\ y \in L
      <4>1. p # Nil /\ g # Nil /\ y \in L
        <5>1. Nil \notin L
          BY <1>0, SlotFacts DEF Links
        <5>. QED  BY <2>6, <3>4, <5>1
      <4>2. Up(t, y) = p /\ Up(t, p) = g
        OBVIOUS
      <4>. HIDE DEF y, p, g
      <4>. QED  BY <1>0, <3>4, <4>1, <4>2, LinkFacts
    <3>. HIDE DEF y, p, g
    <3>6. PICK m1 \in Nat : m1 < m /\ P[m1] = p
      BY <1>0, <3>2, <3>5, Came DEF P, y, p
    <3>7. PICK m2 \in Nat : m2 < m1 /\ P[m2] = g
      BY <1>0, <3>4, <3>5, <3>6, Came DEF P, g
    <3>8. m2 + 2 * (n + 1) <= MaxTurns
      BY <1>0, <3>2, <3>6, <3>7
    <3>9. Alike(t, r.tree, L)
      BY <2>6, <3>3 DEF Alike
    <3>10. A(n + 1)
      BY <2>3, <2>6, <3>4, <3>7, <3>8, <3>9
    <3>. QED  BY <2>3, <2>4, <3>10
  <2>. QED  BY <2>4, <2>5, <2>6
<1>6. MaxTurns \in T
  <2>. HIDE DEF T
  <2>. QED  BY <1>0, <1>4, <1>5, CheckLoop!SetInduction
<1>7. R[MaxTurns].at = Returned
  <2>. SUFFICES ASSUME A(MaxTurns)  PROVE FALSE
    BY <1>6
  <2>1. PICK m \in Nat : m + 2 * MaxTurns <= MaxTurns
    OBVIOUS
  <2>2. MaxTurns > 0
    BY MaxTurnsType DEF MaxTurns
  <2>. QED  BY <1>0, <2>1, <2>2
<1>8. CheckTree(t, x) = R[MaxTurns].tree
  BY <1>7, CheckLoop!ResultIs DEF CheckTree, R, start, RepairOver
<1>9. Good(CheckTree(t, x), L)
  BY <1>6, <1>8
<1>. QED  BY <1>0, <1>7, <1>8, <1>9 DEF R, start
-----------------------------------------------------------------------------
(* The nodes that the search for the key of i passes.                      *)
OnPath(t, L, i) == {y \in L : Visits(t, KeyOf(t, i), y)}

(* u has node p red and deeper down than t.                                *)
Deepened(t, u, L, p) ==
    /\ u.node[p].color = "RED"
    /\ \E b \in L : b \notin OnPath(t, L, p) /\ OnPath(t, L, p) \cup {b} \subseteq OnPath(u, L, p)

(* Two paintings.                                                          *)
LEMMA PaintTwice ==
    ASSUME NEW t, NEW L, Good(t, L), NEW i, NEW j,
           NEW c \in {"BLACK", "RED"}, NEW d \in {"BLACK", "RED"}
    PROVE  /\ Good(Paint(Paint(t, i, c), j, d), L)
           /\ Alike(t, Paint(Paint(t, i, c), j, d), L)
<1>1. Alike(t, t, L)
  BY DEF Alike
<1>2. Good(Paint(t, i, c), L) /\ Alike(t, Paint(t, i, c), L)
  BY <1>1, PaintAlike
<1>. QED  BY <1>2, PaintAlike

(* The rotation of the first case of RemoveDoubleBlack (line 691) puts p,  *)
(* then red, one level deeper.                                             *)
LEMMA RotateDeepens ==
    ASSUME NEW t, NEW L, Good(t, L), NEW p \in L, NEW far \in Sides,
           NEW b, b = Down(t, p, far), b # Nil,
           NEW u, u = Paint(Paint(RotateUp(t, b), b, "BLACK"), p, "RED")
    PROVE  Good(u, L) /\ Deepened(t, u, L, p)
<1>1. Links(t, L) /\ L \subseteq Slots
  BY DEF Good, Links
<1>2. b \in L /\ Up(t, b) = p /\ p # Nil /\ Down(t, p, Other(far)) # b
  BY <1>1, LinkFacts
<1>3. PICK v : v = Rotate(t, b, far)
  OBVIOUS
<1>13. u = Paint(Paint(v, b, "BLACK"), p, "RED")
  <2>1. RotateUp(t, b) = Rotate(t, b, far)
    <3>1. CASE far = "left"
      BY <1>2, <3>1 DEF RotateUp, Up, Down, Other
    <3>2. CASE far = "right"
      BY <1>2, <3>2 DEF RotateUp, Up, Down, Other
    <3>. QED  BY <3>1, <3>2 DEF Sides
  <2>. QED  BY <1>3, <2>1
<1>4. PICK q, g, c, up : /\ Around(t, L, b, q, g, c, far, up)
                         /\ Turn(t, v, L, b, q, g, c, far, up)
  BY <1>2, <1>3, RotateTurns
<1>5. q = p
  BY <1>2, <1>4 DEF Around
<1>6. Good(v, L) /\ \A j \in L : KeyOf(v, j) = KeyOf(t, j)
  BY <1>4, TurnGood DEF Turn
<1>7. Good(u, L) /\ Alike(v, u, L)
  BY <1>13, <1>6, PaintTwice
<1>8. u.node[p].color = "RED"
  <2>1. Typed(Paint(v, b, "BLACK"))
    BY <1>6, PaintFacts DEF Good
  <2>. QED  BY <1>1, <1>13, <2>1, PaintFacts
<1>9. KeyOf(u, p) = KeyOf(t, p) /\ KeyOf(t, p) \in Nat
  <2>1. KeyOf(u, p) = KeyOf(v, p)
    BY <1>7, AlikeFacts
  <2>. QED  BY <1>1, <1>6, <2>1, LinkFacts
<1>10. PICK k : k = KeyOf(t, p)
  OBVIOUS
<1>11. Visits(t, k, p) /\ Visits(v, k, p)
  BY <1>6, <1>10 DEF Good
<1>12. Visits(v, k, b)
  <2>1. k \in Nat
    BY <1>9, <1>10
  <2>. QED  BY <1>4, <1>5, <1>11, <2>1, TurnVisits
<1>18. ASSUME NEW y \in L, Visits(t, k, y)  PROVE Visits(v, k, y)
  <2>1. k \in Nat
    BY <1>9, <1>10
  <2>2. y # p => Visits(v, k, y)
    BY <1>4, <1>5, <1>18, <2>1, TurnVisits
  <2>. QED  BY <1>11, <2>2
<1>14. \A y \in L : Visits(v, k, y) => Visits(u, k, y)
  <2>1. Links(v, L)
    BY <1>6 DEF Good
  <2>2. \A n \in Nat : Search(u, k)[n] = Search(v, k)[n]
    BY <1>7, <2>1, AlikeSearch
  <2>. QED  BY <2>2 DEF Visits
<1>15. ~ Visits(t, k, b)
  <2>1. b # t.root
    BY <1>1, <1>2, LinkFacts
  <2>. QED  BY <1>1, <1>2, <1>10, <2>1, VisitCame
<1>16. b \notin OnPath(t, L, p)
  BY <1>10, <1>15 DEF OnPath
<1>17. OnPath(t, L, p) \cup {b} \subseteq OnPath(u, L, p)
  BY <1>2, <1>9, <1>10, <1>12, <1>18, <1>14 DEF OnPath
<1>. QED  BY <1>2, <1>7, <1>8, <1>16, <1>17 DEF Deepened

(* A node has one of the two colours.                                      *)
LEMMA ColorIs ==
    ASSUME NEW t, Typed(t), NEW i \in Slots \cup {Nil}
    PROVE  /\ ColorOf(t, i) \in {"BLACK", "RED"}
           /\ i \in Slots => t.node[i].color \in {"BLACK", "RED"}
<1>1. i \in Slots => t.node[i] \in Nodes
  BY DEF Typed
<1>2. i \in Slots => t.node[i].color \in {"BLACK", "RED"}
  BY <1>1 DEF Nodes
<1>. QED  BY <1>2 DEF ColorOf

(* One call of RemoveDoubleBlack keeps the invariant. It goes on at the    *)
(* parent, if the node is not red, or at the same node, now red and        *)
(* deeper.                                                                 *)
LEMMA DoubleBlackTurnGood ==
    ASSUME NEW L, NEW s, Good(s.tree, L), s.at = Returned \/ s.at \in L,
           NEW r, r = DoubleBlackTurn(Nil, s)
    PROVE  /\ Good(r.tree, L)
           /\ \/ r.at = Returned
              \/ /\ s.at \in L
                 /\ s.tree.node[s.at].color # "RED"
                 /\ r.at \in L
                 /\ r.at = Up(s.tree, s.at)
                 /\ Alike(s.tree, r.tree, L)
              \/ /\ s.at \in L
                 /\ r.at = s.at
                 /\ Deepened(s.tree, r.tree, L, s.at)
<1>1. CASE s.at = Returned
  BY <1>1 DEF DoubleBlackTurn
<1>2. CASE s.at \in L /\ s.at # Returned
  <2>1. PICK t : t = s.tree
    OBVIOUS
  <2>2. PICK p : p = s.at
    OBVIOUS
  <2>3. PICK side : side = IF t.node[p].left = s.short THEN "left" ELSE "right"
    OBVIOUS
  <2>4. PICK far : far = Other(side)
    OBVIOUS
  <2>5. PICK b : b = Down(t, p, far)
    OBVIOUS
  <2>6. PICK fn : fn = Down(t, b, far)
    OBVIOUS
  <2>7. PICK nn : nn = Down(t, b, side)
    OBVIOUS
  <2>8. PICK rotated : rotated = Rotate(t, b, far)
    OBVIOUS
  <2>23. PICK lifted : lifted = RotateUp(t, b)
    OBVIOUS
  <2>9. PICK col : col = t.node[p].color
    OBVIOUS
  <2>10. \/ r.tree = t /\ r.at = Returned
         \/ /\ b # Nil /\ r.at = p
            /\ r.tree = Paint(Paint(lifted, b, "BLACK"), p, "RED")
         \/ r.tree = Paint(Paint(t, b, "RED"), p, "BLACK") /\ r.at = Returned
         \/ r.tree = Paint(t, b, "RED") /\ r.at = Returned
         \/ /\ col # "RED" /\ t.root # p
            /\ r.tree = Paint(t, b, "RED") /\ r.at = Up(t, p)
         \/ /\ b # Nil /\ r.at = Returned
            /\ r.tree = Paint(Paint(Paint(rotated, b, "RED"), p, "BLACK"), fn, "BLACK")
         \/ /\ b # Nil /\ r.at = Returned
            /\ {ColorOf(t, fn), ColorOf(t, nn)} # {"BLACK"} /\ ColorOf(t, fn) # "RED"
            /\ r.tree = Rotate(Rotate(Paint(Paint(t, nn, col), p, "BLACK"), nn, side), nn, far)
    <3>. USE <1>2, <2>1, <2>2, <2>3, <2>4, <2>5
    <3>1. CASE s.short \notin {t.node[p].left, t.node[p].right} \/ b = Nil
      BY <3>1 DEF DoubleBlackTurn, Down
    <3>2. CASE ~ (s.short \notin {t.node[p].left, t.node[p].right} \/ b = Nil)
      <4>. USE <3>2
      <4>1. CASE t.node[b].color = "RED"
        BY <2>23, <4>1 DEF DoubleBlackTurn, Down
      <4>2. CASE /\ t.node[b].color # "RED"
                 /\ {ColorOf(t, fn), ColorOf(t, nn)} = {"BLACK"}
        BY <2>6, <2>7, <2>9, <4>2 DEF DoubleBlackTurn, Up, Down
      <4>3. CASE /\ t.node[b].color # "RED"
                 /\ {ColorOf(t, fn), ColorOf(t, nn)} # {"BLACK"}
                 /\ ColorOf(t, fn) = "RED"
        BY <2>6, <2>7, <2>8, <4>3 DEF DoubleBlackTurn, Down
      <4>4. CASE /\ t.node[b].color # "RED"
                 /\ {ColorOf(t, fn), ColorOf(t, nn)} # {"BLACK"}
                 /\ ColorOf(t, fn) # "RED"
        BY <2>6, <2>7, <2>9, <4>4 DEF DoubleBlackTurn, Down
      <4>. QED  BY <4>1, <4>2, <4>3, <4>4
    <3>. QED  BY <3>1, <3>2
  <2>11. /\ Good(t, L) /\ Links(t, L) /\ Typed(t) /\ L \subseteq Slots /\ p \in L
         /\ side \in Sides /\ far \in Sides
    BY <1>2, <2>1, <2>2, <2>3, <2>4, TowardFacts DEF Good, Links, Sides
  <2>12. b # Nil => b \in L
    BY <2>5, <2>11, LinkFacts
  <2>13. b # Nil => Good(rotated, L)
    BY <2>8, <2>11, <2>12, RotateGood
  <2>14. col \in {"BLACK", "RED"}
    BY <2>9, <2>11, ColorIs
  <2>15. Good(Paint(t, b, "RED"), L) /\ Alike(t, Paint(t, b, "RED"), L)
    <3>1. Alike(t, t, L)
      BY DEF Alike
    <3>. QED  BY <2>11, <3>1, PaintAlike
  <2>16. CASE r.tree = t /\ r.at = Returned
    BY <2>11, <2>16
  <2>17. CASE /\ b # Nil /\ r.at = p
              /\ r.tree = Paint(Paint(lifted, b, "BLACK"), p, "RED")
    <3>1. Good(r.tree, L) /\ Deepened(t, r.tree, L, p)
      BY <2>5, <2>11, <2>17, <2>23, RotateDeepens
    <3>. QED  BY <2>1, <2>2, <2>11, <2>17, <3>1
  <2>18. CASE r.tree = Paint(Paint(t, b, "RED"), p, "BLACK") /\ r.at = Returned
    BY <2>11, <2>18, PaintTwice
  <2>19. CASE r.tree = Paint(t, b, "RED") /\ r.at = Returned
    BY <2>15, <2>19
  <2>20. CASE /\ col # "RED" /\ t.root # p
              /\ r.tree = Paint(t, b, "RED") /\ r.at = Up(t, p)
    <3>1. Up(t, p) \in L
      BY <2>11, <2>20, LinkFacts
    <3>. QED  BY <2>1, <2>2, <2>9, <2>11, <2>15, <2>20, <3>1
  <2>21. CASE /\ b # Nil /\ r.at = Returned
              /\ r.tree = Paint(Paint(Paint(rotated, b, "RED"), p, "BLACK"), fn, "BLACK")
    <3>1. Good(Paint(Paint(rotated, b, "RED"), p, "BLACK"), L)
      BY <2>13, <2>21, PaintTwice
    <3>. QED  BY <2>21, <3>1, PaintGood
  <2>22. CASE /\ b # Nil /\ r.at = Returned
              /\ {ColorOf(t, fn), ColorOf(t, nn)} # {"BLACK"} /\ ColorOf(t, fn) # "RED"
              /\ r.tree = Rotate(Rotate(Paint(Paint(t, nn, col), p, "BLACK"), nn, side), nn, far)
    <3>1. fn \in L \cup {Nil} /\ nn \in L \cup {Nil}
      BY <2>6, <2>7, <2>11, <2>12, <2>22, LinkFacts
    <3>2. ColorOf(t, fn) = "BLACK" /\ ColorOf(t, nn) # "BLACK"
      <4>1. ColorOf(t, fn) \in {"BLACK", "RED"}
        BY <2>11, <3>1, ColorIs
      <4>. QED  BY <2>22, <4>1
    <3>3. nn \in L
      BY <3>1, <3>2 DEF ColorOf
    <3>4. PICK w : w = Paint(Paint(t, nn, col), p, "BLACK")
      OBVIOUS
    <3>5. Good(w, L)
      BY <2>11, <2>14, <3>4, PaintTwice
    <3>6. Good(Rotate(w, nn, side), L)
      BY <2>11, <3>3, <3>5, RotateGood
    <3>7. Good(Rotate(Rotate(w, nn, side), nn, far), L)
      BY <2>11, <3>3, <3>6, RotateGood
    <3>. QED  BY <2>22, <3>4, <3>7
  <2>. QED  BY <2>10, <2>16, <2>17, <2>18, <2>19, <2>20, <2>21, <2>22
<1>. QED  BY <1>1, <1>2

(* A search passes at most MaxSize nodes.                                  *)
LEMMA OnPathSize ==
    ASSUME NEW t, NEW L, L \subseteq Slots, NEW i
    PROVE  /\ IsFiniteSet(OnPath(t, L, i))
           /\ Cardinality(OnPath(t, L, i)) \in 0 .. MaxSize
<1>1. IsFiniteSet(Slots) /\ Cardinality(Slots) = MaxSize
  <2>1. MaxSize - 1 \in Int /\ MaxSize \in Nat /\ MaxSize > 0
    BY MaxTurnsType
  <2>. QED  BY <2>1, FS_Interval DEF Slots
<1>2. OnPath(t, L, i) \subseteq Slots
  BY DEF OnPath
<1>3. IsFiniteSet(OnPath(t, L, i)) /\ Cardinality(OnPath(t, L, i)) <= MaxSize
  BY <1>1, <1>2, FS_Subset
<1>4. Cardinality(OnPath(t, L, i)) \in Nat
  BY <1>3, FS_CardinalityType
<1>. QED  BY <1>3, <1>4, MaxTurnsType

(* A deeper node has more of them above it.                                *)
LEMMA DeepenedSize ==
    ASSUME NEW t, NEW u, NEW L, L \subseteq Slots, NEW p, Deepened(t, u, L, p)
    PROVE  Cardinality(OnPath(t, L, p)) < Cardinality(OnPath(u, L, p))
<1>1. PICK b \in L : b \notin OnPath(t, L, p) /\ OnPath(t, L, p) \cup {b} \subseteq OnPath(u, L, p)
  BY DEF Deepened
<1>2. /\ IsFiniteSet(OnPath(t, L, p)) /\ Cardinality(OnPath(t, L, p)) \in Nat
      /\ IsFiniteSet(OnPath(u, L, p)) /\ Cardinality(OnPath(u, L, p)) \in Nat
  BY OnPathSize
<1>3. Cardinality(OnPath(t, L, p) \cup {b}) = Cardinality(OnPath(t, L, p)) + 1
  BY <1>1, <1>2, FS_AddElement
<1>4. Cardinality(OnPath(t, L, p) \cup {b}) <= Cardinality(OnPath(u, L, p))
  BY <1>1, <1>2, FS_Subset
<1>. QED  BY <1>2, <1>3, <1>4

(* RemoveDoubleBlack keeps the invariant, and it ends within 2 * MaxTurns  *)
(* calls, whatever the colours are: it rises towards the root until it     *)
(* meets a red sibling, from then on its node is red and only sinks.       *)
LEMMA RemoveDoubleBlackGood ==
    ASSUME NEW t, NEW L, Good(t, L), NEW d, NEW p \in L
    PROVE  Good(RemoveDoubleBlack(t, d, p), L)
<1>. DEFINE start == [tree |-> t, short |-> d, at |-> p]
            R == DoubleBlackLoop!Run(Nil, start)
            P == Search(t, KeyOf(t, p))
            Rising(n, s) == /\ s.at \in L
                            /\ Alike(t, s.tree, L)
                            /\ \E m \in Nat : m + n <= MaxSize /\ P[m] = s.at
            Sinking(n, s) == /\ s.at \in L
                             /\ s.tree.node[s.at].color = "RED"
                             /\ n <= MaxSize + Cardinality(OnPath(s.tree, L, s.at))
            Holds(n, s) == /\ Good(s.tree, L)
                           /\ s.at = Returned \/ Rising(n, s) \/ Sinking(n, s)
            T == {n \in Nat : Holds(n, R[n])}
<1>0. MaxSize \in Nat /\ MaxTurns = MaxSize + 1 /\ Links(t, L) /\ L \subseteq Slots
  BY MaxTurnsType DEF Good, MaxTurns, Links
<1>11. Returned \notin L
  BY <1>0, SlotFacts DEF Returned
<1>1. R[0] = start /\ \A n \in Nat : R[n + 1] = DoubleBlackTurn(Nil, R[n])
  BY DoubleBlackLoop!RunSteps
<1>2. PICK n0 \in 0 .. MaxSize : P[n0] = p
  <2>1. PICK n \in 0 .. MaxSize : SearchEnds(t, KeyOf(t, p), P[n])
    BY <1>0, SearchFinishes
  <2>2. Visits(t, KeyOf(t, p), P[n])
    BY DEF Visits
  <2>3. Find(t, KeyOf(t, p)) = P[n]
    BY <1>0, <2>1, <2>2, FindIs
  <2>. QED  BY <2>3, GoodFinds
<1>3. start.tree = t /\ start.at = p
  OBVIOUS
<1>. HIDE DEF R, start, P
<1>4. 0 \in T
  <2>1. Alike(t, t, L) /\ n0 \in Nat /\ n0 + 0 <= MaxSize
    BY <1>0, <1>2 DEF Alike
  <2>2. Rising(0, R[0])
    BY <1>1, <1>2, <1>3, <2>1
  <2>. QED  BY <1>1, <1>3, <2>2
<1>5. ASSUME NEW n \in Nat, NEW s, Holds(n, s), NEW r, r = DoubleBlackTurn(Nil, s)
      PROVE  Holds(n + 1, r)
  <2>1. /\ Good(r.tree, L)
        /\ \/ r.at = Returned
           \/ /\ s.at \in L
              /\ s.tree.node[s.at].color # "RED"
              /\ r.at \in L
              /\ r.at = Up(s.tree, s.at)
              /\ Alike(s.tree, r.tree, L)
           \/ /\ s.at \in L
              /\ r.at = s.at
              /\ Deepened(s.tree, r.tree, L, s.at)
    <3>1. Good(s.tree, L) /\ (s.at = Returned \/ s.at \in L)
      BY <1>5
    <3>. QED  BY <1>5, <3>1, DoubleBlackTurnGood
  <2>2. CASE r.at = Returned
    BY <2>1, <2>2
  <2>3. CASE /\ s.at \in L
             /\ s.tree.node[s.at].color # "RED"
             /\ r.at \in L
             /\ r.at = Up(s.tree, s.at)
             /\ Alike(s.tree, r.tree, L)
    <3>1. Rising(n, s)
      <4>1. s.at # Returned
        BY <1>11, <2>3
      <4>. QED  BY <1>5, <2>3, <4>1
    <3>2. PICK m \in Nat : m + n <= MaxSize /\ P[m] = s.at
      BY <3>1
    <3>3. Up(t, s.at) = r.at
      BY <2>3, <3>1, AlikeFacts
    <3>4. s.at # t.root
      <4>1. r.at # Nil
        BY <1>0, <2>3, LinkFacts
      <4>. QED  BY <1>0, <2>3, <3>3, <4>1, LinkFacts
    <3>5. PICK l \in Nat : l < m /\ P[l] = r.at
      BY <1>0, <2>3, <3>2, <3>3, <3>4, Came DEF P
    <3>6. l + (n + 1) <= MaxSize
      BY <1>0, <3>2, <3>5
    <3>7. Alike(t, r.tree, L)
      BY <2>3, <3>1 DEF Alike
    <3>8. Rising(n + 1, r)
      BY <2>3, <3>5, <3>6, <3>7
    <3>. QED  BY <2>1, <3>8
  <2>4. CASE /\ s.at \in L
             /\ r.at = s.at
             /\ Deepened(s.tree, r.tree, L, s.at)
    <3>. DEFINE a == Cardinality(OnPath(s.tree, L, s.at))
                b == Cardinality(OnPath(r.tree, L, s.at))
    <3>1. a \in Nat /\ b \in Nat
      BY <1>0, OnPathSize
    <3>2. a < b
      BY <1>0, <2>4, DeepenedSize
    <3>3. n <= MaxSize + a
      <4>1. s.at # Returned
        BY <1>11, <2>4
      <4>2. CASE Rising(n, s)
        <5>1. PICK m \in Nat : m + n <= MaxSize
          BY <4>2
        <5>. HIDE DEF a
        <5>. QED  BY <1>0, <3>1, <5>1
      <4>. QED  BY <1>5, <4>1, <4>2
    <3>4. r.tree.node[r.at].color = "RED" /\ r.at \in L
      BY <2>4 DEF Deepened
    <3>5. n + 1 <= MaxSize + b
      <4>. HIDE DEF a, b
      <4>. QED  BY <1>0, <3>1, <3>2, <3>3
    <3>6. Sinking(n + 1, r)
      BY <2>4, <3>4, <3>5
    <3>. QED  BY <2>1, <3>6
  <2>. QED  BY <2>1, <2>2, <2>3, <2>4
<1>. HIDE DEF Holds
<1>6. ASSUME NEW n \in Nat, n \in T  PROVE n + 1 \in T
  <2>1. Holds(n, R[n]) /\ R[n + 1] = DoubleBlackTurn(Nil, R[n])
    BY <1>1, <1>6
  <2>2. Holds(n + 1, R[n + 1])
    BY <1>5, <2>1
  <2>. QED  BY <2>2
<1>7. 2 * MaxTurns \in T
  <2>1. 2 * MaxTurns \in Nat
    BY <1>0
  <2>. HIDE DEF T
  <2>. QED  BY <1>4, <1>6, <2>1, DoubleBlackLoop!SetInduction
<1>8. ASSUME NEW s, Holds(2 * MaxTurns, s)  PROVE Good(s.tree, L) /\ s.at = Returned
  <2>1. CASE Rising(2 * MaxTurns, s)
    <3>1. PICK m \in Nat : m + 2 * MaxTurns <= MaxSize
      BY <2>1
    <3>. QED  BY <1>0, <3>1
  <2>2. CASE Sinking(2 * MaxTurns, s)
    <3>1. Cardinality(OnPath(s.tree, L, s.at)) \in 0 .. MaxSize
      BY <1>0, OnPathSize
    <3>2. 2 * MaxTurns <= MaxSize + Cardinality(OnPath(s.tree, L, s.at))
      BY <2>2
    <3>. QED  BY <1>0, <3>1, <3>2
  <2>. QED  BY <1>8, <2>1, <2>2 DEF Holds
<1>9. Good(R[2 * MaxTurns].tree, L) /\ R[2 * MaxTurns].at = Returned
  BY <1>7, <1>8
<1>10. RemoveDoubleBlack(t, d, p) = R[2 * MaxTurns].tree
  BY <1>9, DoubleBlackLoop!ResultIs DEF RemoveDoubleBlack, R, start, RepairOver
<1>. QED  BY <1>9, <1>10
-----------------------------------------------------------------------------
(* One for a black node, none for a red one.                               *)
Black(t, i) == IF t.node[i].color = "BLACK" THEN 1 ELSE 0

(* h says how many blacks a way down from each node passes, itself         *)
(* included: the same number on both sides.                                *)
Heights(t, L, h) ==
    /\ h \in [L \cup {Nil} -> Int]
    /\ h[Nil] = 0
    /\ \A i \in L, s \in Sides : h[i] = h[Down(t, i, s)] + Black(t, i)

BlackRoot(t) == t.root # Nil => t.node[t.root].color = "BLACK"

(* Node i is not the lower one of two reds.                                *)
Parted(t, i) == t.node[i].color = "RED" => t.node[Up(t, i)].color = "BLACK"

(* A red-black tree, but for a red x that may have a red parent.           *)
Balanced(t, L, x) ==
    /\ BlackRoot(t)
    /\ \A i \in L \ {x, t.root} : Parted(t, i)
    /\ \E h : Heights(t, L, h)

(* Rotating a red node above a red one changes no height.                  *)
LEMMA RedTurnHeights ==
    ASSUME NEW t, NEW u, NEW L, Good(t, L), NEW h, Heights(t, L, h),
           NEW x, NEW p, NEW g, NEW c, NEW side, NEW up,
           Around(t, L, x, p, g, c, side, up), Turn(t, u, L, x, p, g, c, side, up),
           t.node[x].color = "RED", t.node[p].color = "RED"
    PROVE  Heights(u, L, h)
<1>1. \A j \in L : Black(u, j) = Black(t, j)
  BY DEF Turn, Black
<1>2. Black(t, x) = 0 /\ Black(t, p) = 0
  BY DEF Black
<1>3. /\ x \in L /\ p \in L /\ c \in L \cup {Nil} /\ side \in Sides /\ up \in Sides
      /\ Other(side) \in Sides
      /\ Down(t, p, side) = x /\ Down(t, x, Other(side)) = c
      /\ g # Nil => Down(t, g, up) = p
      /\ Nil \notin L
  BY TowardFacts, SlotFacts DEF Around, Good, Links
<1>4. h[p] = h[x] /\ h[x] = h[c]
  BY <1>2, <1>3 DEF Heights
<1>5. ASSUME NEW i \in L, NEW s \in Sides  PROVE h[i] = h[Down(u, i, s)] + Black(u, i)
  <2>1. h[i] = h[Down(t, i, s)] + Black(t, i)
    BY DEF Heights
  <2>2. Down(u, i, s) = IF i = x /\ s = Other(side) THEN p
                        ELSE IF i = p /\ s = side THEN c
                        ELSE IF i = g /\ s = up THEN x
                        ELSE Down(t, i, s)
    BY DEF Turn
  <2>3. h[Down(u, i, s)] = h[Down(t, i, s)]
    BY <1>3, <1>4, <2>2
  <2>. QED  BY <1>1, <2>1, <2>3
<1>. QED  BY <1>5 DEF Heights

(* Two paintings of nodes, the first and then another one.                 *)
LEMMA PaintPair ==
    ASSUME NEW t, NEW L, Good(t, L), NEW i, NEW j, i # j,
           NEW c \in {"BLACK", "RED"}, NEW d \in {"BLACK", "RED"},
           NEW u, u = Paint(Paint(t, i, c), j, d)
    PROVE  /\ Good(u, L)
           /\ Alike(t, u, L)
           /\ \A l \in L : u.node[l].color = IF l = j THEN d ELSE IF l = i THEN c
                                             ELSE t.node[l].color
<1>1. Good(u, L) /\ Alike(t, u, L)
  BY PaintTwice
<1>2. L \subseteq Slots /\ Typed(t) /\ Typed(Paint(t, i, c))
  BY PaintFacts DEF Good, Links
<1>. QED  BY <1>1, <1>2, PaintFacts

(* w has the colours of t, but for a black x and a red p.                  *)
Lifted(t, w, L, x, p) ==
    \A l \in L : w.node[l].color = IF l = p THEN "RED" ELSE IF l = x THEN "BLACK"
                                   ELSE t.node[l].color

(* Rotating a red x above a black p, x then black and p red: the heights   *)
(* of the two are exchanged.                                               *)
LEMMA BlackTurnHeights ==
    ASSUME NEW t, NEW u, NEW L, Good(t, L), NEW h, Heights(t, L, h),
           NEW x, NEW p, NEW g, NEW c, NEW side, NEW up,
           Around(t, L, x, p, g, c, side, up), Turn(t, u, L, x, p, g, c, side, up),
           t.node[x].color = "RED", t.node[p].color = "BLACK",
           NEW w, Alike(u, w, L), Lifted(t, w, L, x, p)
    PROVE  \E f : Heights(w, L, f)
<1>. DEFINE f == [h EXCEPT ![x] = h[p], ![p] = h[x]]
<1>1. Links(t, L) /\ Nil \notin L
  BY SlotFacts DEF Good, Links
<1>2. /\ x \in L /\ p \in L /\ c \in L \cup {Nil} /\ g \in L \cup {Nil}
      /\ side \in Sides /\ up \in Sides /\ Other(side) \in Sides /\ Other(side) # side
      /\ Up(t, x) = p /\ Up(t, p) = g
      /\ p # x /\ g # p /\ g # x /\ c # x /\ c # p
      /\ Down(t, p, side) = x /\ Down(t, x, Other(side)) = c
      /\ Down(t, p, Other(side)) # x
      /\ g # Nil => Down(t, g, up) = p /\ Down(t, g, Other(up)) # p
  BY TowardFacts DEF Around
<1>3. Black(t, x) = 0 /\ Black(t, p) = 1
  BY DEF Black
<1>4. \A l \in L : Black(w, l) = IF l = p THEN 0 ELSE IF l = x THEN 1 ELSE Black(t, l)
  BY DEF Lifted, Black
<1>5. /\ h \in [L \cup {Nil} -> Int] /\ h[Nil] = 0
      /\ \A i \in L, s \in Sides : h[i] = h[Down(t, i, s)] + Black(t, i)
  BY DEF Heights
<1>6. h[p] = h[x] + 1 /\ h[x] = h[c]
  <2>1. h[p] = h[x] + 1
    BY <1>2, <1>3, <1>5
  <2>2. h[x] = h[c] + 0
    BY <1>2, <1>3, <1>5
  <2>. QED  BY <1>2, <1>5, <2>1, <2>2
<1>7. f \in [L \cup {Nil} -> Int] /\ f[Nil] = 0
  BY <1>1, <1>2, <1>5
<1>8. \A l \in L \cup {Nil} : f[l] = IF l = p THEN h[x] ELSE IF l = x THEN h[p] ELSE h[l]
  BY <1>2, <1>5
<1>. HIDE DEF f
<1>9. ASSUME NEW i \in L, NEW s \in Sides  PROVE f[i] = f[Down(w, i, s)] + Black(w, i)
  <2>1. PICK d : d = Down(t, i, s)
    OBVIOUS
  <2>2. h[i] = h[d] + Black(t, i) /\ d \in L \cup {Nil} /\ (d # Nil => Up(t, d) = i)
        /\ h[d] \in Int /\ Black(t, i) \in Int /\ h[i] \in Int
    BY <1>1, <1>5, <2>1, LinkFacts DEF Black
  <2>3. Down(w, i, s) = IF i = x /\ s = Other(side) THEN p
                        ELSE IF i = p /\ s = side THEN c
                        ELSE IF i = g /\ s = up THEN x
                        ELSE d
    <3>1. Down(w, i, s) = Down(u, i, s)
      BY AlikeFacts
    <3>. QED  BY <2>1, <3>1 DEF Turn
  <2>4. s = side \/ s = Other(side)
    BY <1>2 DEF Sides, Other
  <2>5. CASE i = x
    <3>1. f[i] = h[p] /\ Black(w, i) = 1
      BY <1>2, <1>4, <1>8, <2>5
    <3>2. CASE s = Other(side)
      <4>1. f[Down(w, i, s)] = h[x]
        BY <1>2, <1>8, <2>3, <2>5, <3>2
      <4>. QED  BY <1>6, <3>1, <4>1
    <3>3. CASE s = side
      <4>1. Down(w, i, s) = d /\ d # x /\ d # p
        BY <1>1, <1>2, <2>2, <2>3, <2>5, <3>3
      <4>2. h[x] = h[d] /\ f[d] = h[d]
        BY <1>2, <1>3, <1>8, <2>2, <2>5, <4>1
      <4>. QED  BY <1>6, <3>1, <4>1, <4>2
    <3>. QED  BY <2>4, <3>2, <3>3
  <2>6. CASE i = p
    <3>1. f[i] = h[x] /\ Black(w, i) = 0 /\ h[x] \in Int
      BY <1>2, <1>4, <1>5, <1>8, <2>6
    <3>2. CASE s = side
      <4>1. f[Down(w, i, s)] = h[c]
        BY <1>2, <1>8, <2>3, <2>6, <3>2
      <4>. QED  BY <1>6, <3>1, <4>1
    <3>3. CASE s = Other(side)
      <4>1. Down(w, i, s) = d /\ d # x /\ d # p
        BY <1>1, <1>2, <2>1, <2>2, <2>3, <2>6, <3>3
      <4>2. h[p] = h[d] + 1 /\ f[d] = h[d]
        BY <1>3, <1>8, <2>2, <2>6, <4>1
      <4>. QED  BY <1>6, <2>2, <3>1, <4>1, <4>2
    <3>. QED  BY <2>4, <3>2, <3>3
  <2>7. CASE i # x /\ i # p
    <3>1. f[i] = h[i] /\ Black(w, i) = Black(t, i)
      BY <1>4, <1>8, <2>7
    <3>2. CASE i = g /\ s = up
      <4>1. Down(w, i, s) = x /\ d = p
        BY <1>1, <1>2, <2>1, <2>3, <2>7, <3>2
      <4>. QED  BY <1>2, <1>8, <2>2, <3>1, <4>1
    <3>3. CASE ~ (i = g /\ s = up)
      <4>1. Down(w, i, s) = d
        BY <2>3, <2>7, <3>3
      <4>2. d # x
        BY <1>1, <1>2, <2>2, <2>7
      <4>3. d # p
        <5>1. CASE i # g
          BY <1>1, <1>2, <2>2, <5>1
        <5>2. CASE i = g
          <6>1. s = Other(up)
            BY <1>2, <3>3, <5>2 DEF Sides, Other
          <6>. QED  BY <1>1, <1>2, <2>1, <5>2, <6>1
        <5>. QED  BY <5>1, <5>2
      <4>. QED  BY <1>8, <2>2, <3>1, <4>1, <4>2, <4>3
    <3>. QED  BY <3>2, <3>3
  <2>. QED  BY <2>5, <2>6, <2>7
<1>10. Heights(w, L, f)
  BY <1>7, <1>9 DEF Heights
<1>. QED  BY <1>10

(* The side of its parent a node is on.                                    *)
LEMMA SideIs ==
    ASSUME NEW t, NEW L, Good(t, L), NEW x \in L, Up(t, x) # Nil
    PROVE  /\ SideOf(t, x) \in Sides
           /\ Down(t, Up(t, x), SideOf(t, x)) = x
           /\ Down(t, Up(t, x), Other(SideOf(t, x))) # x
<1>1. PICK s \in Sides : Down(t, Up(t, x), s) = x /\ Down(t, Up(t, x), Other(s)) # x
  BY OnOneSide
<1>2. SideOf(t, x) = IF Down(t, Up(t, x), "left") = x THEN "left" ELSE "right"
  BY DEF SideOf, Up, Down
<1>3. s = SideOf(t, x)
  BY <1>1, <1>2 DEF Sides, Other
<1>. QED  BY <1>1, <1>3

(* Rotating a red x above a black p, x then black and p red, parts x from  *)
(* a red child on the outer side, if no other red has a red parent.        *)
LEMMA BlackTurnBalanced ==
    ASSUME NEW t, NEW L, Good(t, L), BlackRoot(t), NEW h, Heights(t, L, h),
           NEW x \in L, NEW p, p = Up(t, x), p # Nil,
           t.node[x].color = "RED", t.node[p].color = "BLACK",
           NEW side \in Sides, Down(t, p, Other(side)) # x,
           ColorOf(t, Down(t, p, Other(side))) = "BLACK",
           \A i \in L \ {t.root} : i # Down(t, x, side) => Parted(t, i),
           NEW w, w = Paint(Paint(Rotate(t, x, side), x, "BLACK"), p, "RED")
    PROVE  Balanced(w, L, Nil)
<1>1. PICK u : u = Rotate(t, x, side)
  OBVIOUS
<1>2. PICK g, c, up : /\ Around(t, L, x, p, g, c, side, up)
                      /\ Turn(t, u, L, x, p, g, c, side, up)
  <2>1. PICK q, g, c, up : /\ Around(t, L, x, q, g, c, side, up)
                           /\ Turn(t, u, L, x, q, g, c, side, up)
    BY <1>1, RotateTurns
  <2>2. q = p
    BY <2>1 DEF Around
  <2>. QED  BY <2>1, <2>2
<1>3. /\ x \in L /\ p \in L /\ g \in L \cup {Nil} /\ c \in L \cup {Nil}
      /\ Up(t, x) = p /\ Up(t, p) = g
      /\ p # x /\ g # p /\ g # x /\ c # x /\ c # p
      /\ Down(t, p, side) = x /\ Down(t, x, Other(side)) = c
      /\ c # Nil => Up(t, c) = x
  BY <1>2 DEF Around
<1>4. Links(t, L) /\ Nil \notin L
  BY SlotFacts DEF Good, Links
<1>5. Good(u, L)
  BY <1>2, TurnGood
<1>6. /\ Alike(u, w, L)
      /\ \A l \in L : w.node[l].color = IF l = p THEN "RED" ELSE IF l = x THEN "BLACK"
                                        ELSE u.node[l].color
  BY <1>1, <1>3, <1>5, PaintPair
<1>7. \A l \in L : w.node[l].color = IF l = p THEN "RED" ELSE IF l = x THEN "BLACK"
                                     ELSE t.node[l].color
  BY <1>2, <1>6 DEF Turn
<1>8. \E f : Heights(w, L, f)
  <2>1. Lifted(t, w, L, x, p)
    BY <1>7 DEF Lifted
  <2>. QED  BY <1>2, <1>6, <2>1, BlackTurnHeights
<1>9. w.root = IF g = Nil THEN x ELSE t.root
  BY <1>2, <1>6 DEF Turn, Alike
<1>10. p = t.root <=> g = Nil
  BY <1>3, <1>4, LinkFacts
<1>11. BlackRoot(w)
  <2>1. CASE g = Nil
    BY <1>3, <1>7, <1>9, <2>1 DEF BlackRoot
  <2>2. CASE g # Nil
    <3>1. t.root # x /\ t.root # p /\ t.root \in L \cup {Nil}
      BY <1>3, <1>4, <1>10, <2>2, LinkFacts DEF Links
    <3>. QED  BY <1>7, <1>9, <2>2, <3>1 DEF BlackRoot
  <2>. QED  BY <2>1, <2>2
<1>12. ASSUME NEW i \in L, i # w.root, w.node[i].color = "RED"
       PROVE  w.node[Up(w, i)].color = "BLACK"
  <2>1. Up(w, i) = IF i = x THEN g ELSE IF i = p THEN x ELSE IF i = c THEN p ELSE Up(t, i)
    BY <1>2, <1>6, AlikeFacts DEF Turn
  <2>2. i # x
    BY <1>7, <1>12
  <2>3. CASE i = p
    BY <1>3, <1>7, <2>1, <2>2, <2>3
  <2>4. CASE i # p
    <3>1. t.node[i].color = "RED"
      BY <1>7, <1>12, <2>2, <2>4
    <3>2. i # t.root
      BY <1>9, <1>10, <1>12, <2>4
    <3>3. CASE i = Down(t, x, side)
      <4>1. Up(t, i) = x /\ i # c
        BY <1>3, <1>4, <3>3, LinkFacts
      <4>. QED  BY <1>7, <1>3, <2>1, <2>2, <2>4, <4>1
    <3>4. CASE i # Down(t, x, side)
      <4>1. t.node[Up(t, i)].color = "BLACK"
        BY <3>1, <3>2, <3>4 DEF Parted
      <4>2. Up(t, i) # x /\ i # c
        BY <1>3, <1>4, <4>1
      <4>3. Up(t, i) \in L
        BY <1>4, <3>2, LinkFacts
      <4>4. Up(t, i) # p
        <5>. SUFFICES ASSUME Up(t, i) = p  PROVE FALSE
          OBVIOUS
        <5>1. PICK s \in Sides : Down(t, p, s) = i
          BY OnOneSide
        <5>2. s = Other(side)
          BY <1>3, <2>2, <5>1 DEF Sides, Other
        <5>. QED  BY <1>4, <3>1, <5>1, <5>2 DEF ColorOf
      <4>. QED  BY <1>7, <2>1, <2>2, <2>4, <4>1, <4>2, <4>3, <4>4
    <3>. QED  BY <3>3, <3>4
  <2>. QED  BY <2>3, <2>4
<1>. QED  BY <1>8, <1>11, <1>12 DEF Balanced, Parted

(* A red x below a red p, whose parent is black, and whose sibling is too: *)
(* Restructuring parts them.                                               *)
LEMMA RestructuringBalanced ==
    ASSUME NEW t, NEW L, Good(t, L), NEW x \in L, Balanced(t, L, x),
           NEW p, p = Up(t, x), p # Nil, NEW g, g = Up(t, p), g # Nil,
           t.node[x].color = "RED", t.node[p].color = "RED", t.node[g].color = "BLACK",
           ColorOf(t, Down(t, g, Other(SideOf(t, p)))) = "BLACK"
    PROVE  Balanced(Restructuring(t, x), L, Nil)
<1>. DEFINE side == SideOf(t, x)
<1>1. /\ x # t.root /\ p \in L /\ p # x /\ g \in L /\ g # x /\ g # p /\ p # t.root
      /\ Links(t, L) /\ Nil \notin L
  <2>1. x # t.root /\ p \in L /\ p # x /\ g \in L \cup {Nil} /\ g # x /\ g # p
    BY NoCycle
  <2>2. Links(t, L) /\ Nil \notin L
    BY SlotFacts DEF Good, Links
  <2>. QED  BY <2>1, <2>2, LinkFacts
<1>2. /\ side \in Sides /\ Other(side) \in Sides /\ Other(Other(side)) = side
      /\ Other(side) # side
  BY SideTypes, TowardFacts
<1>3. Down(t, p, side) = x /\ Down(t, p, Other(side)) # x
  BY SideIs
<1>4. PICK up \in Sides : /\ Down(t, g, up) = p /\ Down(t, g, Other(up)) # p
                          /\ up = SideOf(t, p)
  BY <1>1, SideIs
<1>5. PICK h : Heights(t, L, h)
  BY DEF Balanced
<1>6. BlackRoot(t) /\ \A i \in L \ {x, t.root} : Parted(t, i)
  BY DEF Balanced
<1>. HIDE DEF side
<1>7. CASE up = side
  <2>1. t.node[g][Other(side)] # p
    BY <1>4, <1>7 DEF Down
  <2>2. PICK w : w = Paint(Paint(Rotate(t, p, side), p, "BLACK"), g, "RED")
    OBVIOUS
  <2>3. Restructuring(t, x) = w
    BY <2>1, <2>2 DEF Restructuring, Up, side
  <2>4. \A i \in L \ {t.root} : i # Down(t, p, side) => Parted(t, i)
    BY <1>3, <1>6
  <2>5. Down(t, g, Other(side)) # p /\ ColorOf(t, Down(t, g, Other(side))) = "BLACK"
    BY <1>4, <1>7
  <2>6. Balanced(w, L, Nil)
    BY <1>1, <1>2, <1>5, <1>6, <2>2, <2>4, <2>5, BlackTurnBalanced
  <2>. QED  BY <2>3, <2>6
<1>8. CASE up # side
  <2>1. up = Other(side) /\ Other(up) = side
    BY <1>2, <1>8 DEF Sides, Other
  <2>2. t.node[g][Other(side)] = p
    BY <1>4, <2>1 DEF Down
  <2>3. PICK u : u = Rotate(t, x, side)
    OBVIOUS
  <2>4. PICK w : w = Paint(Paint(Rotate(u, x, up), x, "BLACK"), g, "RED")
    OBVIOUS
  <2>5. Restructuring(t, x) = w
    BY <2>1, <2>2, <2>3, <2>4 DEF Restructuring, Up, side
  <2>6. PICK c, v : /\ Around(t, L, x, p, g, c, side, v)
                    /\ Turn(t, u, L, x, p, g, c, side, v)
    <3>1. PICK p1, g1, c, v : /\ Around(t, L, x, p1, g1, c, side, v)
                              /\ Turn(t, u, L, x, p1, g1, c, side, v)
      BY <1>2, <1>3, <2>3, RotateTurns
    <3>2. p1 = p /\ g1 = g
      BY <3>1 DEF Around
    <3>. QED  BY <3>1, <3>2
  <2>7. Good(u, L) /\ Heights(u, L, h)
    BY <1>5, <2>6, TurnGood, RedTurnHeights
  <2>8. v = up
    BY <1>1, <1>4, <2>6 DEF Around, Sides, Other
  <2>9. /\ u.root = t.root
        /\ \A i \in L : u.node[i].color = t.node[i].color
        /\ Up(u, x) = g /\ Up(u, p) = x
        /\ \A i \in L : i # x /\ i # p => Up(u, i) = IF i = c THEN p ELSE Up(t, i)
        /\ Down(u, g, up) = x
        /\ Down(u, g, Other(up)) = Down(t, g, Other(up))
        /\ Down(u, x, up) = p
    <3>1. up \in Sides /\ Other(up) \in Sides /\ Other(up) # up
      BY TowardFacts
    <3>. QED  BY <1>1, <2>1, <2>6, <2>8, <3>1 DEF Turn
  <2>10. BlackRoot(u)
    BY <1>1, <1>6, <2>9 DEF BlackRoot, Links
  <2>11. ASSUME NEW i \in L \ {u.root}, i # Down(u, x, up), u.node[i].color = "RED"
         PROVE  u.node[Up(u, i)].color = "BLACK"
    <3>1. i # p /\ i # t.root /\ t.node[i].color = "RED"
      BY <2>9, <2>11
    <3>2. CASE i = x
      BY <1>1, <2>9, <3>2
    <3>3. CASE i # x
      <4>1. t.node[Up(t, i)].color = "BLACK"
        BY <1>6, <3>1, <3>3 DEF Parted
      <4>2. i # c
        BY <1>1, <2>6, <4>1 DEF Around
      <4>3. Up(t, i) \in L
        BY <1>1, <3>1, LinkFacts
      <4>. QED  BY <2>9, <3>1, <3>3, <4>1, <4>2, <4>3
    <3>. QED  BY <3>2, <3>3
  <2>12. ColorOf(u, Down(u, g, Other(up))) = "BLACK"
    <3>1. Down(t, g, Other(up)) \in L \cup {Nil} /\ ColorOf(t, Down(t, g, Other(up))) = "BLACK"
      BY <1>1, <1>4, TowardFacts, LinkFacts
    <3>. QED  BY <2>9, <3>1 DEF ColorOf
  <2>13. Down(u, g, Other(up)) # x
    <3>1. Up(t, x) # g
      BY <1>1
    <3>. QED  BY <1>1, <2>9, <3>1, TowardFacts, LinkFacts
  <2>14. Balanced(w, L, Nil)
    <3>1. u.node[x].color = "RED" /\ u.node[g].color = "BLACK"
      BY <1>1, <2>9
    <3>2. \A i \in L \ {u.root} : i # Down(u, x, up) => Parted(u, i)
      BY <2>11 DEF Parted
    <3>. QED  BY <1>1, <2>4, <2>7, <2>9, <2>10, <2>12, <2>13, <3>1, <3>2, BlackTurnBalanced
  <2>. QED  BY <2>5, <2>14
<1>. QED  BY <1>7, <1>8

(* w has the colours of t, but for a black p and u and a red g, which      *)
(* stays black at the root.                                                *)
Recolored(t, w, L, g, p, u) ==
    \A l \in L : w.node[l].color =
        IF l = g THEN IF g = t.root THEN "BLACK" ELSE "RED"
        ELSE IF l \in {p, u} THEN "BLACK" ELSE t.node[l].color

(* A black node with two red children that takes their colour and gives    *)
(* them its own: heights change at the children only, or at all three.     *)
LEMMA RecolorHeights ==
    ASSUME NEW t, NEW L, Good(t, L), NEW h, Heights(t, L, h),
           NEW g \in L, NEW p, NEW u, NEW side \in Sides,
           p = Down(t, g, side), u = Down(t, g, Other(side)), p # Nil, u # Nil,
           t.node[p].color = "RED", t.node[u].color = "RED", t.node[g].color = "BLACK",
           NEW w, Alike(t, w, L), Recolored(t, w, L, g, p, u)
    PROVE  \E f : Heights(w, L, f)
<1>. DEFINE rise(i) == IF i \in {p, u} \/ (i = g /\ g = t.root) THEN 1 ELSE 0
            f == [i \in L \cup {Nil} |-> h[i] + rise(i)]
<1>1. Links(t, L) /\ Nil \notin L
  BY SlotFacts DEF Good, Links
<1>2. /\ p \in L /\ u \in L /\ g # p /\ g # u /\ p # u /\ Up(t, p) = g /\ Up(t, u) = g
      /\ Other(side) \in Sides
  <2>1. Other(side) \in Sides
    BY TowardFacts
  <2>. QED  BY <1>1, <2>1, LinkFacts
<1>3. /\ h \in [L \cup {Nil} -> Int] /\ h[Nil] = 0
      /\ \A i \in L, s \in Sides : h[i] = h[Down(t, i, s)] + Black(t, i)
  BY DEF Heights
<1>4. \A i \in L \cup {Nil} : rise(i) \in Int
  OBVIOUS
<1>5. f \in [L \cup {Nil} -> Int] /\ f[Nil] = 0
  BY <1>1, <1>2, <1>3
<1>6. ASSUME NEW i \in L, NEW s \in Sides  PROVE f[i] = f[Down(w, i, s)] + Black(w, i)
  <2>1. PICK d : d = Down(t, i, s)
    OBVIOUS
  <2>2. Down(w, i, s) = d
    BY <2>1, AlikeFacts
  <2>3. /\ h[i] = h[d] + Black(t, i) /\ d \in L \cup {Nil} /\ (d # Nil => Up(t, d) = i)
        /\ h[d] \in Int /\ Black(t, i) \in Int /\ h[i] \in Int
    BY <1>1, <1>3, <2>1, LinkFacts DEF Black
  <2>4. f[i] = h[i] + rise(i) /\ f[d] = h[d] + rise(d)
    BY <2>3
  <2>5. d = g => d # t.root
    BY <1>1, <2>3, LinkFacts
  <2>6. i = g => d \in {p, u}
    <3>1. s = side \/ s = Other(side)
      BY DEF Sides, Other
    <3>. QED  BY <2>1, <3>1
  <2>7. d \in {p, u} => i = g
    BY <1>1, <1>2, <2>3
  <2>8. CASE i = g
    <3>1. Black(t, i) = 1 /\ Black(w, i) = IF g = t.root THEN 1 ELSE 0
      BY <2>8 DEF Black, Recolored
    <3>2. rise(i) = (IF g = t.root THEN 1 ELSE 0) /\ rise(d) = 1
      BY <1>2, <2>6, <2>8
    <3>. HIDE DEF f, rise
    <3>. QED  BY <2>2, <2>3, <2>4, <3>1, <3>2
  <2>9. CASE i \in {p, u}
    <3>1. Black(t, i) = 0 /\ Black(w, i) = 1
      BY <1>2, <2>9 DEF Black, Recolored
    <3>2. rise(i) = 1 /\ rise(d) = 0
      BY <1>2, <2>5, <2>7, <2>9
    <3>. HIDE DEF f, rise
    <3>. QED  BY <2>2, <2>3, <2>4, <3>1, <3>2
  <2>10. CASE i # g /\ i \notin {p, u}
    <3>1. Black(t, i) = Black(w, i)
      BY <2>10 DEF Black, Recolored
    <3>2. rise(i) = 0 /\ rise(d) = 0
      BY <2>5, <2>7, <2>10
    <3>. HIDE DEF f, rise
    <3>. QED  BY <2>2, <2>3, <2>4, <3>1, <3>2
  <2>. QED  BY <2>8, <2>9, <2>10
<1>. HIDE DEF f
<1>. QED  BY <1>5, <1>6 DEF Heights

(* The recolouring of CheckTree passes the red of two reds on to the       *)
(* grandparent.                                                            *)
LEMMA RecolorBalanced ==
    ASSUME NEW t, NEW L, Good(t, L), NEW x \in L, Balanced(t, L, x),
           NEW p, p = Up(t, x), p # Nil, NEW g, g = Up(t, p), g # Nil,
           t.node[x].color = "RED", t.node[p].color = "RED", t.node[g].color = "BLACK",
           NEW u, u = Down(t, g, Other(SideOf(t, p))), ColorOf(t, u) = "RED",
           NEW w, w = Paint(Paint(Paint(t, u, "BLACK"), p, "BLACK"), g,
                            IF g = t.root THEN "BLACK" ELSE "RED")
    PROVE  Balanced(w, L, g)
<1>1. /\ x # t.root /\ p \in L /\ p # x /\ g \in L /\ g # x /\ g # p /\ p # t.root
      /\ Links(t, L) /\ Nil \notin L
  <2>1. x # t.root /\ p \in L /\ p # x /\ g \in L \cup {Nil} /\ g # x /\ g # p
    BY NoCycle
  <2>2. Links(t, L) /\ Nil \notin L
    BY SlotFacts DEF Good, Links
  <2>. QED  BY <2>1, <2>2, LinkFacts
<1>2. PICK side \in Sides : /\ Down(t, g, side) = p /\ Down(t, g, Other(side)) # p
                            /\ side = SideOf(t, p)
  BY <1>1, SideIs
<1>3. u = Down(t, g, Other(side)) /\ u # Nil /\ t.node[u].color = "RED" /\ u # p
      /\ u \in L /\ u # g
  <2>1. u # Nil /\ t.node[u].color = "RED"
    BY DEF ColorOf
  <2>2. Other(side) \in Sides
    BY TowardFacts
  <2>. QED  BY <1>1, <1>2, <2>1, <2>2, LinkFacts
<1>4. PICK c \in {"BLACK", "RED"} : c = IF g = t.root THEN "BLACK" ELSE "RED"
  OBVIOUS
<1>5. PICK v : v = Paint(Paint(t, u, "BLACK"), p, "BLACK")
  OBVIOUS
<1>6. /\ Good(v, L) /\ Alike(t, v, L)
      /\ \A l \in L : v.node[l].color = IF l \in {p, u} THEN "BLACK" ELSE t.node[l].color
  BY <1>3, <1>5, PaintPair
<1>7. w = Paint(v, g, c)
  BY <1>4, <1>5
<1>8. /\ Alike(t, w, L)
      /\ \A l \in L : w.node[l].color = IF l = g THEN c ELSE v.node[l].color
  <2>1. Typed(v) /\ L \subseteq Slots
    BY <1>6 DEF Good, Links
  <2>2. Alike(t, w, L)
    BY <1>6, <1>7, PaintAlike
  <2>. QED  BY <1>7, <2>1, <2>2, PaintFacts
<1>9. \A l \in L : w.node[l].color =
               IF l = g THEN IF g = t.root THEN "BLACK" ELSE "RED"
               ELSE IF l \in {p, u} THEN "BLACK" ELSE t.node[l].color
  BY <1>4, <1>6, <1>8
<1>10. PICK h : Heights(t, L, h)
  BY DEF Balanced
<1>11. \E f : Heights(w, L, f)
  <2>1. p = Down(t, g, side) /\ Recolored(t, w, L, g, p, u) /\ Alike(t, w, L)
    BY <1>2, <1>8, <1>9 DEF Recolored
  <2>2. u = Down(t, g, Other(side)) /\ u # Nil /\ t.node[u].color = "RED" /\ g \in L
    BY <1>1, <1>3
  <2>. QED  BY <1>10, <2>1, <2>2, RecolorHeights, ZenonT(30)
<1>12. w.root = t.root
  BY <1>8 DEF Alike
<1>13. BlackRoot(w)
  <2>1. t.root \in L \cup {Nil} /\ (t.root # Nil => t.node[t.root].color = "BLACK")
    BY <1>1 DEF Links, Balanced, BlackRoot
  <2>. QED  BY <1>9, <1>12, <2>1 DEF BlackRoot
<1>14. ASSUME NEW i \in L \ {g, w.root}, w.node[i].color = "RED"
       PROVE  w.node[Up(w, i)].color = "BLACK"
  <2>1. i # p /\ i # u /\ i # g /\ i # t.root /\ t.node[i].color = "RED"
    BY <1>9, <1>12, <1>14
  <2>2. Up(w, i) = Up(t, i) /\ Up(t, i) \in L
    BY <1>1, <1>8, <2>1, AlikeFacts, LinkFacts
  <2>3. CASE i = x
    BY <1>1, <1>9, <2>2, <2>3
  <2>4. CASE i # x
    <3>1. t.node[Up(t, i)].color = "BLACK"
      BY <2>1, <2>4 DEF Balanced, Parted
    <3>2. Up(t, i) # g
      <4>. SUFFICES ASSUME Up(t, i) = g  PROVE FALSE
        OBVIOUS
      <4>1. PICK s \in Sides : Down(t, g, s) = i
        BY OnOneSide
      <4>2. s = side \/ s = Other(side)
        BY DEF Sides, Other
      <4>. QED  BY <1>2, <1>3, <2>1, <4>1, <4>2
    <3>. QED  BY <1>9, <2>2, <3>1, <3>2
  <2>. QED  BY <2>3, <2>4
<1>. QED  BY <1>11, <1>13, <1>14 DEF Balanced, Parted

(* What one call of CheckTree does.                                        *)
LEMMA CheckTurnIs ==
    ASSUME NEW s, s.at # Returned
    PROVE  LET t == s.tree
               x == s.at
               p == Up(t, x)
               g == Up(t, p)
               u == Down(t, g, Other(SideOf(t, p)))
               done == p = Nil \/ t.node[x].color = "BLACK" \/ t.node[p].color = "BLACK" \/ g = Nil
           IN  /\ done => CheckTurn(Nil, s) = [tree |-> t, at |-> Returned]
               /\ ~ done /\ ColorOf(t, u) = "BLACK" =>
                     CheckTurn(Nil, s) = [tree |-> Restructuring(t, x), at |-> Returned]
               /\ ~ done /\ ColorOf(t, u) # "BLACK" =>
                     CheckTurn(Nil, s) =
                        [tree |-> Paint(Paint(Paint(t, u, "BLACK"), p, "BLACK"), g,
                                        IF g = t.root THEN "BLACK" ELSE "RED"),
                         at   |-> g]
<1>. DEFINE t == s.tree
            x == s.at
            p == t.node[x].parent
            g == t.node[p].parent
            u == t.node[g][Other(SideOf(t, p))]
            w == Paint(Paint(Paint(t, u, "BLACK"), p, "BLACK"), g,
                       IF g = t.root THEN "BLACK" ELSE "RED")
            black == t.node[x].color = "BLACK" \/ t.node[p].color = "BLACK"
<1>1. CheckTurn(Nil, s) =
         IF x = Returned THEN s
         ELSE IF p = Nil THEN [tree |-> t, at |-> Returned]
         ELSE IF black THEN [tree |-> t, at |-> Returned]
         ELSE IF g = Nil THEN [tree |-> t, at |-> Returned]
         ELSE IF ColorOf(t, u) = "BLACK"
              THEN [tree |-> Restructuring(t, x), at |-> Returned]
              ELSE [tree |-> w, at |-> g]
  BY DEF CheckTurn
<1>2. p = Up(t, x) /\ g = Up(t, p) /\ u = Down(t, g, Other(SideOf(t, p)))
  BY DEF Up, Down
<1>3. w = Paint(Paint(Paint(t, u, "BLACK"), p, "BLACK"), g,
                IF g = t.root THEN "BLACK" ELSE "RED")
  OBVIOUS
<1>4. black <=> t.node[x].color = "BLACK" \/ t.node[p].color = "BLACK"
  OBVIOUS
<1>. HIDE DEF p, g, u, w, black
<1>5. p = Nil \/ black \/ g = Nil => CheckTurn(Nil, s) = [tree |-> t, at |-> Returned]
  BY <1>1
<1>6. ~ (p = Nil \/ black \/ g = Nil) /\ ColorOf(t, u) = "BLACK" =>
         CheckTurn(Nil, s) = [tree |-> Restructuring(t, x), at |-> Returned]
  BY <1>1
<1>7. ~ (p = Nil \/ black \/ g = Nil) /\ ColorOf(t, u) # "BLACK" =>
         CheckTurn(Nil, s) = [tree |-> w, at |-> g]
  BY <1>1
<1>. QED  BY <1>2, <1>3, <1>4, <1>5, <1>6, <1>7

(* One call of CheckTree leaves at most the node it goes on with below     *)
(* another red.                                                            *)
LEMMA CheckTurnBalanced ==
    ASSUME NEW L, NEW s, Good(s.tree, L), s.at = Returned \/ s.at \in L,
           Balanced(s.tree, L, s.at), NEW r, r = CheckTurn(Nil, s)
    PROVE  Balanced(r.tree, L, r.at)
<1>0. PICK t : t = s.tree
  OBVIOUS
<1>1. PICK x : x = s.at
  OBVIOUS
<1>2. Good(t, L) /\ Balanced(t, L, x) /\ Links(t, L) /\ Nil \notin L /\ Returned \notin L
  <2>1. L \subseteq Slots /\ Links(t, L)
    BY <1>0 DEF Good, Links
  <2>2. Returned \notin Slots
    BY TreeAssumption DEF Slots, Returned
  <2>. QED  BY <1>0, <1>1, <2>1, <2>2, SlotFacts
<1>3. CASE x = Returned
  BY <1>1, <1>3 DEF CheckTurn
<1>4. CASE x \in L /\ x # Returned
  <2>1. PICK p : p = Up(t, x)
    OBVIOUS
  <2>2. PICK g : g = Up(t, p)
    OBVIOUS
  <2>3. PICK u : u = Down(t, g, Other(SideOf(t, p)))
    OBVIOUS
  <2>4. PICK w : w = Paint(Paint(Paint(t, u, "BLACK"), p, "BLACK"), g,
                           IF g = t.root THEN "BLACK" ELSE "RED")
    OBVIOUS
  <2>6. x = t.root <=> p = Nil
    BY <1>2, <1>4, <2>1, LinkFacts
  <2>7. p # Nil => p \in L /\ (p = t.root <=> g = Nil)
    BY <1>2, <1>4, <2>1, <2>2, LinkFacts
  <2>8. /\ t.node[x].color \in {"BLACK", "RED"}
        /\ p # Nil => t.node[p].color \in {"BLACK", "RED"}
    BY <1>2, <1>4, <2>7, ColorIs DEF Good, Links
  <2>9. CASE p = Nil \/ t.node[x].color = "BLACK" \/ t.node[p].color = "BLACK" \/ g = Nil
    <3>1. Parted(t, x) \/ x = t.root
      <4>1. p # Nil /\ g = Nil => t.node[p].color = "BLACK"
        BY <1>2, <2>7 DEF Balanced, BlackRoot
      <4>. QED  BY <2>1, <2>6, <2>8, <2>9, <4>1 DEF Parted
    <3>2. Balanced(t, L, Returned)
      BY <1>2, <3>1 DEF Balanced
    <3>3. r = [tree |-> t, at |-> Returned]
      BY <1>0, <1>1, <1>4, <2>1, <2>2, <2>9, CheckTurnIs
    <3>. QED  BY <3>2, <3>3
  <2>10. CASE ~ (p = Nil \/ t.node[x].color = "BLACK" \/ t.node[p].color = "BLACK" \/ g = Nil)
    <3>1. /\ t.node[x].color = "RED" /\ t.node[p].color = "RED" /\ p # Nil /\ g # Nil
          /\ p \in L /\ g \in L /\ p # x
      BY <1>2, <1>4, <2>1, <2>2, <2>7, <2>8, <2>10, NoCycle
    <3>2. t.node[g].color = "BLACK"
      <4>1. p # t.root
        BY <2>7, <3>1
      <4>. QED  BY <1>2, <2>2, <3>1, <4>1 DEF Balanced, Parted
    <3>3. CASE ColorOf(t, u) = "BLACK"
      <4>1. Balanced(Restructuring(t, x), L, Nil)
        BY <1>2, <1>4, <2>1, <2>2, <2>3, <3>1, <3>2, <3>3, RestructuringBalanced
      <4>2. Balanced(Restructuring(t, x), L, Returned)
        BY <1>2, <4>1 DEF Balanced
      <4>3. r = [tree |-> Restructuring(t, x), at |-> Returned]
        BY <1>0, <1>1, <1>4, <2>1, <2>2, <2>3, <2>10, <3>3, CheckTurnIs
      <4>. QED  BY <4>2, <4>3
    <3>4. CASE ColorOf(t, u) # "BLACK"
      <4>1. u \in L \cup {Nil}
        <5>1. Other(SideOf(t, p)) \in Sides
          BY SideTypes
        <5>. QED  BY <1>2, <2>3, <3>1, <5>1, LinkFacts
      <4>2. ColorOf(t, u) = "RED"
        BY <1>2, <3>4, <4>1, ColorIs DEF Good, Links
      <4>3. Balanced(w, L, g)
        BY <1>2, <1>4, <2>1, <2>2, <2>3, <2>4, <3>1, <3>2, <4>2, RecolorBalanced
      <4>4. r = [tree |-> w, at |-> g]
        BY <1>0, <1>1, <1>4, <2>1, <2>2, <2>3, <2>4, <2>10, <3>4, CheckTurnIs
      <4>. QED  BY <4>3, <4>4
    <3>. QED  BY <3>3, <3>4
  <2>. QED  BY <2>9, <2>10
<1>. QED  BY <1>1, <1>3, <1>4

(* CheckTree parts two reds in a row.                                      *)
LEMMA CheckTreeBalanced ==
    ASSUME NEW t, NEW L, Good(t, L), NEW x \in L, Balanced(t, L, x)
    PROVE  Balanced(CheckTree(t, x), L, Nil)
<1>. DEFINE start == [tree |-> t, at |-> x]
            R == CheckLoop!Run(Nil, start)
            T == {n \in Nat : /\ Good(R[n].tree, L)
                              /\ R[n].at = Returned \/ R[n].at \in L
                              /\ Balanced(R[n].tree, L, R[n].at)}
<1>1. R[0] = start /\ \A n \in Nat : R[n + 1] = CheckTurn(Nil, R[n])
  BY CheckLoop!RunSteps
<1>2. PICK n \in Nat : R[n].at = Returned /\ R[n].tree = CheckTree(t, x)
  BY CheckTreeGood
<1>3. start.tree = t /\ start.at = x
  OBVIOUS
<1>. HIDE DEF R, start
<1>4. 0 \in T
  BY <1>1, <1>3
<1>5. ASSUME NEW m \in Nat, m \in T  PROVE m + 1 \in T
  <2>1. PICK s : s = R[m]
    OBVIOUS
  <2>2. PICK r : r = R[m + 1]
    OBVIOUS
  <2>3. /\ Good(s.tree, L)
        /\ s.at = Returned \/ s.at \in L
        /\ Balanced(s.tree, L, s.at)
        /\ r = CheckTurn(Nil, s)
    BY <1>1, <1>5, <2>1, <2>2
  <2>4. Good(r.tree, L) /\ (r.at = Returned \/ r.at \in L)
    BY <2>3, CheckTurnGood
  <2>5. Balanced(r.tree, L, r.at)
    BY <2>3, CheckTurnBalanced
  <2>. QED  BY <2>2, <2>4, <2>5
<1>6. Nat \subseteq T
  <2>. HIDE DEF T
  <2>. QED  BY <1>4, <1>5, CheckLoop!SetInduction
<1>7. Balanced(CheckTree(t, x), L, Returned)
  BY <1>2, <1>6
<1>8. Returned \notin L /\ Nil \notin L
  <2>1. Returned \notin Slots
    BY TreeAssumption DEF Slots, Returned
  <2>. QED  BY <2>1, SlotFacts DEF Good, Links
<1>. QED  BY <1>7, <1>8 DEF Balanced
-----------------------------------------------------------------------------
(* u is t with the leaf x of L below i, coloured as before.                *)
Leafed(t, u, L, x, i, side) ==
    /\ u.root = t.root
    /\ \A j \in L \cup {x} :
          /\ u.node[j].color = t.node[j].color
          /\ Up(u, j) = IF j = x THEN i ELSE Up(t, j)
          /\ \A s \in Sides : Down(u, j, s) = IF j = i /\ s = side THEN x ELSE Down(t, j, s)

(* A leaf linked where the search for its key ended keeps the invariant.   *)
LEMMA LeafLinked ==
    ASSUME NEW t, NEW L, Good(t, L), NEW x \in Slots \ L,
           t.node[x].index = x, \A s \in Sides : Down(t, x, s) = Nil,
           NEW k, k = KeyOf(t, x),
           NEW i \in L, KeyOf(t, i) # k, Visits(t, k, i),
           NEW side, side = Toward(t, k, i), Down(t, i, side) = Nil,
           NEW u, u = Put(Put(t, i, side, x), x, "parent", i)
    PROVE  Good(u, L \cup {x}) /\ Leafed(t, u, L, x, i, side)
<1>1. Typed(t) /\ Links(t, L) /\ L \subseteq Slots /\ Nil \notin L /\ x # Nil
  BY SlotFacts DEF Good, Links
<1>2. side \in Sides /\ side \in Fields /\ "parent" \in Fields /\ side # "parent"
  BY TowardFacts DEF Fields, Sides
<1>3. PICK v : v = Put(t, i, side, x)
  OBVIOUS
<1>4. Written(t, v, i, side, x)
  <2>1. i \in Slots /\ Fits(side, x)
    BY <1>1, <1>2, FitsFacts
  <2>. QED  BY <1>1, <1>2, <1>3, <2>1, PutWrites
<1>5. Written(v, u, x, "parent", i)
  <2>1. Typed(v)
    BY <1>4 DEF Written
  <2>2. Fits("parent", i)
    BY <1>1, FitsFacts
  <2>. QED  BY <1>2, <1>3, <2>1, <2>2, PutWrites
<1>6. Typed(u) /\ u.root = t.root
  BY <1>4, <1>5 DEF Written
<1>7. \A j \in Slots, h \in Fields :
         u.node[j][h] = IF j = x /\ h = "parent" THEN i
                        ELSE IF j = i /\ h = side THEN x ELSE t.node[j][h]
  BY <1>4, <1>5 DEF Written
<1>8. ASSUME NEW j \in L \cup {x}
      PROVE  /\ u.node[j].index = t.node[j].index
             /\ KeyOf(u, j) = KeyOf(t, j)
             /\ Up(u, j) = IF j = x THEN i ELSE Up(t, j)
             /\ \A s \in Sides : Down(u, j, s) = IF j = i /\ s = side THEN x ELSE Down(t, j, s)
  <2>1. j \in Slots
    BY <1>1
  <2>2. u.node[j].index = t.node[j].index /\ u.node[j].Key = t.node[j].Key
    BY <1>2, <1>7, <2>1 DEF Fields, Sides
  <2>3. u.node[j].parent = IF j = x THEN i ELSE t.node[j].parent
    BY <1>2, <1>7, <2>1
  <2>4. \A s \in Sides : u.node[j][s] = IF j = i /\ s = side THEN x ELSE t.node[j][s]
    BY <1>2, <1>7, <2>1 DEF Fields, Sides
  <2>. QED  BY <2>2, <2>3, <2>4 DEF KeyOf, Up, Down
<1>9. Links(u, L \cup {x})
  <2>1. L \cup {x} \subseteq Slots /\ u.root \in L \cup {x} \cup {Nil}
    BY <1>1, <1>6 DEF Links
  <2>2. KeyOf(t, x) \in Nat
    BY <1>1, TypedFacts
  <2>3. ASSUME NEW j \in L \cup {x}
        PROVE  /\ KeyOf(u, j) \in Nat
               /\ u.node[j].index = j
               /\ Up(u, j) \in L \cup {x} \cup {Nil}
               /\ Up(u, j) = Nil <=> j = u.root
    <3>1. CASE j = x
      <4>1. u.root # x
        BY <1>1, <1>6 DEF Links
      <4>. QED  BY <1>1, <1>8, <2>2, <3>1, <4>1
    <3>2. CASE j \in L
      BY <1>1, <1>6, <1>8, <3>2 DEF Links
    <3>. QED  BY <3>1, <3>2
  <2>4. ASSUME NEW j \in L \cup {x}, NEW s \in Sides
        PROVE  /\ Down(u, j, s) \in (L \cup {x} \cup {Nil}) \ {j}
               /\ Down(u, j, s) # Nil => Up(u, Down(u, j, s)) = j
               /\ Down(u, j, s) = Down(u, j, Other(s)) => Down(u, j, s) = Nil
    <3>1. Other(s) \in Sides /\ Other(s) # s
      BY TowardFacts
    <3>2. /\ Down(u, j, s) = IF j = i /\ s = side THEN x ELSE Down(t, j, s)
          /\ Down(u, j, Other(s)) = IF j = i /\ Other(s) = side THEN x ELSE Down(t, j, Other(s))
      BY <1>8, <3>1
    <3>3. CASE j = x
      BY <1>1, <3>2, <3>3
    <3>4. CASE j \in L
      <4>1. /\ Down(t, j, s) \in L \cup {Nil}
            /\ Down(t, j, s) # j
            /\ Down(t, j, s) # Nil => /\ Up(t, Down(t, j, s)) = j
                                      /\ Down(t, j, s) # Down(t, j, Other(s))
        BY <1>1, <3>4, LinkFacts
      <4>2. Down(t, j, Other(s)) \in L \cup {Nil}
        BY <1>1, <3>1, <3>4, LinkFacts
      <4>3. x \notin L /\ Up(u, x) = i
        BY <1>8
      <4>4. Down(t, j, s) # Nil => Up(u, Down(t, j, s)) = j
        BY <1>8, <4>1, <4>3
      <4>5. PICK a : a = Down(u, j, s)
        OBVIOUS
      <4>6. PICK b : b = Down(u, j, Other(s))
        OBVIOUS
      <4>7. CASE j = i /\ s = side
        <5>1. a = x /\ b = Down(t, j, Other(s))
          BY <3>1, <3>2, <4>5, <4>6, <4>7
        <5>2. a # j /\ a # b
          BY <1>1, <3>4, <4>2, <4>3, <5>1
        <5>. QED  BY <4>3, <4>5, <4>6, <4>7, <5>1, <5>2
      <4>8. CASE ~ (j = i /\ s = side)
        <5>1. a = Down(t, j, s) /\ b \in {x, Down(t, j, Other(s))}
          BY <3>2, <4>5, <4>6, <4>8
        <5>2. a # x
          BY <1>1, <4>1, <4>3, <5>1
        <5>3. a = b => a = Nil
          BY <4>1, <5>1, <5>2
        <5>. QED  BY <4>1, <4>4, <4>5, <4>6, <5>1, <5>3
      <4>. QED  BY <4>7, <4>8
    <3>. QED  BY <3>3, <3>4
  <2>. QED  BY <2>1, <2>3, <2>4 DEF Links
<1>10. ASSUME NEW h, NEW y \in L, Visits(t, h, y)  PROVE Visits(u, h, y)
  <2>. DEFINE S == {z \in L : Visits(u, h, z)}
  <2>1. t.root \in L => t.root \in S
    BY <1>6, VisitRoot
  <2>2. ASSUME NEW z \in S, KeyOf(t, z) # h, Child(t, h, z) \in L
        PROVE  Child(t, h, z) \in S
    <3>1. Visits(u, h, Down(u, z, Toward(u, h, z)))
      BY <1>8, <1>9, <2>2, StepDown
    <3>2. Toward(u, h, z) = Toward(t, h, z) /\ Toward(t, h, z) \in Sides
          /\ Child(t, h, z) = Down(t, z, Toward(t, h, z))
      BY <1>8, TowardFacts DEF Toward
    <3>3. Down(u, z, Toward(t, h, z)) = Down(t, z, Toward(t, h, z))
      BY <1>1, <1>8, <2>2, <3>2
    <3>. QED  BY <2>2, <3>1, <3>2, <3>3
  <2>. HIDE DEF S
  <2>3. y \in S
    BY <1>1, <1>10, <2>1, <2>2, VisitsWithin
  <2>. QED  BY <2>3 DEF S
<1>11. Visits(u, k, x)
  <2>1. Visits(u, k, i) /\ KeyOf(u, i) # k
    BY <1>8, <1>10
  <2>2. Toward(u, k, i) = side
    BY <1>8 DEF Toward
  <2>3. Visits(u, k, Down(u, i, side))
    BY <1>9, <2>1, <2>2, StepDown
  <2>. QED  BY <1>2, <1>8, <2>3
<1>12. ASSUME NEW l \in L \cup {x}  PROVE Visits(u, KeyOf(u, l), l)
  <2>1. CASE l = x
    BY <1>8, <1>11, <2>1
  <2>2. CASE l \in L
    <3>1. Visits(t, KeyOf(t, l), l)
      BY <2>2 DEF Good
    <3>. QED  BY <1>8, <1>10, <2>2, <3>1
  <2>. QED  BY <2>1, <2>2
<1>13. Good(u, L \cup {x})
  BY <1>6, <1>9, <1>12 DEF Good
<1>14. ASSUME NEW j \in L \cup {x}  PROVE u.node[j].color = t.node[j].color
  <2>1. j \in Slots
    BY <1>1
  <2>. QED  BY <1>2, <1>7, <2>1 DEF Fields, Sides
<1>. QED  BY <1>6, <1>8, <1>13, <1>14 DEF Leafed

(* The slots the descent of insert passes (line 169).                      *)
Descent(t, x) == DescentLoop!Run([tree |-> t, new |-> x], t.root)

(* It begins at the root and goes to a child; the new node is linked below *)
(* its last slot.                                                          *)
LEMMA DescentSteps ==
    ASSUME NEW t, NEW x
    PROVE  /\ Descent(t, x)[0] = t.root
           /\ \A n \in Nat : Descent(t, x)[n + 1] =
                 IF DescentEnds(t, x, Descent(t, x)[n]) THEN Descent(t, x)[n]
                 ELSE Child(t, KeyOf(t, x), Descent(t, x)[n])
           /\ Attach(t, x, t.root) =
                 LinkedBelow(t, x, IF DescentEnds(t, x, Descent(t, x)[MaxTurns])
                                   THEN Descent(t, x)[MaxTurns] ELSE Endless)
<1>. DEFINE q == [tree |-> t, new |-> x]
<1>1. q.tree = t /\ q.new = x
  OBVIOUS
<1>. HIDE DEF q
<1>2. /\ DescentLoop!Run(q, t.root)[0] = t.root
      /\ \A n \in Nat :
            DescentLoop!Run(q, t.root)[n + 1] = DescentTurn(q, DescentLoop!Run(q, t.root)[n])
  BY DescentLoop!RunSteps
<1>3. Descent(t, x) = DescentLoop!Run(q, t.root)
  BY DEF Descent, q
<1>4. DescentLoop!Result(q, t.root, MaxTurns, Endless) =
         IF DescentOver(q, Descent(t, x)[MaxTurns]) THEN Descent(t, x)[MaxTurns] ELSE Endless
  BY <1>3, DescentLoop!ResultIs
<1>5. Attach(t, x, t.root) = LinkedBelow(t, x, DescentLoop!Result(q, t.root, MaxTurns, Endless))
  BY DEF Attach, q
<1>6. \A i : t.node[i][SideFor(t, x, i)] = Child(t, KeyOf(t, x), i)
  BY DEF SideFor, Child, KeyOf
<1>. QED  BY <1>1, <1>2, <1>3, <1>4, <1>5, <1>6 DEF DescentTurn, DescentOver

(* For a missing key it ends, on the path of the search, at a node with a  *)
(* free link on the right side.                                            *)
LEMMA DescentFinds ==
    ASSUME NEW t, NEW L, Good(t, L), t.root \in L, NEW x,
           NEW k, k = KeyOf(t, x), \A l \in L : KeyOf(t, l) # k
    PROVE  LET i == Descent(t, x)[MaxTurns]
           IN  /\ i \in L
               /\ Visits(t, k, i)
               /\ DescentEnds(t, x, i)
               /\ Child(t, k, i) = Nil
<1>. DEFINE D == Descent(t, x)
            P == Search(t, k)
            T == {n \in Nat : D[n] \in L /\ Visits(t, k, D[n])}
            U == {n \in Nat : n <= MaxTurns => P[n] = D[n]}
<1>0. Links(t, L) /\ Nil \notin L /\ MaxTurns \in Nat /\ MaxSize \in Nat /\ MaxTurns = MaxSize + 1
  BY SlotFacts, MaxTurnsType DEF Good, Links, MaxTurns
<1>1. /\ D[0] = t.root
      /\ \A n \in Nat : D[n + 1] = IF DescentEnds(t, x, D[n]) THEN D[n] ELSE Child(t, k, D[n])
  BY DescentSteps
<1>2. \A i : DescentEnds(t, x, i) <=> KeyOf(t, i) = k \/ Child(t, k, i) = Nil
  BY DEF DescentEnds, SideFor, Child, KeyOf
<1>. HIDE DEF D, P
<1>3. 0 \in T
  BY <1>1, VisitRoot
<1>4. ASSUME NEW n \in Nat, n \in T  PROVE n + 1 \in T
  <2>1. D[n] \in L /\ Visits(t, k, D[n]) /\ KeyOf(t, D[n]) # k
    BY <1>4
  <2>2. Visits(t, k, Child(t, k, D[n])) /\ Child(t, k, D[n]) \in L \cup {Nil}
    BY <1>0, <2>1, VisitStep, LinkFacts, TowardFacts
  <2>3. CASE DescentEnds(t, x, D[n])
    BY <1>1, <2>1, <2>3
  <2>4. CASE ~ DescentEnds(t, x, D[n])
    BY <1>1, <1>2, <2>2, <2>4
  <2>. QED  BY <2>3, <2>4
<1>5. \A n \in Nat : D[n] \in L /\ Visits(t, k, D[n])
  <2>1. Nat \subseteq T
    <3>. HIDE DEF T
    <3>. QED  BY <1>3, <1>4, SearchLoop!SetInduction
  <2>. QED  BY <2>1
<1>6. DescentEnds(t, x, D[MaxTurns])
  <2>. SUFFICES ASSUME ~ DescentEnds(t, x, D[MaxTurns])  PROVE FALSE
    OBVIOUS
  <2>1. ASSUME NEW n \in Nat, n <= MaxTurns  PROVE ~ DescentEnds(t, x, D[n])
    <3>. SUFFICES ASSUME DescentEnds(t, x, D[n])  PROVE FALSE
      OBVIOUS
    <3>. DEFINE q == [tree |-> t, new |-> x]
    <3>1. q.tree = t /\ q.new = x
      OBVIOUS
    <3>. HIDE DEF q
    <3>2. D = DescentLoop!Run(q, t.root)
      BY DEF D, Descent, q
    <3>3. DescentTurn(q, D[n]) = D[n]
      BY <3>1 DEF DescentTurn
    <3>4. D[MaxTurns] = D[n]
      BY <1>0, <2>1, <3>2, <3>3, DescentLoop!RunRests
    <3>. QED  BY <3>4
  <2>2. 0 \in U
    BY <1>1, SearchSteps DEF P
  <2>3. ASSUME NEW n \in Nat, n \in U  PROVE n + 1 \in U
    <3>. SUFFICES ASSUME n + 1 <= MaxTurns  PROVE P[n + 1] = D[n + 1]
      OBVIOUS
    <3>1. n <= MaxTurns /\ P[n] = D[n]
      BY <1>0, <2>3
    <3>2. D[n + 1] = Child(t, k, D[n])
      BY <1>1, <2>1, <3>1
    <3>3. ~ SearchEnds(t, k, P[n])
      <4>1. D[n] \in L /\ KeyOf(t, D[n]) # k
        BY <1>5
      <4>. QED  BY <1>0, <3>1, <4>1, LinkFacts
    <3>4. P[n + 1] = Child(t, k, P[n])
      BY <1>0, <3>3, PathStep DEF P
    <3>. QED  BY <3>1, <3>2, <3>4
  <2>4. Nat \subseteq U
    <3>. HIDE DEF U
    <3>. QED  BY <2>2, <2>3, SearchLoop!SetInduction
  <2>5. PICK n \in 0 .. MaxSize : SearchEnds(t, k, P[n])
    BY <1>0, SearchFinishes DEF P
  <2>6. n \in Nat /\ n <= MaxTurns
    BY <1>0
  <2>7. P[n] = D[n]
    BY <2>4, <2>6
  <2>8. D[n] \in L /\ KeyOf(t, D[n]) # k
    BY <1>5, <2>6
  <2>. QED  BY <1>0, <2>5, <2>7, <2>8, LinkFacts
<1>7. D[MaxTurns] \in L /\ Visits(t, k, D[MaxTurns])
  BY <1>0, <1>5
<1>8. Child(t, k, D[MaxTurns]) = Nil
  BY <1>2, <1>6, <1>7
<1>. QED  BY <1>6, <1>7, <1>8 DEF D

(* insert links a new node with a missing key where the search for its key *)
(* ended, and repairs from there.                                          *)
LEMMA AttachIs ==
    ASSUME NEW t, NEW L, Good(t, L), t.root \in L, NEW x \in Slots \ L,
           t.node[x].index = x, \A s \in Sides : Down(t, x, s) = Nil,
           \A l \in L : KeyOf(t, l) # KeyOf(t, x)
    PROVE  \E u, i, side : /\ i \in L /\ side \in Sides /\ Down(t, i, side) = Nil
                           /\ Leafed(t, u, L, x, i, side)
                           /\ Good(u, L \cup {x})
                           /\ Attach(t, x, t.root) = CheckTree(u, x)
<1>1. PICK i : i = Descent(t, x)[MaxTurns]
  OBVIOUS
<1>2. PICK k : k = KeyOf(t, x)
  OBVIOUS
<1>3. i \in L /\ Visits(t, k, i) /\ DescentEnds(t, x, i) /\ Child(t, k, i) = Nil
  BY <1>1, <1>2, DescentFinds
<1>4. Attach(t, x, t.root) = LinkedBelow(t, x, i)
  BY <1>1, <1>3, DescentSteps
<1>5. i # Endless /\ KeyOf(t, i) # k
  BY <1>2, <1>3, SlotFacts DEF Good, Links
<1>6. PICK side : side = Toward(t, k, i)
  OBVIOUS
<1>7. SideFor(t, x, i) = side /\ Down(t, i, side) = Nil /\ side \in Sides
  BY <1>2, <1>3, <1>6, TowardFacts DEF SideFor, Toward, KeyOf
<1>8. PICK u : u = Put(Put(t, i, side, x), x, "parent", i)
  OBVIOUS
<1>9. LinkedBelow(t, x, i) = CheckTree(u, x)
  BY <1>2, <1>5, <1>7, <1>8 DEF LinkedBelow, KeyOf
<1>10. Good(u, L \cup {x}) /\ Leafed(t, u, L, x, i, side)
  BY <1>2, <1>3, <1>5, <1>6, <1>7, <1>8, LeafLinked
<1>. QED  BY <1>3, <1>4, <1>7, <1>9, <1>10

(* Linking a new node with a missing key, and the repair above it, keep    *)
(* the invariant.                                                          *)
LEMMA AttachGood ==
    ASSUME NEW t, NEW L, Good(t, L), t.root \in L, NEW x \in Slots \ L,
           t.node[x].index = x, \A s \in Sides : Down(t, x, s) = Nil,
           \A l \in L : KeyOf(t, l) # KeyOf(t, x)
    PROVE  Good(Attach(t, x, t.root), L \cup {x})
<1>1. PICK u, i, side : Good(u, L \cup {x}) /\ Attach(t, x, t.root) = CheckTree(u, x)
  BY AttachIs
<1>2. PICK M : M = L \cup {x}
  OBVIOUS
<1>3. Good(CheckTree(u, x), M)
  BY <1>1, <1>2, CheckTreeGood
<1>. QED  BY <1>1, <1>2, <1>3

(* A red leaf is the only one that may have a red parent.                  *)
LEMMA LeafBalanced ==
    ASSUME NEW t, NEW L, Good(t, L), Balanced(t, L, Nil), t.root \in L, NEW x \in Slots \ L,
           \A s \in Sides : Down(t, x, s) = Nil, t.node[x].color = "RED",
           NEW i \in L, NEW side \in Sides, Down(t, i, side) = Nil,
           NEW u, Leafed(t, u, L, x, i, side)
    PROVE  Balanced(u, L \cup {x}, x)
<1>1. Links(t, L) /\ Nil \notin L /\ x # Nil /\ x \notin L
  BY SlotFacts DEF Good, Links
<1>2. /\ u.root = t.root
      /\ \A j \in L \cup {x} :
            /\ u.node[j].color = t.node[j].color
            /\ Up(u, j) = IF j = x THEN i ELSE Up(t, j)
            /\ \A s \in Sides : Down(u, j, s) = IF j = i /\ s = side THEN x ELSE Down(t, j, s)
  BY DEF Leafed
<1>3. BlackRoot(u)
  BY <1>2 DEF Balanced, BlackRoot
<1>4. ASSUME NEW j \in L \ {u.root}  PROVE Parted(u, j)
  <2>1. Up(u, j) = Up(t, j) /\ Up(t, j) \in L
    BY <1>1, <1>2, LinkFacts
  <2>2. Parted(t, j)
    BY <1>1, <1>2 DEF Balanced
  <2>. QED  BY <1>2, <2>1, <2>2 DEF Parted
<1>5. PICK h : Heights(t, L, h)
  BY DEF Balanced
<1>. DEFINE f == [j \in L \cup {x} \cup {Nil} |-> IF j = x THEN 0 ELSE h[j]]
<1>6. /\ f \in [L \cup {x} \cup {Nil} -> Int] /\ f[Nil] = 0 /\ f[x] = 0
      /\ \A j \in L \cup {Nil} : f[j] = h[j]
  BY <1>1, <1>5 DEF Heights
<1>7. ASSUME NEW j \in L \cup {x}, NEW s \in Sides  PROVE f[j] = f[Down(u, j, s)] + Black(u, j)
  <2>1. Black(u, j) = Black(t, j)
    BY <1>2 DEF Black
  <2>2. CASE j = x
    <3>1. Down(u, j, s) = Nil /\ Black(t, j) = 0
      BY <1>1, <1>2, <2>2 DEF Black
    <3>. QED  BY <1>6, <2>1, <2>2, <3>1
  <2>3. CASE j \in L
    <3>1. h[j] = h[Down(t, j, s)] + Black(t, j) /\ Down(t, j, s) \in L \cup {Nil} /\ h[Nil] = 0
      BY <1>1, <1>5, <2>3, LinkFacts DEF Heights
    <3>2. f[Down(u, j, s)] = h[Down(t, j, s)]
      BY <1>2, <1>6, <2>3, <3>1
    <3>. QED  BY <1>6, <2>1, <2>3, <3>1, <3>2
  <2>. QED  BY <2>2, <2>3
<1>. HIDE DEF f
<1>8. Heights(u, L \cup {x}, f)
  BY <1>6, <1>7 DEF Heights
<1>. QED  BY <1>3, <1>4, <1>8 DEF Balanced

(* insert parts it from its parent.                                        *)
LEMMA AttachBalanced ==
    ASSUME NEW t, NEW L, Good(t, L), Balanced(t, L, Nil), t.root \in L, NEW x \in Slots \ L,
           t.node[x].index = x, \A s \in Sides : Down(t, x, s) = Nil, t.node[x].color = "RED",
           \A l \in L : KeyOf(t, l) # KeyOf(t, x)
    PROVE  Balanced(Attach(t, x, t.root), L \cup {x}, Nil)
<1>1. PICK u, i, side : /\ i \in L /\ side \in Sides /\ Down(t, i, side) = Nil
                        /\ Leafed(t, u, L, x, i, side)
                        /\ Good(u, L \cup {x})
                        /\ Attach(t, x, t.root) = CheckTree(u, x)
  BY AttachIs
<1>2. Balanced(u, L \cup {x}, x)
  BY <1>1, LeafBalanced
<1>3. PICK M : M = L \cup {x}
  OBVIOUS
<1>4. Balanced(CheckTree(u, x), M, Nil)
  BY <1>1, <1>2, <1>3, CheckTreeBalanced
<1>. QED  BY <1>1, <1>3, <1>4

(* A tree with the same links and colours is red-black too.                *)
LEMMA AlikeBalanced ==
    ASSUME NEW t, NEW u, NEW L, Good(t, L), Alike(t, u, L),
           \A l \in L : u.node[l].color = t.node[l].color,
           NEW x, Balanced(t, L, x)
    PROVE  Balanced(u, L, x)
<1>1. Links(t, L) /\ u.root = t.root
  BY DEF Good, Alike
<1>2. BlackRoot(u)
  BY <1>1 DEF Balanced, BlackRoot, Links
<1>3. ASSUME NEW i \in L \ {x, u.root}  PROVE Parted(u, i)
  <2>1. Up(u, i) = Up(t, i) /\ Up(t, i) \in L
    BY <1>1, AlikeFacts, LinkFacts
  <2>2. Parted(t, i)
    BY <1>1 DEF Balanced
  <2>. QED  BY <2>1, <2>2 DEF Parted
<1>4. PICK h : Heights(t, L, h)
  BY DEF Balanced
<1>5. \A i \in L : Black(u, i) = Black(t, i) /\ \A s \in Sides : Down(u, i, s) = Down(t, i, s)
  BY AlikeFacts DEF Black
<1>6. Heights(u, L, h)
  BY <1>4, <1>5 DEF Heights
<1>. QED  BY <1>2, <1>3, <1>6 DEF Balanced
-----------------------------------------------------------------------------
(* The invariant, for the first slots of the array.                        *)
Whole(t) == Good(t, 0 .. t.size - 1)

(* A red-black tree: RedBlackInvariant of any tree.                        *)
RedBlack(t) == Balanced(t, 0 .. t.size - 1, Nil)

(* A typed tree has the fields of one.                                     *)
LEMMA TypedShape ==
    ASSUME NEW t, Typed(t)
    PROVE  Shape(t) /\ Kept(t, t)
<1>1. DOMAIN t = {"root", "size", "node"} /\ t.node \in [Slots -> Nodes]
  BY DEF Typed
<1>2. ASSUME NEW n \in Nodes  PROVE DOMAIN n = Fields
  BY DEF Nodes, Fields
<1>3. Shape(t)
  BY <1>1, <1>2 DEF Shape
<1>. QED  BY <1>3 DEF Kept

(* A single node is a good tree.                                           *)
LEMMA SingleGood ==
    ASSUME NEW t, Typed(t), NEW x \in Slots, t.root = x, t.node[x].index = x,
           Up(t, x) = Nil, \A s \in Sides : Down(t, x, s) = Nil
    PROVE  Good(t, {x})
<1>1. KeyOf(t, x) \in Nat /\ x # Nil
  BY TypedFacts, SlotFacts
<1>2. Links(t, {x})
  BY <1>1 DEF Links
<1>. QED  BY <1>2, VisitRoot DEF Good

(* The number of nodes does not matter to the nodes.                       *)
LEMMA ResizedGood ==
    ASSUME NEW t, NEW L, Good(t, L), NEW n \in 0 .. MaxSize, NEW u, u = [t EXCEPT !.size = n]
    PROVE  Good(u, L)
<1>1. Typed(u) /\ u.root = t.root /\ u.node = t.node
  BY DEF Good, Typed
<1>2. Alike(t, u, L)
  BY <1>1 DEF Alike
<1>. QED  BY <1>1, <1>2, AlikeGood

(* Without a root there is no node.                                        *)
LEMMA NoRoot ==
    ASSUME NEW t, NEW L, Good(t, L), t.root = Nil
    PROVE  L = {}
<1>1. ASSUME NEW l \in L  PROVE FALSE
  <2>1. Visits(t, KeyOf(t, l), l) /\ l # Nil
    BY SlotFacts DEF Good, Links
  <2>. QED  BY <2>1, NothingVisited
<1>. QED  BY <1>1

(* A black node is a red-black tree.                                       *)
LEMMA SingleBalanced ==
    ASSUME NEW t, NEW x \in Slots, t.root = x, t.node[x].color = "BLACK",
           \A s \in Sides : Down(t, x, s) = Nil
    PROVE  Balanced(t, {x}, Nil)
<1>. DEFINE h == [i \in {x} \cup {Nil} |-> IF i = Nil THEN 0 ELSE 1]
<1>1. x # Nil
  BY SlotFacts
<1>2. Black(t, x) = 1 /\ h[x] = 1 /\ h[Nil] = 0 /\ h \in [{x} \cup {Nil} -> Int]
  BY <1>1 DEF Black
<1>. HIDE DEF h
<1>3. Heights(t, {x}, h)
  BY <1>2 DEF Heights
<1>. QED  BY <1>3 DEF Balanced, BlackRoot

(* An insertion of a missing key into a good tree gives a good tree, and   *)
(* one into a red-black tree a red-black tree.                             *)
LEMMA InsertedWhole ==
    ASSUME NEW t, Whole(t), t.size < MaxSize, NEW k \in Keys, NEW v \in InsertValues,
           \A l \in 0 .. t.size - 1 : KeyOf(t, l) # k
    PROVE  /\ Whole(Inserted(t, k, v))
           /\ RedBlack(t) => RedBlack(Inserted(t, k, v))
<1>0. PICK L : L = 0 .. t.size - 1
  OBVIOUS
<1>1. PICK x : x = t.size
  OBVIOUS
<1>2. Good(t, L) /\ Typed(t) /\ Links(t, L) /\ \A l \in L : KeyOf(t, l) # k
  BY <1>0 DEF Whole, Good
<1>3. /\ x \in Slots /\ x \notin L /\ x + 1 \in 0 .. MaxSize
      /\ L \cup {x} = 0 .. x /\ L \subseteq Slots
  BY <1>0, <1>1, <1>2, TypedFacts, MaxTurnsType DEF Slots
<1>4. PICK new : new = [left |-> Nil, right |-> Nil, parent |-> Nil, index |-> x,
                        Key |-> k, Value |-> v, color |-> "RED"]
  OBVIOUS
<1>5. PICK fresh : fresh = [t EXCEPT !.node[x] = new]
  OBVIOUS
<1>6. PICK linked : linked = IF t.root = Nil THEN Paint(PutRoot(fresh, x), x, "BLACK")
                                             ELSE Attach(fresh, x, t.root)
  OBVIOUS
<1>7. Inserted(t, k, v) = [linked EXCEPT !.size = @ + 1]
  BY <1>1, <1>4, <1>5, <1>6 DEF Inserted
<1>8. /\ Typed(fresh) /\ fresh.root = t.root /\ fresh.size = t.size
      /\ fresh.node[x].index = x
      /\ KeyOf(fresh, x) = k
      /\ Up(fresh, x) = Nil
      /\ \A s \in Sides : Down(fresh, x, s) = Nil
      /\ fresh.node[x].color = "RED"
      /\ \A j \in Slots : j # x => fresh.node[j] = t.node[j]
  <2>1. new \in Nodes
    BY <1>3, <1>4, TreeAssumption DEF Nodes, Slots
  <2>2. /\ Typed(fresh) /\ fresh.root = t.root /\ fresh.size = t.size
        /\ fresh.node[x] = new
        /\ \A j \in Slots : j # x => fresh.node[j] = t.node[j]
    <3>1. fresh.node = [t.node EXCEPT ![x] = new] /\ fresh.root = t.root /\ fresh.size = t.size
          /\ fresh = [root |-> t.root, size |-> t.size, node |-> [t.node EXCEPT ![x] = new]]
      BY <1>2, <1>5 DEF Typed
    <3>2. t.node \in [Slots -> Nodes]
      BY <1>2 DEF Typed
    <3>3. fresh.node \in [Slots -> Nodes]
      BY <2>1, <3>1, <3>2
    <3>4. Typed(fresh)
      BY <1>2, <3>1, <3>3 DEF Typed
    <3>. QED  BY <1>3, <3>1, <3>2, <3>4
  <2>3. /\ new.index = x /\ new.Key = k /\ new.parent = Nil /\ new.left = Nil /\ new.right = Nil
        /\ new.color = "RED"
    BY <1>4
  <2>. QED  BY <2>2, <2>3 DEF KeyOf, Up, Down, Sides
<1>9. Alike(t, fresh, L)
  BY <1>3, <1>8 DEF Alike
<1>10. Good(fresh, L)
  BY <1>2, <1>8, <1>9, AlikeGood
<1>11. Good(linked, L \cup {x})
  <2>1. CASE t.root = Nil
    <3>1. L = {}
      BY <1>2, <2>1, NoRoot
    <3>2. PICK u : u = PutRoot(fresh, x)
      OBVIOUS
    <3>3. Typed(u) /\ u.root = x /\ u.node = fresh.node
      BY <1>3, <1>8, <3>2, PutRootFacts
    <3>4. /\ u.node[x].index = x
          /\ Up(u, x) = Nil
          /\ \A s \in Sides : Down(u, x, s) = Nil
      BY <1>8, <3>3 DEF Up, Down
    <3>5. Good(u, {x})
      BY <1>3, <3>3, <3>4, SingleGood
    <3>. QED  BY <1>6, <2>1, <3>1, <3>2, <3>5, PaintGood
  <2>2. CASE t.root # Nil
    <3>1. fresh.root \in L
      BY <1>2, <1>8, <2>2 DEF Links
    <3>2. ASSUME NEW l \in L  PROVE KeyOf(fresh, l) # KeyOf(fresh, x)
      <4>1. KeyOf(fresh, l) = KeyOf(t, l)
        BY <1>9 DEF Alike, Steering, KeyOf
      <4>. QED  BY <1>2, <1>8, <4>1
    <3>3. Good(Attach(fresh, x, fresh.root), L \cup {x})
      BY <1>3, <1>8, <1>10, <3>1, <3>2, AttachGood
    <3>. QED  BY <1>6, <1>8, <2>2, <3>3
  <2>. QED  BY <2>1, <2>2
<1>12. linked.size = x
  <2>1. Kept(fresh, linked)
    <3>1. Kept(fresh, fresh)
      BY <1>8, TypedShape
    <3>. QED  BY <1>6, <3>1, PaintKeeps, PutRootKeeps, AttachKeeps
  <2>. QED  BY <1>1, <1>8, <2>1 DEF Kept
<1>13. PICK w : w = [linked EXCEPT !.size = x + 1]
  OBVIOUS
<1>14. Inserted(t, k, v) = w
  BY <1>7, <1>12, <1>13
<1>15. Good(w, L \cup {x})
  BY <1>3, <1>11, <1>13, ResizedGood
<1>16. w.size = x + 1
  BY <1>11, <1>13 DEF Good, Typed
<1>17. w.size - 1 = x
  BY <1>3, <1>16 DEF Slots
<1>18. ASSUME Balanced(t, L, Nil)  PROVE Balanced(linked, L \cup {x}, Nil)
  <2>1. CASE t.root = Nil
    <3>1. L = {}
      BY <1>2, <2>1, NoRoot
    <3>2. PICK u : u = PutRoot(fresh, x)
      OBVIOUS
    <3>3. Typed(u) /\ u.root = x /\ u.node = fresh.node
      BY <1>3, <1>8, <3>2, PutRootFacts
    <3>4. PICK z : z = Paint(u, x, "BLACK")
      OBVIOUS
    <3>5. Alike(u, z, Slots) /\ z.node[x].color = "BLACK"
      BY <1>3, <3>3, <3>4, PaintFacts
    <3>6. z.root = x /\ \A s \in Sides : Down(z, x, s) = Nil
      <4>1. \A s \in Sides : Down(z, x, s) = Down(u, x, s)
        BY <1>3, <3>5, AlikeFacts
      <4>. QED  BY <1>8, <3>3, <3>5, <4>1 DEF Alike, Down
    <3>7. Balanced(z, {x}, Nil)
      BY <1>3, <3>5, <3>6, SingleBalanced
    <3>. QED  BY <1>6, <2>1, <3>1, <3>2, <3>4, <3>7
  <2>2. CASE t.root # Nil
    <3>1. fresh.root \in L
      BY <1>2, <1>8, <2>2 DEF Links
    <3>2. ASSUME NEW l \in L  PROVE KeyOf(fresh, l) # KeyOf(fresh, x)
      <4>1. KeyOf(fresh, l) = KeyOf(t, l)
        BY <1>9 DEF Alike, Steering, KeyOf
      <4>. QED  BY <1>2, <1>8, <4>1
    <3>3. \A l \in L : fresh.node[l].color = t.node[l].color
      BY <1>3, <1>8
    <3>4. Balanced(fresh, L, Nil)
      BY <1>2, <1>9, <1>18, <3>3, AlikeBalanced
    <3>5. Balanced(Attach(fresh, x, fresh.root), L \cup {x}, Nil)
      BY <1>3, <1>8, <1>10, <3>1, <3>2, <3>4, AttachBalanced
    <3>. QED  BY <1>6, <1>8, <2>2, <3>5
  <2>. QED  BY <2>1, <2>2
<1>19. ASSUME Balanced(t, L, Nil)  PROVE Balanced(w, L \cup {x}, Nil)
  <2>1. w.root = linked.root /\ w.node = linked.node
    BY <1>11, <1>13 DEF Good, Typed
  <2>2. Alike(linked, w, L \cup {x})
    BY <2>1 DEF Alike
  <2>3. Balanced(linked, L \cup {x}, Nil)
    BY <1>18, <1>19
  <2>. QED  BY <1>11, <2>1, <2>2, <2>3, AlikeBalanced
<1>20. Whole(w)
  BY <1>3, <1>15, <1>17 DEF Whole
<1>21. RedBlack(t) => RedBlack(w)
  BY <1>0, <1>3, <1>17, <1>19 DEF RedBlack
<1>. QED  BY <1>14, <1>20, <1>21
-----------------------------------------------------------------------------
(* u is t without node x, in whose place its only child, or none, is       *)
(* linked; keys and colours are left open.                                 *)
Splice(t, u, L, x, child) ==
    /\ Typed(u)
    /\ u.root = IF t.root = x THEN child ELSE t.root
    /\ x \in L
    /\ child \in L \cup {Nil}
    /\ \A s \in Sides : Down(t, x, s) \in {child, Nil}
    /\ child # Nil => Up(t, child) = x
    /\ \A j \in L \ {x} :
          /\ u.node[j].index = t.node[j].index
          /\ Up(u, j) = IF j = child THEN Up(t, x) ELSE Up(t, j)
          /\ \A s \in Sides :
                Down(u, j, s) = IF Down(t, j, s) = x THEN child ELSE Down(t, j, s)

(* It leaves the other nodes linked.                                       *)
LEMMA SpliceLinks ==
    ASSUME NEW t, NEW L, Good(t, L), NEW u, NEW x, NEW child, Splice(t, u, L, x, child),
           \A j \in L \ {x} : KeyOf(u, j) \in Nat
    PROVE  Links(u, L \ {x})
<1>. DEFINE M == L \ {x}
<1>1. Links(t, L) /\ L \subseteq Slots /\ Nil \notin L
  BY SlotFacts DEF Good, Links
<1>2. /\ u.root = IF t.root = x THEN child ELSE t.root
      /\ x \in L
      /\ child \in L \cup {Nil}
      /\ \A s \in Sides : Down(t, x, s) \in {child, Nil}
      /\ child # Nil => Up(t, child) = x
      /\ \A j \in M :
            /\ u.node[j].index = t.node[j].index
            /\ Up(u, j) = IF j = child THEN Up(t, x) ELSE Up(t, j)
            /\ \A s \in Sides :
                  Down(u, j, s) = IF Down(t, j, s) = x THEN child ELSE Down(t, j, s)
  BY DEF Splice
<1>3. /\ Up(t, x) \in M \cup {Nil}
      /\ Up(t, x) = Nil <=> x = t.root
      /\ child # x
      /\ child # Nil => Up(t, x) # child /\ child # t.root
  <2>1. Up(t, x) \in L \cup {Nil} /\ (Up(t, x) = Nil <=> x = t.root)
    BY <1>1, <1>2, LinkFacts
  <2>2. Up(t, x) # x
    BY <1>1, <1>2, NoCycle
  <2>3. child # Nil => /\ child # t.root
                       /\ Up(t, child) # child
                       /\ Up(t, Up(t, child)) # child
    BY <1>1, <1>2, NoCycle
  <2>. QED  BY <1>1, <1>2, <2>1, <2>2, <2>3
<1>4. ASSUME NEW j \in M, j # child  PROVE Up(t, j) # x
  <2>. SUFFICES ASSUME Up(t, j) = x  PROVE FALSE
    OBVIOUS
  <2>1. x # Nil /\ j # Nil
    BY <1>1, <1>2
  <2>2. PICK s \in Sides : Down(t, x, s) = j
    BY <2>1, OnOneSide
  <2>. QED  BY <1>2, <1>4, <2>1, <2>2
<1>5. M \subseteq Slots /\ u.root \in M \cup {Nil}
  BY <1>1, <1>2, <1>3 DEF Links
<1>6. ASSUME NEW j \in M
      PROVE  /\ KeyOf(u, j) \in Nat
             /\ u.node[j].index = j
             /\ Up(u, j) \in M \cup {Nil}
             /\ Up(u, j) = Nil <=> j = u.root
  <2>1. KeyOf(u, j) \in Nat /\ u.node[j].index = j
    BY <1>1, <1>2 DEF Links
  <2>2. Up(t, j) \in L \cup {Nil} /\ (Up(t, j) = Nil <=> j = t.root)
    BY <1>1, LinkFacts
  <2>3. Up(u, j) = IF j = child THEN Up(t, x) ELSE Up(t, j)
    BY <1>2
  <2>4. CASE j = child
    BY <1>1, <1>2, <1>3, <2>1, <2>3, <2>4
  <2>5. CASE j # child
    BY <1>2, <1>4, <2>1, <2>2, <2>3, <2>5
  <2>. QED  BY <2>4, <2>5
<1>7. ASSUME NEW j \in M, NEW s \in Sides
      PROVE  /\ Down(u, j, s) \in (M \cup {Nil}) \ {j}
             /\ Down(u, j, s) # Nil => Up(u, Down(u, j, s)) = j
             /\ Down(u, j, s) = Down(u, j, Other(s)) => Down(u, j, s) = Nil
  <2>0. Other(s) \in Sides
    BY TowardFacts
  <2>1. PICK a : a = Down(t, j, s)
    OBVIOUS
  <2>2. PICK b : b = Down(t, j, Other(s))
    OBVIOUS
  <2>3. /\ a \in L \cup {Nil} /\ a # j /\ (a # Nil => Up(t, a) = j /\ a # b)
    BY <1>1, <2>1, <2>2, LinkFacts
  <2>4. b \in L \cup {Nil} /\ (b # Nil => Up(t, b) = j)
    BY <1>1, <2>0, <2>2, LinkFacts
  <2>5. /\ Down(u, j, s) = IF a = x THEN child ELSE a
        /\ Down(u, j, Other(s)) = IF b = x THEN child ELSE b
    BY <1>2, <2>0, <2>1, <2>2
  <2>6. j # x /\ j \in L /\ j # Nil
    BY <1>1
  <2>7. CASE a = x
    <3>1. Down(u, j, s) = child /\ Up(t, x) = j
      BY <1>1, <1>2, <2>3, <2>5, <2>7
    <3>2. child # Nil => child \in M /\ child # j /\ Up(u, child) = j
      BY <1>2, <1>3, <3>1
    <3>3. child = Down(u, j, Other(s)) => child = Nil
      <4>. SUFFICES ASSUME child # Nil, child = Down(u, j, Other(s))  PROVE FALSE
        OBVIOUS
      <4>1. b # x /\ b = child
        BY <1>1, <1>2, <2>3, <2>5, <2>7
      <4>. QED  BY <1>2, <2>4, <2>6, <4>1
    <3>. QED  BY <1>2, <2>6, <3>1, <3>2, <3>3
  <2>8. CASE a # x
    <3>1. Down(u, j, s) = a
      BY <2>5, <2>8
    <3>2. a # Nil => a \in M /\ a # child
      BY <1>2, <2>3, <2>6, <2>8
    <3>3. a # Nil => Up(u, a) = j
      BY <1>2, <2>3, <3>2
    <3>4. a # Nil => Down(u, j, Other(s)) # a
      BY <2>3, <2>5, <3>2
    <3>. QED  BY <2>3, <3>1, <3>2, <3>3, <3>4
  <2>. QED  BY <2>7, <2>8
<1>. QED  BY <1>5, <1>6, <1>7 DEF Links

(* If a search in u compares with each node as one in t does, it passes    *)
(* the nodes that one passes but x.                                        *)
LEMMA SpliceVisits ==
    ASSUME NEW t, NEW L, Good(t, L), NEW u, NEW x, NEW child, Splice(t, u, L, x, child),
           Links(u, L \ {x}), NEW h, NEW k,
           \A y \in L \ {x} : /\ KeyOf(t, y) = h <=> KeyOf(u, y) = k
                              /\ KeyOf(t, y) # h => Toward(u, k, y) = Toward(t, h, y),
           NEW l \in L \ {x}, Visits(t, h, l)
    PROVE  Visits(u, k, l)
<1>. DEFINE S == {z \in L : /\ z # x => Visits(u, k, z)
                            /\ z = x /\ child \in L => Visits(u, k, child)}
<1>1. Links(t, L) /\ L \subseteq Slots /\ Nil \notin L
  BY SlotFacts DEF Good, Links
<1>2. /\ u.root = IF t.root = x THEN child ELSE t.root
      /\ x \in L
      /\ child \in L \cup {Nil}
      /\ \A s \in Sides : Down(t, x, s) \in {child, Nil}
      /\ \A j \in L \ {x}, s \in Sides :
            Down(u, j, s) = IF Down(t, j, s) = x THEN child ELSE Down(t, j, s)
  BY DEF Splice
<1>3. t.root \in L => t.root \in S
  BY <1>2, VisitRoot
<1>4. ASSUME NEW z \in S, KeyOf(t, z) # h, Child(t, h, z) \in L
      PROVE  Child(t, h, z) \in S
  <2>1. PICK s \in Sides : s = Toward(t, h, z)
    BY TowardFacts
  <2>2. PICK w \in L : w = Child(t, h, z)
    BY <1>4
  <2>3. w = Down(t, z, s) /\ w # Nil /\ w # z
    BY <1>1, <2>1, <2>2, LinkFacts, TowardFacts
  <2>4. CASE z = x
    <3>1. w = child /\ w # x
      BY <1>2, <2>3, <2>4
    <3>2. Visits(u, k, w)
      BY <1>4, <2>4, <3>1
    <3>. QED  BY <2>2, <3>1, <3>2
  <2>5. CASE z # x
    <3>1. z \in L \ {x} /\ Visits(u, k, z)
      BY <1>4, <2>5
    <3>2. KeyOf(u, z) # k /\ Toward(u, k, z) = s
      BY <1>4, <2>1, <3>1
    <3>3. Visits(u, k, Down(u, z, s))
      BY <3>1, <3>2, StepDown
    <3>4. Down(u, z, s) = IF w = x THEN child ELSE w
      BY <1>2, <2>3, <3>1
    <3>5. /\ w # x => Visits(u, k, w)
          /\ w = x => Visits(u, k, child)
      BY <3>3, <3>4
    <3>. QED  BY <2>2, <3>5
  <2>. QED  BY <2>4, <2>5
<1>5. l \in S
  <2>. HIDE DEF S
  <2>. QED  BY <1>1, <1>3, <1>4, VisitsWithin
<1>. QED  BY <1>5

(* Unlinking a node keeps the invariant for the others.                    *)
LEMMA SpliceSameKeys ==
    ASSUME NEW t, NEW L, Good(t, L), NEW u, NEW x, NEW child, Splice(t, u, L, x, child),
           \A j \in L \ {x} : KeyOf(u, j) = KeyOf(t, j)
    PROVE  Good(u, L \ {x})
<1>1. Links(t, L) /\ Typed(u)
  BY DEF Good, Splice
<1>2. \A j \in L \ {x} : KeyOf(u, j) \in Nat
  BY <1>1, LinkFacts
<1>3. Links(u, L \ {x})
  BY <1>2, SpliceLinks
<1>4. ASSUME NEW l \in L \ {x}  PROVE Visits(u, KeyOf(u, l), l)
  <2>1. PICK k : k = KeyOf(t, l)
    OBVIOUS
  <2>2. Visits(t, k, l)
    BY <2>1 DEF Good
  <2>3. \A y \in L \ {x} : /\ KeyOf(t, y) = k <=> KeyOf(u, y) = k
                           /\ KeyOf(t, y) # k => Toward(u, k, y) = Toward(t, k, y)
    BY DEF Toward
  <2>4. Visits(u, k, l)
    BY <1>3, <2>2, <2>3, SpliceVisits
  <2>. QED  BY <2>1, <2>4
<1>. QED  BY <1>1, <1>3, <1>4 DEF Good

(* It also does if the pair of the unlinked node has been copied to a node *)
(* i whose key is the next greater one: every search compares with i as    *)
(* before.                                                                 *)
LEMMA SpliceKeyMoved ==
    ASSUME NEW t, NEW L, Good(t, L), NEW u, NEW x, NEW child, Splice(t, u, L, x, child),
           NEW i \in L, i # x,
           KeyOf(t, x) < KeyOf(t, i),
           \A l \in L : KeyOf(t, l) < KeyOf(t, i) => KeyOf(t, l) <= KeyOf(t, x),
           \A j \in L \ {x} : KeyOf(u, j) = IF j = i THEN KeyOf(t, x) ELSE KeyOf(t, j)
    PROVE  Good(u, L \ {x})
<1>1. Links(t, L) /\ Typed(u) /\ x \in L
  BY DEF Good, Splice
<1>2. PICK a : a = KeyOf(t, x)
  OBVIOUS
<1>3. PICK b : b = KeyOf(t, i)
  OBVIOUS
<1>4. /\ a \in Nat /\ b \in Nat /\ a < b
      /\ \A l \in L : /\ KeyOf(t, l) \in Nat
                      /\ KeyOf(t, l) = a <=> l = x
                      /\ KeyOf(t, l) = b <=> l = i
                      /\ KeyOf(t, l) < b => KeyOf(t, l) <= a
  <2>1. \A l \in L : KeyOf(t, l) \in Nat
    BY <1>1, LinkFacts
  <2>2. \A l, m \in L : KeyOf(t, l) = KeyOf(t, m) => l = m
    BY GoodFinds
  <2>. QED  BY <1>1, <1>2, <1>3, <2>1, <2>2
<1>5. \A j \in L \ {x} : KeyOf(u, j) = IF j = i THEN a ELSE KeyOf(t, j)
  BY <1>2
<1>6. Links(u, L \ {x})
  <2>1. \A j \in L \ {x} : KeyOf(u, j) \in Nat
    BY <1>4, <1>5
  <2>. QED  BY <2>1, SpliceLinks
<1>7. ASSUME NEW l \in L \ {x}  PROVE Visits(u, KeyOf(u, l), l)
  <2>1. Visits(t, KeyOf(t, l), l)
    BY DEF Good
  <2>2. CASE l = i
    <3>1. ASSUME NEW y \in L \ {x}
          PROVE  /\ KeyOf(t, y) = b <=> KeyOf(u, y) = a
                 /\ KeyOf(t, y) # b => Toward(u, a, y) = Toward(t, b, y)
      <4>1. PICK c : c = KeyOf(t, y)
        OBVIOUS
      <4>2. c \in Nat /\ c # a /\ (c = b <=> y = i) /\ (c < b => c <= a)
        BY <1>4, <4>1
      <4>3. KeyOf(u, y) = IF y = i THEN a ELSE c
        BY <1>5, <4>1
      <4>4. c # b => (a < c <=> b < c)
        BY <1>4, <4>2
      <4>. QED  BY <4>1, <4>2, <4>3, <4>4 DEF Toward
    <3>2. Visits(t, b, l) /\ KeyOf(u, l) = a
      BY <1>3, <1>5, <2>1, <2>2
    <3>3. Visits(u, a, l)
      BY <1>6, <3>1, <3>2, SpliceVisits
    <3>. QED  BY <3>2, <3>3
  <2>3. CASE l # i
    <3>1. PICK k : k = KeyOf(t, l)
      OBVIOUS
    <3>2. k \in Nat /\ k # a /\ k # b /\ (k < b => k <= a)
      BY <1>4, <2>3, <3>1
    <3>3. ASSUME NEW y \in L \ {x}
          PROVE  /\ KeyOf(t, y) = k <=> KeyOf(u, y) = k
                 /\ KeyOf(t, y) # k => Toward(u, k, y) = Toward(t, k, y)
      <4>1. CASE y = i
        <5>1. KeyOf(t, y) = b /\ KeyOf(u, y) = a
          BY <1>3, <1>5, <4>1
        <5>2. k < a <=> k < b
          BY <1>4, <3>2
        <5>. QED  BY <3>2, <5>1, <5>2 DEF Toward
      <4>2. CASE y # i
        <5>1. KeyOf(u, y) = KeyOf(t, y)
          BY <1>5, <4>2
        <5>. QED  BY <5>1 DEF Toward
      <4>. QED  BY <4>1, <4>2
    <3>4. Visits(u, k, l)
      BY <1>6, <2>1, <3>1, <3>3, SpliceVisits
    <3>. QED  BY <1>5, <2>3, <3>1, <3>4
  <2>. QED  BY <2>2, <2>3
<1>. QED  BY <1>1, <1>6, <1>7 DEF Good
-----------------------------------------------------------------------------
(* Bypass writes one link, that of the parent.                             *)
LEMMA BypassWrites ==
    ASSUME NEW v, Typed(v), NEW x \in Slots, NEW p \in Slots, p = Up(v, x),
           NEW child \in Slots \cup {Nil}, NEW side \in Sides,
           Down(v, p, side) = x, Down(v, p, Other(side)) # x
    PROVE  Written(v, Bypass(v, x, child), p, side, child)
<1>1. Bypass(v, x, child) = Put(v, p, side, child)
  <2>1. CASE side = "left"
    BY <2>1 DEF Bypass, Up, Down
  <2>2. CASE side = "right"
    BY <2>2 DEF Bypass, Up, Down, Other
  <2>. QED  BY <2>1, <2>2 DEF Sides
<1>2. side \in Fields /\ Fits(side, child)
  BY FitsFacts DEF Fields, Sides
<1>. QED  BY <1>1, <1>2, PutWrites

(* Adopt writes the parent of the child and paints it.                     *)
LEMMA AdoptWrites ==
    ASSUME NEW v, Typed(v), NEW child \in Slots, NEW p \in Slots \cup {Nil}
    PROVE  \E w : /\ Written(v, w, child, "parent", p)
                  /\ Typed(Adopt(v, child, p))
                  /\ Alike(w, Adopt(v, child, p), Slots)
<1>1. PICK w : w = Put(v, child, "parent", p)
  OBVIOUS
<1>2. Fits("parent", p) /\ "parent" \in Fields
  BY FitsFacts DEF Fields
<1>3. Written(v, w, child, "parent", p)
  BY <1>1, <1>2, PutWrites
<1>4. Typed(w) /\ Adopt(v, child, p) = Paint(w, child, "BLACK")
  BY <1>1, <1>3 DEF Written, Adopt
<1>. QED  BY <1>3, <1>4, PaintFacts

(* Node x has child on one side and no child on the other.                 *)
OnlyChild(t, L, x, child) ==
    /\ x \in L
    /\ child \in L \cup {Nil}
    /\ \A s \in Sides : Down(t, x, s) \in {child, Nil}
    /\ \E s \in Sides : Down(t, x, s) = child

(* Bypass, and Adopt if there is a child, unlink a node other than the     *)
(* root, although its pair may have been copied before.                    *)
LEMMA SpliceBelow ==
    ASSUME NEW t, NEW L, Good(t, L), NEW x, NEW child, OnlyChild(t, L, x, child), x # t.root,
           NEW v, Typed(v), v.root = t.root,
           \A j \in Slots, f \in {"left", "right", "parent", "index"} : v.node[j][f] = t.node[j][f],
           NEW u, u = IF child = Nil THEN Bypass(v, x, child)
                                     ELSE Adopt(Bypass(v, x, child), child, Up(v, x))
    PROVE  /\ Up(t, x) \in L \ {x}
           /\ Splice(t, u, L, x, child)
           /\ \A j \in Slots : KeyOf(u, j) = KeyOf(v, j)
<1>1. Links(t, L) /\ L \subseteq Slots /\ Nil \notin L
  BY SlotFacts DEF Good, Links
<1>2. x \in L /\ child \in L \cup {Nil} /\ \A s \in Sides : Down(t, x, s) \in {child, Nil}
  BY DEF OnlyChild
<1>3. child # Nil => Up(t, child) = x
  BY <1>1, <1>2, LinkFacts DEF OnlyChild
<1>4. PICK p : p = Up(t, x)
  OBVIOUS
<1>5. p \in L /\ p # x /\ p # Nil
  <2>1. p # Nil /\ p \in L \cup {Nil}
    BY <1>1, <1>2, <1>4, LinkFacts
  <2>2. Up(t, x) # x
    BY <1>2, <1>4, <2>1, NoCycle
  <2>. QED  BY <1>4, <2>1, <2>2
<1>6. PICK side \in Sides : Down(t, p, side) = x /\ Down(t, p, Other(side)) # x
  BY <1>2, <1>4, <1>5, OnOneSide
<1>7. PICK w : w = Bypass(v, x, child)
  OBVIOUS
<1>8. Written(v, w, p, side, child)
  <2>1. p \in Slots /\ x \in Slots /\ child \in Slots \cup {Nil} /\ Other(side) \in Sides
    BY <1>1, <1>2, <1>5, TowardFacts
  <2>2. p = Up(v, x)
    BY <1>4, <2>1 DEF Up
  <2>3. \A s \in Sides : Down(v, p, s) = Down(t, p, s)
    BY <2>1 DEF Down, Sides
  <2>4. Down(v, p, side) = x /\ Down(v, p, Other(side)) # x
    BY <1>6, <2>1, <2>3
  <2>. QED  BY <1>7, <2>1, <2>2, <2>4, BypassWrites
<1>9. /\ Typed(w) /\ w.root = t.root
      /\ \A j \in Slots : /\ w.node[j].index = t.node[j].index
                          /\ Up(w, j) = Up(t, j)
                          /\ KeyOf(w, j) = KeyOf(v, j)
                          /\ \A s \in Sides :
                                Down(w, j, s) = IF j = p /\ s = side THEN child ELSE Down(t, j, s)
  <2>1. \A j \in Slots, h \in Fields :
           w.node[j][h] = IF j = p /\ h = side THEN child ELSE v.node[j][h]
    BY <1>8 DEF Written
  <2>2. /\ side \in {"left", "right"}
        /\ \A f \in {"left", "right", "parent", "index", "Key"} : f \in Fields
        /\ \A s \in Sides : s \in {"left", "right"}
    BY DEF Fields, Sides
  <2>3. \A j \in Slots : w.node[j].index = t.node[j].index /\ Up(w, j) = Up(t, j)
    BY <2>1, <2>2 DEF Up
  <2>4. \A j \in Slots : KeyOf(w, j) = KeyOf(v, j)
    BY <2>1, <2>2 DEF KeyOf
  <2>5. ASSUME NEW j \in Slots, NEW s \in Sides
        PROVE  Down(w, j, s) = IF j = p /\ s = side THEN child ELSE Down(t, j, s)
    <3>1. w.node[j][s] = IF j = p /\ s = side THEN child ELSE v.node[j][s]
      BY <2>1, <2>2
    <3>2. v.node[j][s] = t.node[j][s]
      BY <2>2
    <3>. QED  BY <3>1, <3>2 DEF Down
  <2>. QED  BY <1>8, <2>3, <2>4, <2>5 DEF Written
<1>10. ASSUME NEW j \in L \ {x}, NEW s \in Sides
       PROVE  Down(w, j, s) = IF Down(t, j, s) = x THEN child ELSE Down(t, j, s)
  <2>1. Down(t, j, s) = x <=> j = p /\ s = side
    <3>1. Down(t, j, s) = x => j = p
      BY <1>1, <1>2, <1>4, LinkFacts
    <3>2. s = side \/ s = Other(side)
      BY DEF Sides, Other
    <3>. QED  BY <1>6, <3>1, <3>2
  <2>. QED  BY <1>1, <1>9, <2>1
<1>11. /\ Typed(u) /\ u.root = t.root
       /\ \A j \in Slots : /\ u.node[j].index = w.node[j].index
                           /\ KeyOf(u, j) = KeyOf(w, j)
                           /\ Up(u, j) = IF j = child THEN p ELSE Up(w, j)
                           /\ \A s \in Sides : Down(u, j, s) = Down(w, j, s)
  <2>1. CASE child = Nil
    <3>1. u = w /\ \A j \in Slots : j # child
      BY <1>7, <2>1, SlotFacts
    <3>. QED  BY <1>9, <3>1
  <2>2. CASE child # Nil
    <3>1. child \in Slots /\ p \in Slots \cup {Nil} /\ Up(v, x) = p
      BY <1>1, <1>2, <1>4, <1>5, <2>2 DEF Up
    <3>2. u = Adopt(w, child, p)
      BY <1>7, <2>2, <3>1
    <3>3. PICK z : Written(w, z, child, "parent", p) /\ Typed(u) /\ Alike(z, u, Slots)
      BY <1>9, <3>1, <3>2, AdoptWrites
    <3>4. \A j \in Slots, h \in Fields :
             z.node[j][h] = IF j = child /\ h = "parent" THEN p ELSE w.node[j][h]
      BY <3>3 DEF Written
    <3>5. u.root = z.root /\ z.root = w.root
      BY <3>3 DEF Written, Alike
    <3>6. \A j \in Slots, h \in Steering :
             u.node[j][h] = IF j = child /\ h = "parent" THEN p ELSE w.node[j][h]
      BY <3>3, <3>4 DEF Alike, Steering, Fields
    <3>7. \A j \in Slots : /\ u.node[j].index = w.node[j].index
                           /\ KeyOf(u, j) = KeyOf(w, j)
                           /\ Up(u, j) = IF j = child THEN p ELSE Up(w, j)
      BY <3>6 DEF Steering, KeyOf, Up
    <3>8. \A j \in Slots, s \in Sides : Down(u, j, s) = Down(w, j, s)
      BY <3>6 DEF Steering, Sides, Down
    <3>. QED  BY <1>9, <3>3, <3>5, <3>7, <3>8
  <2>. QED  BY <2>1, <2>2
<1>12. ASSUME NEW j \in L \ {x}
       PROVE  /\ u.node[j].index = t.node[j].index
              /\ Up(u, j) = IF j = child THEN Up(t, x) ELSE Up(t, j)
              /\ \A s \in Sides :
                    Down(u, j, s) = IF Down(t, j, s) = x THEN child ELSE Down(t, j, s)
  <2>1. j \in Slots
    BY <1>1
  <2>. QED  BY <1>4, <1>9, <1>10, <1>11, <2>1
<1>13. u.root = IF t.root = x THEN child ELSE t.root
  BY <1>11
<1>14. \A j \in Slots : KeyOf(u, j) = KeyOf(v, j)
  BY <1>9, <1>11
<1>. QED  BY <1>2, <1>3, <1>4, <1>5, <1>11, <1>12, <1>13, <1>14 DEF Splice
-----------------------------------------------------------------------------
(* The root is unlinked by its child taking its place.                     *)
LEMMA RootUnlinked ==
    ASSUME NEW t, NEW L, Good(t, L), NEW x, NEW child, OnlyChild(t, L, x, child), x = t.root,
           NEW u, u = IF child = Nil THEN PutRoot(t, Nil) ELSE Adopt(PutRoot(t, child), child, Nil)
    PROVE  Good(u, L \ {x})
<1>1. Links(t, L) /\ L \subseteq Slots /\ Nil \notin L /\ Typed(t)
  BY SlotFacts DEF Good, Links
<1>2. x \in L /\ child \in L \cup {Nil} /\ \A s \in Sides : Down(t, x, s) \in {child, Nil}
  BY DEF OnlyChild
<1>3. child # Nil => Up(t, child) = x
  BY <1>1, <1>2, LinkFacts DEF OnlyChild
<1>4. PICK w : w = PutRoot(t, child)
  OBVIOUS
<1>5. Typed(w) /\ w.root = child /\ w.node = t.node
  BY <1>1, <1>2, <1>4, PutRootFacts
<1>6. Up(t, x) = Nil
  BY <1>1, <1>2, LinkFacts
<1>7. ASSUME NEW j \in L, NEW s \in Sides  PROVE Down(t, j, s) # x
  BY <1>1, <1>2, <1>6, LinkFacts
<1>8. /\ Typed(u) /\ u.root = child
      /\ \A j \in Slots : /\ u.node[j].index = t.node[j].index
                          /\ KeyOf(u, j) = KeyOf(t, j)
                          /\ Up(u, j) = IF j = child THEN Nil ELSE Up(t, j)
                          /\ \A s \in Sides : Down(u, j, s) = Down(t, j, s)
  <2>1. CASE child = Nil
    <3>1. u = w /\ \A j \in Slots : j # child
      BY <1>4, <2>1, SlotFacts
    <3>. QED  BY <1>5, <3>1 DEF KeyOf, Up, Down
  <2>2. CASE child # Nil
    <3>1. child \in Slots /\ u = Adopt(w, child, Nil)
      BY <1>1, <1>2, <1>4, <2>2
    <3>2. PICK z : Written(w, z, child, "parent", Nil) /\ Typed(u) /\ Alike(z, u, Slots)
      BY <1>5, <3>1, AdoptWrites
    <3>3. \A j \in Slots, h \in Fields :
             z.node[j][h] = IF j = child /\ h = "parent" THEN Nil ELSE t.node[j][h]
      BY <1>5, <3>2 DEF Written
    <3>4. u.root = z.root /\ z.root = child
      BY <1>5, <3>2 DEF Written, Alike
    <3>5. \A j \in Slots, h \in Steering :
             u.node[j][h] = IF j = child /\ h = "parent" THEN Nil ELSE t.node[j][h]
      BY <3>2, <3>3 DEF Alike, Steering, Fields
    <3>6. \A j \in Slots : /\ u.node[j].index = t.node[j].index
                           /\ KeyOf(u, j) = KeyOf(t, j)
                           /\ Up(u, j) = IF j = child THEN Nil ELSE Up(t, j)
      BY <3>5 DEF Steering, KeyOf, Up
    <3>7. \A j \in Slots, s \in Sides : Down(u, j, s) = Down(t, j, s)
      BY <3>5 DEF Steering, Sides, Down
    <3>. QED  BY <3>2, <3>4, <3>6, <3>7
  <2>. QED  BY <2>1, <2>2
<1>9. ASSUME NEW j \in L \ {x}
      PROVE  /\ KeyOf(u, j) = KeyOf(t, j)
             /\ u.node[j].index = t.node[j].index
             /\ Up(u, j) = IF j = child THEN Up(t, x) ELSE Up(t, j)
             /\ \A s \in Sides :
                   Down(u, j, s) = IF Down(t, j, s) = x THEN child ELSE Down(t, j, s)
  <2>1. j \in Slots /\ j \in L
    BY <1>1
  <2>. QED  BY <1>6, <1>7, <1>8, <2>1
<1>10. u.root = IF t.root = x THEN child ELSE t.root
  BY <1>8
<1>11. Splice(t, u, L, x, child)
  BY <1>2, <1>3, <1>8, <1>9, <1>10 DEF Splice
<1>. QED  BY <1>9, <1>11, SpliceSameKeys

(* RemoveNode keeps the invariant for the other nodes when the node has no *)
(* left child, unless it is red and has a right one.                       *)
LEMMA UnlinkedWithoutLeftGood ==
    ASSUME NEW t, NEW L, Good(t, L), NEW i \in L, Down(t, i, "left") = Nil,
           t.node[i].color = "RED" => Down(t, i, "right") = Nil
    PROVE  Good(UnlinkedWithoutLeft(t, i), L \ {i})
<1>1. PICK child : child = Down(t, i, "right")
  OBVIOUS
<1>2. Links(t, L) /\ L \subseteq Slots /\ Typed(t)
  BY DEF Good, Links
<1>3. OnlyChild(t, L, i, child)
  <2>1. child \in L \cup {Nil}
    BY <1>1, <1>2, LinkFacts DEF Sides
  <2>. QED  BY <1>1, <2>1 DEF OnlyChild, Sides
<1>4. CASE i = t.root
  <2>1. UnlinkedWithoutLeft(t, i) = IF child = Nil THEN PutRoot(t, Nil)
                                    ELSE Adopt(PutRoot(t, child), child, Nil)
    BY <1>1, <1>4 DEF UnlinkedWithoutLeft, Down
  <2>. QED  BY <1>3, <1>4, <2>1, RootUnlinked
<1>5. CASE i # t.root
  <2>1. PICK u : u = IF child = Nil THEN Bypass(t, i, child)
                                    ELSE Adopt(Bypass(t, i, child), child, Up(t, i))
    OBVIOUS
  <2>2. /\ Up(t, i) \in L \ {i}
        /\ Splice(t, u, L, i, child)
        /\ \A j \in Slots : KeyOf(u, j) = KeyOf(t, j)
    BY <1>2, <1>3, <1>5, <2>1, SpliceBelow
  <2>3. Good(u, L \ {i})
    BY <1>2, <2>2, SpliceSameKeys
  <2>4. UnlinkedWithoutLeft(t, i) \in {u, RemoveDoubleBlack(u, Nil, Up(t, i))}
    BY <1>1, <1>5, <2>1 DEF UnlinkedWithoutLeft, Down, Up
  <2>5. Good(RemoveDoubleBlack(u, Nil, Up(t, i)), L \ {i})
    BY <2>2, <2>3, RemoveDoubleBlackGood
  <2>. QED  BY <2>3, <2>4, <2>5
<1>. QED  BY <1>4, <1>5

(* v is t with the pair of slot x in slot i.                               *)
Copied(t, v, i, x) ==
    /\ Typed(v)
    /\ v.root = t.root
    /\ \A j \in Slots, f \in Fields :
          v.node[j][f] = IF j = i /\ f \in {"Key", "Value"} THEN t.node[x][f] ELSE t.node[j][f]

(* CopyPair copies it.                                                     *)
LEMMA PairCopied ==
    ASSUME NEW t, Typed(t), NEW i \in Slots, NEW x \in Slots
    PROVE  Copied(t, CopyPair(t, i, x), i, x)
<1>0. PICK v : v = CopyPair(t, i, x)
  OBVIOUS
<1>1. t.node \in [Slots -> Nodes] /\ t.node[i] \in Nodes /\ t.node[x] \in Nodes
  BY DEF Typed
<1>2. PICK new : new = [t.node[i] EXCEPT !.Key = t.node[x].Key, !.Value = t.node[x].Value]
  OBVIOUS
<1>3. new \in Nodes
  BY <1>1, <1>2 DEF Nodes
<1>4. \A f \in Fields : new[f] = IF f \in {"Key", "Value"} THEN t.node[x][f] ELSE t.node[i][f]
  BY <1>1, <1>2 DEF Nodes, Fields
<1>5. /\ v = [root |-> t.root, size |-> t.size, node |-> [t.node EXCEPT ![i] = new]]
      /\ v.node = [t.node EXCEPT ![i] = new] /\ v.root = t.root
  BY <1>0, <1>1, <1>2 DEF CopyPair, Typed
<1>6. v.node \in [Slots -> Nodes]
  BY <1>1, <1>3, <1>5
<1>7. Typed(v)
  BY <1>5, <1>6 DEF Typed
<1>8. \A j \in Slots : v.node[j] = IF j = i THEN new ELSE t.node[j]
  BY <1>1, <1>5
<1>. QED  BY <1>0, <1>4, <1>5, <1>7, <1>8 DEF Copied

(* RemoveNode keeps the invariant for the other nodes when the predecessor *)
(* is unlinked instead.                                                    *)
LEMMA UnlinkedPredecessorGood ==
    ASSUME NEW t, NEW L, Good(t, L), NEW i \in L, NEW x \in L, x # i, x # t.root,
           Down(t, x, "right") = Nil,
           KeyOf(t, x) < KeyOf(t, i),
           \A l \in L : KeyOf(t, l) < KeyOf(t, i) => KeyOf(t, l) <= KeyOf(t, x)
    PROVE  Good(UnlinkedPredecessor(t, i, x), L \ {x})
<1>1. PICK child : child = Down(t, x, "left")
  OBVIOUS
<1>2. Links(t, L) /\ L \subseteq Slots /\ Typed(t) /\ i \in Slots /\ x \in Slots
  BY DEF Good, Links
<1>3. OnlyChild(t, L, x, child)
  <2>1. child \in L \cup {Nil}
    BY <1>1, <1>2, LinkFacts DEF Sides
  <2>. QED  BY <1>1, <2>1 DEF OnlyChild, Sides
<1>4. PICK v : v = CopyPair(t, i, x)
  OBVIOUS
<1>5. /\ Typed(v) /\ v.root = t.root
      /\ \A j \in Slots, f \in Fields :
            v.node[j][f] = IF j = i /\ f \in {"Key", "Value"} THEN t.node[x][f] ELSE t.node[j][f]
  <2>1. Copied(t, v, i, x)
    BY <1>2, <1>4, PairCopied
  <2>. QED  BY <2>1 DEF Copied
<1>6. /\ \A j \in Slots, f \in {"left", "right", "parent", "index"} : v.node[j][f] = t.node[j][f]
      /\ \A j \in Slots : KeyOf(v, j) = IF j = i THEN KeyOf(t, x) ELSE KeyOf(t, j)
      /\ Up(v, x) = Up(t, x)
  BY <1>2, <1>5 DEF Fields, KeyOf, Up
<1>7. PICK u : u = IF child = Nil THEN Bypass(v, x, child)
                                  ELSE Adopt(Bypass(v, x, child), child, Up(v, x))
  OBVIOUS
<1>8. /\ Up(t, x) \in L \ {x}
      /\ Splice(t, u, L, x, child)
      /\ \A j \in Slots : KeyOf(u, j) = KeyOf(v, j)
  BY <1>3, <1>5, <1>6, <1>7, SpliceBelow
<1>9. \A j \in L \ {x} : KeyOf(u, j) = IF j = i THEN KeyOf(t, x) ELSE KeyOf(t, j)
  BY <1>2, <1>6, <1>8
<1>10. Good(u, L \ {x})
  BY <1>8, <1>9, SpliceKeyMoved
<1>11. UnlinkedPredecessor(t, i, x) \in {u, RemoveDoubleBlack(u, Nil, Up(t, x))}
  BY <1>1, <1>4, <1>6, <1>7 DEF UnlinkedPredecessor, Down, Up
<1>12. Good(RemoveDoubleBlack(u, Nil, Up(t, x)), L \ {x})
  BY <1>8, <1>10, RemoveDoubleBlackGood
<1>. QED  BY <1>10, <1>11, <1>12
-----------------------------------------------------------------------------
(* The slot of node y once the last node has moved to slot x.              *)
Renamed(last, x, y) == IF y = last THEN x ELSE y

(* w is t with its last node moved to slot x.                              *)
Moved(t, w, M, last, x) ==
    /\ Typed(w)
    /\ w.root = Renamed(last, x, t.root)
    /\ \A y \in M :
          /\ w.node[Renamed(last, x, y)].index = Renamed(last, x, y)
          /\ KeyOf(w, Renamed(last, x, y)) = KeyOf(t, y)
          /\ Up(w, Renamed(last, x, y)) = Renamed(last, x, Up(t, y))
          /\ \A s \in Sides : Down(w, Renamed(last, x, y), s) = Renamed(last, x, Down(t, y, s))

(* Every search passes the same nodes, in their new slots.                 *)
LEMMA MovedGood ==
    ASSUME NEW t, NEW M, Good(t, M), NEW last \in M, NEW x \in Slots \ M,
           NEW w, Moved(t, w, M, last, x)
    PROVE  Good(w, (M \ {last}) \cup {x})
<1>. DEFINE N == (M \ {last}) \cup {x}
<1>1. Links(t, M) /\ M \subseteq Slots /\ Nil \notin M /\ x # Nil /\ x \in Slots /\ x \notin M
  <2>1. Links(t, M) /\ M \subseteq Slots
    BY DEF Good, Links
  <2>. QED  BY <2>1, SlotFacts
<1>2. /\ Typed(w)
      /\ w.root = Renamed(last, x, t.root)
      /\ \A y \in M :
            /\ w.node[Renamed(last, x, y)].index = Renamed(last, x, y)
            /\ KeyOf(w, Renamed(last, x, y)) = KeyOf(t, y)
            /\ Up(w, Renamed(last, x, y)) = Renamed(last, x, Up(t, y))
            /\ \A s \in Sides : Down(w, Renamed(last, x, y), s) = Renamed(last, x, Down(t, y, s))
  BY DEF Moved
<1>3. /\ \A y \in M : Renamed(last, x, y) \in N
      /\ \A y : y \in M \cup {Nil} => Renamed(last, x, y) \in N \cup {Nil}
      /\ \A y : y \in M \cup {Nil} => (Renamed(last, x, y) = Nil <=> y = Nil)
      /\ \A y, z : (/\ y \in M \cup {Nil} /\ z \in M \cup {Nil}
                    /\ Renamed(last, x, y) = Renamed(last, x, z)) => y = z
      /\ \A j \in N : \E y \in M : j = Renamed(last, x, y)
  <2>1. ASSUME NEW j \in N  PROVE \E y \in M : j = Renamed(last, x, y)
    <3>1. CASE j = x
      BY <3>1 DEF Renamed
    <3>2. CASE j # x
      BY <3>2 DEF Renamed
    <3>. QED  BY <3>1, <3>2
  <2>. QED  BY <1>1, <2>1 DEF Renamed
<1>4. N \subseteq Slots
  BY <1>1
<1>5. w.root \in N \cup {Nil}
  BY <1>1, <1>2, <1>3 DEF Links
<1>. HIDE DEF N
<1>6. ASSUME NEW j \in N
      PROVE  /\ KeyOf(w, j) \in Nat
             /\ w.node[j].index = j
             /\ Up(w, j) \in N \cup {Nil}
             /\ Up(w, j) = Nil <=> j = w.root
  <2>1. PICK y \in M : j = Renamed(last, x, y)
    BY <1>3
  <2>2. /\ KeyOf(t, y) \in Nat
        /\ Up(t, y) \in M \cup {Nil}
        /\ Up(t, y) = Nil <=> y = t.root
        /\ t.root \in M \cup {Nil}
    BY <1>1, LinkFacts DEF Links
  <2>3. /\ KeyOf(w, j) = KeyOf(t, y) /\ w.node[j].index = j /\ Up(w, j) = Renamed(last, x, Up(t, y))
    BY <1>2, <2>1
  <2>4. Up(w, j) \in N \cup {Nil} /\ (Up(w, j) = Nil <=> Up(t, y) = Nil)
    BY <1>3, <2>2, <2>3
  <2>5. j = w.root <=> y = t.root
    BY <1>2, <1>3, <2>1, <2>2
  <2>. QED  BY <2>2, <2>3, <2>4, <2>5
<1>7. ASSUME NEW j \in N, NEW s \in Sides
      PROVE  /\ Down(w, j, s) \in (N \cup {Nil}) \ {j}
             /\ Down(w, j, s) # Nil => Up(w, Down(w, j, s)) = j
             /\ Down(w, j, s) = Down(w, j, Other(s)) => Down(w, j, s) = Nil
  <2>1. PICK y \in M : j = Renamed(last, x, y)
    BY <1>3
  <2>2. PICK a : a = Down(t, y, s)
    OBVIOUS
  <2>3. PICK b : b = Down(t, y, Other(s))
    OBVIOUS
  <2>4. Other(s) \in Sides
    BY TowardFacts
  <2>5. a \in M \cup {Nil} /\ b \in M \cup {Nil} /\ a # y /\ (a # Nil => Up(t, a) = y /\ a # b)
    BY <1>1, <2>2, <2>3, <2>4, LinkFacts
  <2>6. Down(w, j, s) = Renamed(last, x, a) /\ Down(w, j, Other(s)) = Renamed(last, x, b)
    BY <1>2, <2>1, <2>2, <2>3, <2>4
  <2>7. Renamed(last, x, a) \in N \cup {Nil} /\ (Renamed(last, x, a) = Nil <=> a = Nil)
    BY <1>3, <2>5
  <2>8. Renamed(last, x, a) # j
    BY <1>3, <2>1, <2>5
  <2>9. a # Nil => Up(w, Renamed(last, x, a)) = j
    BY <1>2, <2>1, <2>5
  <2>10. a # Nil => Renamed(last, x, a) # Renamed(last, x, b)
    BY <1>3, <2>5
  <2>. QED  BY <2>6, <2>7, <2>8, <2>9, <2>10
<1>8. Links(w, N)
  BY <1>4, <1>5, <1>6, <1>7 DEF Links
<1>9. ASSUME NEW k, NEW l \in M, Visits(t, k, l)  PROVE Visits(w, k, Renamed(last, x, l))
  <2>. DEFINE S == {z \in M : Visits(w, k, Renamed(last, x, z))}
  <2>1. t.root \in M => t.root \in S
    BY <1>2, VisitRoot
  <2>2. ASSUME NEW z \in S, KeyOf(t, z) # k, Child(t, k, z) \in M
        PROVE  Child(t, k, z) \in S
    <3>1. PICK s \in Sides : s = Toward(t, k, z)
      BY TowardFacts
    <3>2. PICK j : j = Renamed(last, x, z)
      OBVIOUS
    <3>3. Child(t, k, z) = Down(t, z, s)
      BY <3>1, TowardFacts
    <3>4. KeyOf(w, j) = KeyOf(t, z) /\ Down(w, j, s) = Renamed(last, x, Down(t, z, s))
      BY <1>2, <3>2
    <3>5. j \in N /\ Visits(w, k, j)
      BY <1>3, <3>2
    <3>6. Toward(w, k, j) = s
      BY <3>1, <3>4 DEF Toward
    <3>7. Visits(w, k, Down(w, j, s))
      BY <1>8, <2>2, <3>4, <3>5, <3>6, StepDown
    <3>. QED  BY <2>2, <3>3, <3>4, <3>7
  <2>3. l \in S
    <3>. HIDE DEF S
    <3>. QED  BY <1>1, <1>9, <2>1, <2>2, VisitsWithin
  <2>. QED  BY <2>3
<1>10. ASSUME NEW j \in N  PROVE Visits(w, KeyOf(w, j), j)
  <2>1. PICK y \in M : j = Renamed(last, x, y)
    BY <1>3
  <2>2. Visits(t, KeyOf(t, y), y)
    BY DEF Good
  <2>3. KeyOf(w, j) = KeyOf(t, y)
    BY <1>2, <2>1
  <2>. QED  BY <1>9, <2>1, <2>2, <2>3
<1>. QED  BY <1>2, <1>8, <1>10 DEF Good, N

(* If the last slot is the free one nothing has to be moved.               *)
LEMMA LastDropped ==
    ASSUME NEW t, NEW L, Good(t, L), NEW last \in Slots \ L, last = t.size - 1,
           NEW w, w = Compacted(t, last)
    PROVE  Good(w, L) /\ w.size = last
<1>1. Typed(t) /\ t.node \in [Slots -> Nodes] /\ L \subseteq Slots
  BY DEF Good, Typed, Links
<1>2. ZeroNode \in Nodes
  BY TreeAssumption DEF ZeroNode, Nodes, Slots
<1>3. w = [root |-> t.root, size |-> last, node |-> [t.node EXCEPT ![last] = ZeroNode]]
  BY DEF Compacted, SizeAfterRemoval
<1>4. [t.node EXCEPT ![last] = ZeroNode] \in [Slots -> Nodes]
  BY <1>1, <1>2
<1>5. last \in 0 .. MaxSize
  BY TreeAssumption DEF Slots
<1>6. w.root = t.root /\ w.size = last /\ w.node = [t.node EXCEPT ![last] = ZeroNode]
  BY <1>3
<1>7. Typed(w)
  BY <1>1, <1>3, <1>4, <1>5 DEF Typed
<1>8. \A j \in L : w.node[j] = t.node[j]
  BY <1>1, <1>6
<1>9. Alike(t, w, L)
  BY <1>6, <1>8 DEF Alike
<1>. QED  BY <1>6, <1>7, <1>9, AlikeGood

(* Otherwise the writes at the end of Remove move it: the parent, the      *)
(* children and the root that follow it are all its neighbours.            *)
LEMMA LastMoved ==
    ASSUME NEW t, NEW M, Good(t, M), NEW last \in M, last = t.size - 1, NEW x \in Slots \ M,
           NEW w, w = Compacted(t, x)
    PROVE  Moved(t, w, M, last, x) /\ w.size = last
<1>1. /\ Typed(t) /\ Links(t, M) /\ M \subseteq Slots /\ Nil \notin M
      /\ x # last /\ x # Nil /\ last \in Slots
  <2>1. Typed(t) /\ Links(t, M) /\ M \subseteq Slots
    BY DEF Good, Links
  <2>. QED  BY <2>1, SlotFacts
<1>. DEFINE m == t.node[last]
            n(i) == IF i = x THEN m ELSE t.node[i]
            e(i) == IF i = last THEN ZeroNode
                    ELSE [n(i) EXCEPT
                            !.index  = IF i = x THEN x ELSE @,
                            !.left   = IF i = m.parent /\ n(i).right # last
                                       THEN Renamed(last, x, @) ELSE @,
                            !.right  = IF i = m.parent THEN Renamed(last, x, @) ELSE @,
                            !.parent = IF i \in {m.left, m.right} THEN x ELSE @]
            moved == [i \in Slots |-> e(i)]
<1>4. w = [root |-> Renamed(last, x, t.root), size |-> last, node |-> moved]
  <2>1. w.root = Renamed(last, x, t.root) /\ w.size = last /\ w.node = moved
    <3>1. w.root = Renamed(last, x, t.root)
      BY <1>1 DEF Compacted, Renamed
    <3>2. w.size = last
      BY DEF Compacted, SizeAfterRemoval
    <3>. DEFINE d == t.size - 1
                Follow(l) == IF l = d THEN x ELSE l
                o(i) == IF i = x THEN t.node[d] ELSE t.node[i]
                c(i) == IF i = d THEN ZeroNode
                        ELSE [o(i) EXCEPT
                                !.index  = IF i = x THEN x ELSE @,
                                !.left   = IF i = t.node[d].parent /\ o(i).right # d
                                           THEN Follow(@) ELSE @,
                                !.right  = IF i = t.node[d].parent THEN Follow(@) ELSE @,
                                !.parent = IF i \in {t.node[d].left, t.node[d].right}
                                           THEN x ELSE @]
    <3>3. w.node = IF x = d THEN [t.node EXCEPT ![d] = ZeroNode] ELSE [i \in Slots |-> c(i)]
      BY DEF Compacted
    <3>4. \A i \in Slots : c(i) = e(i)
      BY DEF Renamed
    <3>. HIDE DEF c, e
    <3>5. w.node = moved
      BY <1>1, <3>3, <3>4
    <3>. QED  BY <3>1, <3>2, <3>5
  <2>2. w = [root |-> w.root, size |-> w.size, node |-> w.node]
    BY DEF Compacted
  <2>. QED  BY <2>1, <2>2
<1>2. m = t.node[last]
  OBVIOUS
<1>3. t.node \in [Slots -> Nodes] /\ m \in Nodes
  BY <1>1 DEF Typed
<1>. HIDE DEF m
<1>5. ASSUME NEW i \in Slots, i # last
      PROVE  /\ e(i) \in Nodes
             /\ e(i).index = IF i = x THEN x ELSE t.node[i].index
             /\ e(i).Key = n(i).Key
             /\ e(i).left  = IF i = m.parent /\ n(i).right # last
                             THEN Renamed(last, x, n(i).left) ELSE n(i).left
             /\ e(i).right = IF i = m.parent THEN Renamed(last, x, n(i).right) ELSE n(i).right
             /\ e(i).parent = IF i \in {m.left, m.right} THEN x ELSE n(i).parent
  <2>1. n(i) \in Nodes
    BY <1>3
  <2>2. i # x => n(i) = t.node[i]
    OBVIOUS
  <2>3. PICK node : node = n(i)
    OBVIOUS
  <2>4. e(i) = [node EXCEPT
                  !.index  = IF i = x THEN x ELSE @,
                  !.left   = IF i = m.parent /\ node.right # last
                             THEN Renamed(last, x, @) ELSE @,
                  !.right  = IF i = m.parent THEN Renamed(last, x, @) ELSE @,
                  !.parent = IF i \in {m.left, m.right} THEN x ELSE @]
    BY <1>5, <2>3
  <2>5. node \in Nodes
    BY <2>1, <2>3
  <2>. HIDE DEF n, e
  <2>6. e(i) \in Nodes
    BY <1>1, <2>4, <2>5 DEF Nodes, Renamed
  <2>7. /\ e(i).index = IF i = x THEN x ELSE node.index
        /\ e(i).Key = node.Key
        /\ e(i).left  = IF i = m.parent /\ node.right # last
                        THEN Renamed(last, x, node.left) ELSE node.left
        /\ e(i).right = IF i = m.parent THEN Renamed(last, x, node.right) ELSE node.right
        /\ e(i).parent = IF i \in {m.left, m.right} THEN x ELSE node.parent
    BY <2>4, <2>5 DEF Nodes
  <2>. QED  BY <2>2, <2>3, <2>6, <2>7
<1>6. e(last) = ZeroNode /\ ZeroNode \in Nodes
  BY TreeAssumption DEF ZeroNode, Nodes, Slots
<1>7. \A i \in Slots : e(i) \in Nodes
  BY <1>5, <1>6
<1>8. \A y : n(Renamed(last, x, y)) = IF y = last \/ y = x THEN m ELSE t.node[y]
  BY DEF Renamed
<1>. HIDE DEF e
<1>9. moved \in [Slots -> Nodes] /\ \A i \in Slots : moved[i] = e(i)
  BY <1>7
<1>. HIDE DEF moved, n
<1>10. w.root = Renamed(last, x, t.root) /\ w.size = last /\ w.node = moved
  BY <1>4
<1>11. Typed(w)
  <2>1. Renamed(last, x, t.root) \in Slots \cup {Nil}
    BY <1>1 DEF Renamed, Typed
  <2>2. last \in 0 .. MaxSize
    BY <1>1, TreeAssumption DEF Slots
  <2>. QED  BY <1>4, <1>9, <2>1, <2>2 DEF Typed
<1>12. ASSUME NEW y \in M
       PROVE  /\ w.node[Renamed(last, x, y)].index = Renamed(last, x, y)
              /\ KeyOf(w, Renamed(last, x, y)) = KeyOf(t, y)
              /\ Up(w, Renamed(last, x, y)) = Renamed(last, x, Up(t, y))
              /\ \A s \in Sides : Down(w, Renamed(last, x, y), s) = Renamed(last, x, Down(t, y, s))
  <2>1. PICK i : i = Renamed(last, x, y)
    OBVIOUS
  <2>2. i \in Slots /\ i # last /\ (i = x <=> y = last) /\ (i # x => i = y) /\ y # x
    BY <1>1, <2>1 DEF Renamed
  <2>3. n(i) = t.node[y]
    BY <1>2, <1>8, <2>1, <2>2
  <2>4. /\ w.node[i].index = IF i = x THEN x ELSE t.node[i].index
        /\ w.node[i].Key = t.node[y].Key
        /\ w.node[i].left = IF i = m.parent /\ t.node[y].right # last
                            THEN Renamed(last, x, t.node[y].left) ELSE t.node[y].left
        /\ w.node[i].right = IF i = m.parent THEN Renamed(last, x, t.node[y].right)
                                             ELSE t.node[y].right
        /\ w.node[i].parent = IF i \in {m.left, m.right} THEN x ELSE t.node[y].parent
    BY <1>5, <1>9, <1>10, <2>2, <2>3
  <2>5. w.node[i].index = i /\ KeyOf(w, i) = KeyOf(t, y)
    BY <1>1, <2>2, <2>4 DEF Links, KeyOf
  <2>6. ASSUME NEW s \in Sides  PROVE Down(w, i, s) = Renamed(last, x, Down(t, y, s))
    <3>0. Down(t, y, "right") = last => Down(t, y, "left") # last
      <4>1. "right" \in Sides /\ Other("right") = "left" /\ last # Nil
        BY <1>1 DEF Sides, Other
      <4>2. \A r \in Sides : Down(t, y, r) # Nil => Down(t, y, r) # Down(t, y, Other(r))
        BY <1>1, TowardFacts DEF Links
      <4>. QED  BY <4>1, <4>2
    <3>1. Down(w, i, s) = IF i = m.parent THEN Renamed(last, x, Down(t, y, s)) ELSE Down(t, y, s)
      BY <2>4, <3>0 DEF Down, Sides, Renamed
    <3>2. Down(t, y, s) = last => i = m.parent
      <4>. SUFFICES ASSUME Down(t, y, s) = last  PROVE i = m.parent
        OBVIOUS
      <4>1. Up(t, last) = y /\ y # last
        BY <1>1, LinkFacts
      <4>. QED  BY <1>2, <2>2, <4>1 DEF Up
    <3>. QED  BY <3>1, <3>2 DEF Renamed
  <2>7. Up(w, i) = Renamed(last, x, Up(t, y))
    <3>1. Up(w, i) = IF i \in {m.left, m.right} THEN x ELSE Up(t, y)
      BY <2>4 DEF Up
    <3>2. i \in {m.left, m.right} => Up(t, y) = last
      <4>. SUFFICES ASSUME i \in {m.left, m.right}  PROVE Up(t, y) = last
        OBVIOUS
      <4>1. PICK s \in Sides : Down(t, last, s) = i
        BY <1>2 DEF Sides, Down
      <4>2. i \in M \cup {Nil} /\ (i # Nil => Up(t, i) = last)
        BY <1>1, <4>1, LinkFacts
      <4>3. i # Nil /\ i # x /\ i = y
        BY <1>1, <2>2, <4>2, SlotFacts
      <4>. QED  BY <4>2, <4>3
    <3>3. Up(t, y) = last => i \in {m.left, m.right}
      <4>. SUFFICES ASSUME Up(t, y) = last  PROVE i \in {m.left, m.right}
        OBVIOUS
      <4>1. last # Nil
        BY <1>1
      <4>2. Up(t, y) # y
        BY <4>1, NoCycle
      <4>3. i = y
        BY <2>2, <4>2
      <4>4. PICK s \in Sides : Down(t, last, s) = y
        BY <4>1, OnOneSide
      <4>. QED  BY <1>2, <4>3, <4>4 DEF Down, Sides
    <3>. QED  BY <3>1, <3>2, <3>3 DEF Renamed
  <2>. QED  BY <2>1, <2>5, <2>6, <2>7
<1>. QED  BY <1>10, <1>11, <1>12 DEF Moved

(* The end of Remove keeps the invariant.                                  *)
LEMMA CompactedGood ==
    ASSUME NEW t, NEW L, L = 0 .. t.size - 1, NEW x \in L, Good(t, L \ {x}),
           NEW w, w = Compacted(t, x)
    PROVE  Good(w, 0 .. w.size - 1)
<1>1. PICK last : last = t.size - 1
  OBVIOUS
<1>2. Typed(t) /\ L \subseteq Slots
  <2>1. Typed(t)
    BY DEF Good
  <2>. QED  BY <2>1, TypedFacts
<1>3. last \in L /\ last \in Nat /\ L = 0 .. last /\ 0 .. last - 1 = L \ {last}
  BY <1>1, <1>2, TypedFacts
<1>4. CASE x = last
  <2>1. Good(w, L \ {x}) /\ w.size = last
    BY <1>1, <1>2, <1>3, <1>4, LastDropped
  <2>. QED  BY <1>3, <1>4, <2>1
<1>5. CASE x # last
  <2>1. PICK M : M = L \ {x}
    OBVIOUS
  <2>2. last \in M /\ x \in Slots \ M /\ Good(t, M)
    BY <1>2, <1>3, <1>5, <2>1
  <2>3. Moved(t, w, M, last, x) /\ w.size = last
    BY <1>1, <2>2, LastMoved
  <2>4. Good(w, (M \ {last}) \cup {x})
    BY <2>2, <2>3, MovedGood
  <2>5. (M \ {last}) \cup {x} = 0 .. last - 1
    BY <1>3, <1>5, <2>1
  <2>. QED  BY <2>3, <2>4, <2>5
<1>. QED  BY <1>4, <1>5
-----------------------------------------------------------------------------
(* The invariant is what TLC checks as Sound.                              *)
LEMMA WholeTree == /\ GoodTree <=> Whole(tree)
                   /\ Sound <=> Whole(tree)
<1>1. GoodTree <=> Whole(tree)
  BY DEF GoodTree, Whole, Live
<1>2. Sound <=> GoodTree
  BY SoundIsGood, GoodIsSound
<1>. QED  BY <1>1, <1>2

(* An empty tree is good.                                                  *)
LEMMA EmptyWhole == Whole(EmptyTree) /\ EmptyTree.size = 0
<1>1. EmptyTree.root = Nil /\ EmptyTree.size = 0
  BY DEF EmptyTree
<1>2. Typed(EmptyTree)
  <2>1. ZeroNode \in Nodes
    BY TreeAssumption DEF ZeroNode, Nodes, Slots
  <2>2. 0 \in 0 .. MaxSize
    BY TreeAssumption
  <2>. QED  BY <2>1, <2>2 DEF Typed, EmptyTree
<1>3. 0 .. EmptyTree.size - 1 = {}
  BY <1>1
<1>4. Good(EmptyTree, {})
  BY <1>1, <1>2 DEF Good, Links
<1>. QED  BY <1>1, <1>3, <1>4 DEF Whole

(* Storing a value keeps the invariant.                                    *)
LEMMA ValueWhole ==
    ASSUME NEW t, Whole(t), NEW i \in Slots, NEW v \in InsertValues
    PROVE  Whole([t EXCEPT !.node[i].Value = v])
<1>1. PICK u : u = [t EXCEPT !.node[i].Value = v]
  OBVIOUS
<1>2. Typed(t) /\ t.node \in [Slots -> Nodes] /\ t.node[i] \in Nodes
  BY DEF Whole, Good, Typed
<1>3. PICK new : new = [t.node[i] EXCEPT !.Value = v]
  OBVIOUS
<1>4. new \in Nodes
  BY <1>2, <1>3, TreeAssumption DEF Nodes
<1>5. \A f \in Steering : new[f] = t.node[i][f]
  BY <1>2, <1>3 DEF Nodes, Steering
<1>6. /\ u = [root |-> t.root, size |-> t.size, node |-> [t.node EXCEPT ![i] = new]]
      /\ u.node = [t.node EXCEPT ![i] = new] /\ u.root = t.root /\ u.size = t.size
  BY <1>1, <1>2, <1>3 DEF Typed
<1>7. [t.node EXCEPT ![i] = new] \in [Slots -> Nodes]
  BY <1>2, <1>4
<1>8. Typed(u)
  BY <1>2, <1>6, <1>7 DEF Typed
<1>9. \A j \in Slots : u.node[j] = IF j = i THEN new ELSE t.node[j]
  BY <1>2, <1>6
<1>10. PICK L : L = 0 .. t.size - 1
  OBVIOUS
<1>11. Alike(t, u, L)
  <2>1. L \subseteq Slots
    BY <1>2, <1>10, TypedFacts
  <2>. QED  BY <1>5, <1>6, <1>9, <2>1 DEF Alike
<1>12. Good(u, L)
  BY <1>8, <1>10, <1>11, AlikeGood DEF Whole
<1>. QED  BY <1>1, <1>6, <1>10, <1>12 DEF Whole

(* Inserting a missing key keeps the invariant, with room or without.      *)
LEMMA AppendWhole ==
    ASSUME NEW t, Whole(t), NEW k \in Keys, NEW v \in InsertValues,
           \A l \in 0 .. t.size - 1 : KeyOf(t, l) # k, Append(t, k, v)
    PROVE  Whole(tree')
<1>1. CASE t.size < MaxSize /\ tree' = Inserted(t, k, v)
  BY <1>1, InsertedWhole
<1>2. CASE tree' = t
  BY <1>2
<1>. QED  BY <1>1, <1>2 DEF Append

(* Every call of insert keeps the invariant.                               *)
LEMMA InsertWhole ==
    ASSUME Whole(tree), NEW k \in Keys, NEW v \in InsertValues, Insert(k, v)
    PROVE  Whole(tree')
<1>1. PICK found : /\ found = Find(tree, k)
                   /\ \/ /\ found \in Slots
                         /\ tree' = [tree EXCEPT !.node[found].Value = v]
                      \/ found = Nil /\ Append(tree, k, v)
                      \/ found = Broken /\ Append(EmptyTree, k, v)
  BY DEF Insert
<1>2. CASE found \in Slots
  BY <1>1, <1>2, ValueWhole, SlotFacts
<1>3. CASE found = Nil
  <2>1. \A l \in Live : KeyOf(tree, l) # k
    BY <1>1, <1>3, FoundKey, WholeTree
  <2>2. \A l \in 0 .. tree.size - 1 : KeyOf(tree, l) # k
    BY <2>1 DEF Live
  <2>3. Append(tree, k, v)
    BY <1>1, <1>3, SlotFacts
  <2>. QED  BY <2>2, <2>3, AppendWhole
<1>4. CASE found = Broken
  <2>1. \A l \in 0 .. EmptyTree.size - 1 : KeyOf(EmptyTree, l) # k
    BY EmptyWhole
  <2>2. Append(EmptyTree, k, v)
    BY <1>1, <1>4, SlotFacts
  <2>. QED  BY <2>1, <2>2, EmptyWhole, AppendWhole
<1>. QED  BY <1>1, <1>2, <1>3, <1>4

(* Every call of Remove does, if no node is a red half node.               *)
LEMMA RemoveWhole ==
    ASSUME Whole(tree), ~ RedHalfNode, NEW k \in Keys, Remove(k)
    PROVE  Whole(tree')
<1>1. PICK found : /\ found = Find(tree, k)
                   /\ \/ /\ found \in Slots
                         /\ \E x \in {Unlinked(tree, found)} \ {Endless} :
                               \E t \in {WithoutNode(tree, found, x)} : tree' = Compacted(t, x)
                      \/ found = Nil /\ UNCHANGED tree
                      \/ found = Broken /\ tree' = EmptyTree
  BY DEF Remove
<1>2. CASE found \in Slots
  <2>1. found \in Live /\ Live \subseteq Slots /\ GoodTree
    BY <1>1, <1>2, FoundKey, WholeTree, SlotFacts
  <2>2. PICK L : L = Live
    OBVIOUS
  <2>3. PICK x : x = Unlinked(tree, found)
    OBVIOUS
  <2>4. PICK t : t = WithoutNode(tree, found, x)
    OBVIOUS
  <2>5. tree' = Compacted(t, x)
    <3>1. found # Nil /\ found # Broken
      BY <1>2, SlotFacts
    <3>. QED  BY <1>1, <2>3, <2>4, <3>1
  <2>6. Good(tree, L) /\ found \in L
    BY <2>1, <2>2 DEF GoodTree
  <2>7. /\ x \in L
        /\ x = found => Down(tree, x, "left") = Nil
        /\ x # found => /\ x # tree.root
                        /\ Down(tree, x, "right") = Nil
                        /\ KeyOf(tree, x) < KeyOf(tree, found)
                        /\ \A l \in L : KeyOf(tree, l) < KeyOf(tree, found)
                                           => KeyOf(tree, l) <= KeyOf(tree, x)
    BY <2>3, <2>6, UnlinkedIs
  <2>8. Good(t, L \ {x})
    <3>1. CASE x = found
      <4>1. tree.node[found].color = "RED" => Down(tree, found, "right") = Nil
        BY <2>1, <2>7, <3>1 DEF RedHalfNode, Down
      <4>2. t = UnlinkedWithoutLeft(tree, found)
        BY <2>4, <3>1 DEF WithoutNode
      <4>. QED  BY <2>6, <2>7, <3>1, <4>1, <4>2, UnlinkedWithoutLeftGood
    <3>2. CASE x # found
      <4>1. t = UnlinkedPredecessor(tree, found, x)
        BY <2>4, <3>2 DEF WithoutNode
      <4>. QED  BY <2>6, <2>7, <3>2, <4>1, UnlinkedPredecessorGood
    <3>. QED  BY <3>1, <3>2
  <2>9. t.size = tree.size
    <3>1. Shape(tree)
      BY <2>6, TypedShape DEF Good
    <3>. QED  BY <2>1, <2>2, <2>4, <2>7, <3>1, WithoutNodePairs
  <2>10. L = 0 .. t.size - 1
    BY <2>2, <2>9 DEF Live
  <2>. QED  BY <2>5, <2>7, <2>8, <2>10, CompactedGood DEF Whole
<1>3. CASE found = Nil
  <2>1. tree' = tree
    BY <1>1, <1>3, SlotFacts
  <2>. QED  BY <2>1
<1>4. CASE found = Broken
  <2>1. tree' = EmptyTree
    BY <1>1, <1>4, SlotFacts
  <2>. QED  BY <2>1, EmptyWhole
<1>. QED  BY <1>1, <1>2, <1>3, <1>4

(* So do the other calls.                                                  *)
LEMMA OtherWhole ==
    ASSUME Whole(tree), (\E v \in InsertValues : SetLastValue(v)) \/ Reset
    PROVE  Whole(tree')
<1>1. ASSUME NEW v \in InsertValues, SetLastValue(v)  PROVE Whole(tree')
  <2>1. tree.size > 0 /\ tree' = [tree EXCEPT !.node[tree.size - 1].Value = v]
    BY <1>1 DEF SetLastValue
  <2>2. tree.size - 1 \in Slots
    <3>1. tree.size \in 0 .. MaxSize
      BY TypedFacts DEF Whole, Good
    <3>. QED  BY <2>1, <3>1, TreeAssumption DEF Slots
  <2>3. PICK i \in Slots : i = tree.size - 1
    BY <2>2
  <2>. QED  BY <2>1, <2>3, ValueWhole
<1>2. CASE Reset
  BY <1>2, EmptyWhole DEF Reset
<1>. QED  BY <1>1, <1>2

(* For trees of every size and whatever colours, updates keep links        *)
(* consistent and every key findable, as long as no node is red with only  *)
(* a right child (line 301). In particular every search, descent,          *)
(* CheckTree and RemoveDoubleBlack they call returns.                      *)
THEOREM KeepsTreeSound == Spec => UpdatesKeepTreeSound
<1>1. ASSUME Whole(tree), ~ RedHalfNode, [Next]_tree  PROVE Whole(tree')
  <2>1. CASE Insertion
    BY <1>1, <2>1, InsertWhole DEF Insertion
  <2>2. CASE Removal
    BY <1>1, <2>2, RemoveWhole DEF Removal
  <2>3. CASE (\E v \in InsertValues : SetLastValue(v)) \/ Reset
    BY <1>1, <2>3, OtherWhole
  <2>4. CASE UNCHANGED tree
    BY <1>1, <2>4
  <2>. QED  BY <1>1, <2>1, <2>2, <2>3, <2>4 DEF Next
<1>2. Sound <=> Whole(tree)
  BY WholeTree
<1>3. (Whole(tree))' <=> Whole(tree')
  BY DEF Whole
<1>4. Sound' <=> (Whole(tree))'
  BY <1>2, PTL
<1>5. [Next]_tree => [tree' # tree /\ Sound /\ ~ RedHalfNode => Sound']_tree
  BY <1>1, <1>2, <1>3, <1>4
<1>. QED  BY <1>5, PTL DEF Spec, UpdatesKeepTreeSound

(* The behaviours without a removal.                                       *)
Insertions == Init /\ [][\/ Insertion
                         \/ \E v \in InsertValues : SetLastValue(v)
                         \/ Reset]_tree

(* Without removals the tree is sound, with no condition on colours: every *)
(* key can be found, for any number of insertions, in any order.           *)
THEOREM InsertionsSound == Insertions => []Sound
<1>1. Init => Sound
  BY EmptyWhole, WholeTree DEF Init
<1>2. ASSUME Whole(tree), [\/ Insertion
                           \/ \E v \in InsertValues : SetLastValue(v)
                           \/ Reset]_tree
      PROVE  Whole(tree')
  <2>1. CASE Insertion
    BY <1>2, <2>1, InsertWhole DEF Insertion
  <2>2. CASE (\E v \in InsertValues : SetLastValue(v)) \/ Reset
    BY <1>2, <2>2, OtherWhole
  <2>3. CASE UNCHANGED tree
    BY <1>2, <2>3
  <2>. QED  BY <1>2, <2>1, <2>2, <2>3
<1>3. Sound <=> Whole(tree)
  BY WholeTree
<1>4. (Whole(tree))' <=> Whole(tree')
  BY DEF Whole
<1>5. Sound' <=> (Whole(tree))'
  BY <1>3, PTL
<1>6. Sound /\ [\/ Insertion
                \/ \E v \in InsertValues : SetLastValue(v)
                \/ Reset]_tree => Sound'
  BY <1>2, <1>3, <1>4, <1>5
<1>. QED  BY <1>1, <1>6, PTL DEF Insertions

(* With removals the tree is sound as long as no red half node appears.    *)
THEOREM SoundWithoutHalfNodes == Spec /\ []~ RedHalfNode => []Sound
<1>1. Init => Sound
  BY EmptyWhole, WholeTree DEF Init
<1>2. UpdatesKeepTreeSound <=> [][tree' # tree /\ Sound /\ ~ RedHalfNode => Sound']_tree
  BY DEF UpdatesKeepTreeSound
<1>3. (tree' # tree \/ UNCHANGED tree) /\ (UNCHANGED tree /\ Sound => Sound')
  <2>1. Sound <=> Whole(tree)
    BY WholeTree
  <2>2. (Whole(tree))' <=> Whole(tree')
    BY DEF Whole
  <2>3. Sound' <=> (Whole(tree))'
    BY <2>1, PTL
  <2>. QED  BY <2>1, <2>2, <2>3
<1>. QED  BY <1>1, <1>2, <1>3, KeepsTreeSound, PTL DEF Spec

(* The empty tree is an empty array.                                       *)
LEMMA FreshIsFresh ==
    ASSUME tree = EmptyTree
    PROVE  Array!ArrayInit
BY DEF EmptyTree, ZeroNode, Array!ArrayInit, Array!Slots, Array!ZeroNode, Pairs, Slots

(* Storing the value of the last node is what NodeArray says of it.        *)
LEMMA ValueImplements ==
    ASSUME Sound, NEW v \in InsertValues, SetLastValue(v)
    PROVE  Array!SetLastValue(v)
<1>1. tree.size > 0 /\ tree' = [tree EXCEPT !.node[tree.size - 1].Value = v]
  BY DEF SetLastValue
<1>2. Shape(tree) /\ tree.size - 1 \in Slots
  <2>1. tree.size \in 0 .. MaxSize /\ MaxSize \in Nat
    BY MaxTurnsType, TypedFacts DEF Sound, TypeOK, Typed
  <2>. QED  BY <1>1, <2>1, SoundShape DEF Slots
<1>3. PICK i \in Slots : i = tree.size - 1
  BY <1>2
<1>4. tree'.size = tree.size /\ tree'.node = [tree.node EXCEPT ![i].Value = v]
  BY <1>1, <1>2, <1>3 DEF Shape
<1>5. Pairs(tree') = [Pairs(tree) EXCEPT ![i].Value = v]
  <2>1. \A j \in Slots : /\ tree'.node[j].Key = tree.node[j].Key
                         /\ tree'.node[j].Value = IF j = i THEN v ELSE tree.node[j].Value
    BY <1>2, <1>4 DEF Shape, Fields
  <2>. QED  BY <2>1 DEF Pairs
<1>. QED  BY <1>1, <1>3, <1>4, <1>5 DEF Array!SetLastValue, Pairs

(* Every step of a sound tree is a step of NodeArray, or changes nothing   *)
(* that callers see.                                                       *)
LEMMA StepImplements ==
    ASSUME Sound, [Next]_tree
    PROVE  [Array!ArrayNext]_(Array!arrayVars)
<1>0. InsertValues \subseteq Array!Values
  BY TreeAssumption DEF Array!Values, Array!Slots
<1>1. CASE Insertion
  <2>1. PICK k \in Keys, v \in InsertValues : Insert(k, v)
    BY <1>1 DEF Insertion
  <2>. QED  BY <1>0, <2>1, InsertImplements DEF Array!ArrayNext
<1>2. CASE Removal
  <2>1. PICK k \in Keys : Remove(k)
    BY <1>2 DEF Removal
  <2>. QED  BY <2>1, RemoveImplements DEF Array!ArrayNext
<1>3. CASE (\E v \in InsertValues : SetLastValue(v)) \/ Reset
  <2>1. ASSUME NEW v \in InsertValues, SetLastValue(v)  PROVE Array!ArrayNext
    BY <1>0, <2>1, ValueImplements DEF Array!ArrayNext
  <2>2. CASE Reset
    BY <2>2 DEF Reset, EmptyTree, ZeroNode, Array!ArrayNext, Array!ClearNodes,
               Array!Slots, Array!ZeroNode, Slots
  <2>. QED  BY <1>3, <2>1, <2>2
<1>4. CASE UNCHANGED tree
  BY <1>4 DEF Array!arrayVars
<1>. QED  BY <1>1, <1>2, <1>3, <1>4 DEF Next

(* As long as removals leave no red half node, the tree implements         *)
(* NodeArray, the array of pairs that callers see: whatever rotations and  *)
(* repairs do to the links, every call has the effect on the pairs that    *)
(* NodeArray gives it.                                                     *)
THEOREM ImplementsArray == Spec /\ []~ RedHalfNode => Array!ArraySpec
<1>1. Init => Array!ArrayInit
  BY FreshIsFresh DEF Init
<1>2. Sound /\ [Next]_tree => [Array!ArrayNext]_(Array!arrayVars)
  BY StepImplements
<1>. QED  BY <1>1, <1>2, SoundWithoutHalfNodes, PTL DEF Spec, Array!ArraySpec

(* Without removals it does so with no condition.                          *)
THEOREM InsertionsImplementArray == Insertions => Array!ArraySpec
<1>1. Init => Array!ArrayInit
  BY FreshIsFresh DEF Init
<1>2. [\/ Insertion
       \/ \E v \in InsertValues : SetLastValue(v)
       \/ Reset]_tree => [Next]_tree
  BY DEF Next
<1>3. Sound /\ [Next]_tree => [Array!ArrayNext]_(Array!arrayVars)
  BY StepImplements
<1>. QED  BY <1>1, <1>2, <1>3, InsertionsSound, PTL DEF Insertions, Array!ArraySpec

(* Types, on their own.                                                    *)
COROLLARY TypesWithoutHalfNodes == Spec /\ []~ RedHalfNode => []TypeOK
<1>1. Sound => TypeOK
  BY DEF Sound
<1>. QED  BY <1>1, SoundWithoutHalfNodes, PTL
-----------------------------------------------------------------------------
(* The way up from a slot.                                                 *)
Way(t, i) == UpLoop!Run(t, [at |-> i, blacks |-> 0])

(* It goes to the parent, and ends at the root.                            *)
LEMMA WaySteps ==
    ASSUME NEW t, NEW i
    PROVE  /\ Way(t, i)[0] = [at |-> i, blacks |-> 0]
           /\ \A n \in Nat : Way(t, i)[n + 1] = UpTurn(t, Way(t, i)[n])
BY UpLoop!RunSteps DEF Way

(* The way up from a node is that from its parent, one turn later and with *)
(* the node counted.                                                       *)
LEMMA WayFromParent ==
    ASSUME NEW t, NEW i, i # Nil, NEW n \in Nat
    PROVE  /\ Way(t, i)[n].blacks \in Int
           /\ Way(t, i)[n + 1] = [at     |-> Way(t, Up(t, i))[n].at,
                                  blacks |-> Way(t, Up(t, i))[n].blacks + Black(t, i)]
<1>. DEFINE p == Up(t, i)
            T == {m \in Nat : /\ Way(t, i)[m].blacks \in Int
                              /\ Way(t, p)[m].blacks \in Int
                              /\ Way(t, i)[m + 1] = [at     |-> Way(t, p)[m].at,
                                                     blacks |-> Way(t, p)[m].blacks + Black(t, i)]}
<1>1. /\ Way(t, i)[0] = [at |-> i, blacks |-> 0]
      /\ Way(t, p)[0] = [at |-> p, blacks |-> 0]
      /\ \A m \in Nat : /\ Way(t, i)[m + 1] = UpTurn(t, Way(t, i)[m])
                        /\ Way(t, p)[m + 1] = UpTurn(t, Way(t, p)[m])
  BY WaySteps
<1>2. \A s : UpTurn(t, s) = IF s.at = Nil THEN s
                            ELSE [at |-> Up(t, s.at), blacks |-> s.blacks + Black(t, s.at)]
  BY DEF UpTurn, UpEnds, Up, Black
<1>3. \A x : Black(t, x) \in Int
  BY DEF Black
<1>. HIDE DEF p
<1>4. 0 \in T
  <2>1. Way(t, i)[0 + 1] = [at |-> Up(t, i), blacks |-> 0 + Black(t, i)]
    BY <1>1, <1>2
  <2>. QED  BY <1>1, <1>3, <2>1 DEF p
<1>5. ASSUME NEW m \in Nat, m \in T  PROVE m + 1 \in T
  <2>1. PICK a : a = Way(t, i)[m + 1]
    OBVIOUS
  <2>2. PICK b : b = Way(t, p)[m]
    OBVIOUS
  <2>3. a = [at |-> b.at, blacks |-> b.blacks + Black(t, i)] /\ b.blacks \in Int
    BY <1>5, <2>1, <2>2
  <2>4. Way(t, p)[m + 1] = UpTurn(t, b) /\ Way(t, i)[(m + 1) + 1] = UpTurn(t, a)
    BY <1>1, <2>1, <2>2
  <2>5. a.at = b.at /\ a.blacks = b.blacks + Black(t, i)
    BY <2>3
  <2>6. UpTurn(t, b).blacks \in Int
    BY <1>2, <1>3, <2>3
  <2>7. UpTurn(t, a) = [at |-> UpTurn(t, b).at, blacks |-> UpTurn(t, b).blacks + Black(t, i)]
    <3>1. CASE b.at = Nil
      BY <1>2, <2>3, <2>5, <3>1
    <3>2. CASE b.at # Nil
      <4>1. UpTurn(t, a) = [at |-> Up(t, b.at), blacks |-> b.blacks + Black(t, i) + Black(t, b.at)]
        BY <1>2, <2>5, <3>2
      <4>2. UpTurn(t, b) = [at |-> Up(t, b.at), blacks |-> b.blacks + Black(t, b.at)]
        BY <1>2, <3>2
      <4>3. b.blacks + Black(t, i) + Black(t, b.at) = b.blacks + Black(t, b.at) + Black(t, i)
        BY <1>3, <2>3
      <4>. QED  BY <4>1, <4>2, <4>3
    <3>. QED  BY <3>1, <3>2
  <2>8. a.blacks \in Int
    BY <1>3, <2>3, <2>5
  <2>9. m + 1 \in Nat
    OBVIOUS
  <2>. QED  BY <2>1, <2>4, <2>6, <2>7, <2>8, <2>9
<1>6. Nat \subseteq T
  <2>. HIDE DEF T
  <2>. QED  BY <1>4, <1>5, UpLoop!SetInduction
<1>. QED  BY <1>6 DEF p

(* The way up from a node of a good tree ends: it goes back along the path *)
(* of the search for its key.                                              *)
LEMMA WayEnds ==
    ASSUME NEW t, NEW L, Good(t, L), NEW i \in L \cup {Nil}
    PROVE  \A n \in Nat : n > MaxTurns => Way(t, i)[n].at = Nil
<1>1. /\ Links(t, L) /\ Nil \notin L /\ MaxTurns \in Nat
      /\ Way(t, i)[0] = [at |-> i, blacks |-> 0]
      /\ \A m \in Nat : Way(t, i)[m + 1] = UpTurn(t, Way(t, i)[m])
  BY WaySteps, SlotFacts, MaxTurnsType DEF Good, Links
<1>2. \A s : UpTurn(t, s).at = IF s.at = Nil THEN Nil ELSE Up(t, s.at)
  BY DEF UpTurn, UpEnds, Up
<1>. DEFINE P == Search(t, KeyOf(t, i))
            T == {n \in Nat : \/ Way(t, i)[n].at = Nil
                              \/ /\ Way(t, i)[n].at \in L
                                 /\ \E m \in Nat : m + n <= MaxTurns /\ P[m] = Way(t, i)[n].at}
<1>3. 0 \in T
  <2>1. i \in L => P[MaxTurns] = i
    BY GoodFinds
  <2>2. Way(t, i)[0].at = i /\ MaxTurns + 0 <= MaxTurns
    BY <1>1
  <2>. QED  BY <1>1, <2>1, <2>2
<1>4. ASSUME NEW n \in Nat, n \in T  PROVE n + 1 \in T
  <2>1. PICK y : y = Way(t, i)[n].at
    OBVIOUS
  <2>2. Way(t, i)[n + 1].at = IF y = Nil THEN Nil ELSE Up(t, y)
    BY <1>1, <1>2, <2>1
  <2>3. CASE y = Nil
    BY <2>2, <2>3
  <2>4. CASE y # Nil
    <3>1. y \in L
      BY <1>4, <2>1, <2>4
    <3>2. PICK m \in Nat : m + n <= MaxTurns /\ P[m] = y
      BY <1>4, <2>1, <2>4
    <3>3. CASE y = t.root
      <4>1. Up(t, y) = Nil
        BY <1>1, <3>1, <3>3, LinkFacts
      <4>. QED  BY <2>2, <2>4, <4>1
    <3>4. CASE y # t.root
      <4>. HIDE DEF P
      <4>1. /\ Up(t, y) \in L
            /\ \E l \in Nat : l < m /\ P[l] = Up(t, y)
        BY <1>1, <3>1, <3>2, <3>4, Came DEF P
      <4>2. PICK l \in Nat : l < m /\ P[l] = Up(t, y)
        BY <4>1
      <4>3. l + (n + 1) <= MaxTurns
        BY <1>1, <3>2, <4>2
      <4>. QED  BY <2>2, <2>4, <4>1, <4>2, <4>3
    <3>. QED  BY <3>3, <3>4
  <2>. QED  BY <2>3, <2>4
<1>5. Nat \subseteq T
  <2>. HIDE DEF T
  <2>. QED  BY <1>3, <1>4, UpLoop!SetInduction
<1>6. ASSUME NEW n \in Nat, n > MaxTurns  PROVE Way(t, i)[n].at = Nil
  <2>1. \A m \in Nat : ~ (m + n <= MaxTurns)
    BY <1>1, <1>6
  <2>. HIDE DEF P
  <2>. QED  BY <1>5, <2>1
<1>. QED  BY <1>6

(* So the blacks above a node are those above its parent and itself.       *)
LEMMA BlacksAboveIs ==
    ASSUME NEW t, NEW L, Good(t, L), NEW i \in L
    PROVE  /\ BlacksAbove(t, i) \in Int
           /\ BlacksAbove(t, i) = Black(t, i) + IF i = t.root THEN 0 ELSE BlacksAbove(t, Up(t, i))
<1>1. Links(t, L) /\ Nil \notin L /\ MaxTurns \in Nat /\ MaxTurns > 1
  BY MaxTurnsType, SlotFacts DEF Good, Links, MaxTurns
<1>2. PICK N \in Nat : N = 2 * MaxTurns - 1
  BY <1>1
<1>3. N > MaxTurns
  BY <1>1, <1>2
<1>4. ASSUME NEW x \in L
      PROVE  /\ BlacksAbove(t, x) = Way(t, x)[N + 1].blacks
             /\ Way(t, x)[N + 1] = Way(t, x)[N]
             /\ Way(t, x)[N + 1].blacks \in Int
  <2>1. Way(t, x)[N].at = Nil /\ Way(t, x)[N + 1].at = Nil
    BY <1>1, <1>2, <1>3, WayEnds
  <2>2. Way(t, x)[N + 1] = Way(t, x)[N]
    BY <2>1, WaySteps DEF UpTurn, UpEnds
  <2>3. N + 1 = 2 * MaxTurns
    BY <1>1, <1>2
  <2>4. BlacksAbove(t, x) = Way(t, x)[N + 1].blacks
    BY <2>1, <2>3, UpLoop!ResultIs DEF BlacksAbove, Way, UpEnds
  <2>5. x # Nil /\ N + 1 \in Nat
    BY <1>1, <1>2
  <2>6. Way(t, x)[N + 1].blacks \in Int
    BY <2>5, WayFromParent
  <2>. QED  BY <2>2, <2>4, <2>6
<1>5. PICK p : p = Up(t, i)
  OBVIOUS
<1>6. Way(t, i)[N + 1].blacks = Way(t, p)[N].blacks + Black(t, i)
  <2>1. i # Nil
    BY <1>1
  <2>2. Way(t, i)[N + 1] = [at     |-> Way(t, Up(t, i))[N].at,
                            blacks |-> Way(t, Up(t, i))[N].blacks + Black(t, i)]
    BY <2>1, WayFromParent
  <2>. QED  BY <1>5, <2>2
<1>7. CASE i = t.root
  <2>1. p = Nil
    BY <1>1, <1>5, <1>7, LinkFacts
  <2>. DEFINE T == {n \in Nat : Way(t, Nil)[n] = [at |-> Nil, blacks |-> 0]}
  <2>2. 0 \in T
    BY WaySteps
  <2>3. ASSUME NEW n \in Nat, n \in T  PROVE n + 1 \in T
    <3>0. n + 1 \in Nat
      BY <2>3
    <3>1. Way(t, Nil)[n + 1] = UpTurn(t, Way(t, Nil)[n])
      BY WaySteps
    <3>2. Way(t, Nil)[n] = [at |-> Nil, blacks |-> 0]
      BY <2>3
    <3>3. Way(t, Nil)[n + 1] = Way(t, Nil)[n]
      BY <3>1, <3>2 DEF UpTurn, UpEnds
    <3>. QED  BY <3>0, <3>2, <3>3
  <2>4. Nat \subseteq T
    <3>. HIDE DEF T
    <3>. QED  BY <2>2, <2>3, UpLoop!SetInduction
  <2>5. Way(t, p)[N].blacks = 0
    BY <2>1, <2>4
  <2>. QED  BY <1>4, <1>6, <1>7, <2>5 DEF Black
<1>8. CASE i # t.root
  <2>1. p \in L
    BY <1>1, <1>5, <1>8, LinkFacts
  <2>2. BlacksAbove(t, p) = Way(t, p)[N].blacks /\ BlacksAbove(t, p) \in Int
    BY <1>4, <2>1
  <2>. QED  BY <1>4, <1>5, <1>6, <1>8, <2>2 DEF Black
<1>. QED  BY <1>7, <1>8

(* The nodes with a free link, and that all of them have the same number   *)
(* of blacks above: SameBlackHeight of any tree.                           *)
Open(t, L) == {l \in L : Nil \in {t.node[l].left, t.node[l].right}}

Same(t, L) == \A i, j \in Open(t, L) : BlacksAbove(t, i) = BlacksAbove(t, j)

(* If a tree has heights, the blacks above a node and those below it make  *)
(* up the height of the root.                                              *)
LEMMA AboveAndBelow ==
    ASSUME NEW t, NEW L, Good(t, L), NEW h, Heights(t, L, h), NEW i \in L
    PROVE  /\ h[t.root] \in Int
           /\ BlacksAbove(t, i) + h[i] - Black(t, i) = h[t.root]
<1>1. Links(t, L) /\ Visits(t, KeyOf(t, i), i) /\ t.root \in L \cup {Nil}
  BY DEF Good, Links
<1>2. \A y \in L \cup {Nil} : h[y] \in Int
  BY DEF Heights
<1>3. \A y : Black(t, y) \in Int
  BY DEF Black
<1>. DEFINE S == {y \in L : BlacksAbove(t, y) + h[y] - Black(t, y) = h[t.root]}
<1>4. t.root \in L => t.root \in S
  <2>. SUFFICES ASSUME t.root \in L  PROVE t.root \in S
    OBVIOUS
  <2>1. BlacksAbove(t, t.root) = Black(t, t.root) + 0
    BY BlacksAboveIs
  <2>. QED  BY <1>2, <1>3, <2>1
<1>5. ASSUME NEW y \in S, Child(t, KeyOf(t, i), y) \in L
      PROVE  Child(t, KeyOf(t, i), y) \in S
  <2>1. PICK s \in Sides : Child(t, KeyOf(t, i), y) = Down(t, y, s)
    BY TowardFacts
  <2>2. PICK c \in L : c = Down(t, y, s)
    BY <1>5, <2>1
  <2>3. Up(t, c) = y /\ c # t.root
    <3>1. c # Nil
      BY <1>1, LinkFacts
    <3>2. Up(t, c) = y
      BY <1>1, <2>2, <3>1, LinkFacts
    <3>3. y # Nil
      BY <1>1, LinkFacts
    <3>. QED  BY <1>1, <3>2, <3>3, LinkFacts
  <2>4. BlacksAbove(t, c) = Black(t, c) + BlacksAbove(t, y) /\ BlacksAbove(t, y) \in Int
    BY <2>3, BlacksAboveIs
  <2>5. h[y] = h[c] + Black(t, y)
    BY <2>2 DEF Heights
  <2>6. BlacksAbove(t, y) + h[y] - Black(t, y) = h[t.root]
    OBVIOUS
  <2>7. BlacksAbove(t, c) + h[c] - Black(t, c) = h[t.root]
    BY <1>2, <1>3, <2>4, <2>5, <2>6
  <2>. QED  BY <2>1, <2>2, <2>7
<1>6. i \in S
  <2>. HIDE DEF S
  <2>. QED  BY <1>1, <1>4, <1>5, VisitsWithin
<1>. QED  BY <1>1, <1>2, <1>6

(* So a tree has heights exactly if its nodes with a free link have the    *)
(* same number of blacks above them.                                       *)
LEMMA HeightsAreBlacks ==
    ASSUME NEW t, NEW L, Good(t, L)
    PROVE  (\E h : Heights(t, L, h)) <=> Same(t, L)
<1>1. Links(t, L) /\ Nil \notin L
  BY SlotFacts DEF Good, Links
<1>2. \A y : Black(t, y) \in Int
  BY DEF Black
<1>3. \A y \in L : BlacksAbove(t, y) \in Int
  BY BlacksAboveIs
<1>4. \A y \in L : y \in Open(t, L) <=> \E s \in Sides : Down(t, y, s) = Nil
  BY DEF Open, Sides, Down
<1>5. ASSUME NEW h, Heights(t, L, h)  PROVE Same(t, L)
  <2>1. ASSUME NEW y \in Open(t, L)  PROVE BlacksAbove(t, y) = h[t.root]
    <3>1. y \in L
      BY DEF Open
    <3>2. h[y] = Black(t, y)
      <4>1. PICK s \in Sides : Down(t, y, s) = Nil
        BY <1>4, <3>1
      <4>2. h[y] = h[Nil] + Black(t, y) /\ h[Nil] = 0
        BY <1>5, <3>1, <4>1 DEF Heights
      <4>. QED  BY <1>2, <4>2
    <3>3. BlacksAbove(t, y) + h[y] - Black(t, y) = h[t.root] /\ h[t.root] \in Int
      BY <1>5, <3>1, AboveAndBelow
    <3>. QED  BY <1>2, <1>3, <3>1, <3>2, <3>3
  <2>. QED  BY <2>1 DEF Same
<1>6. ASSUME Same(t, L)  PROVE \E h : Heights(t, L, h)
  <2>1. PICK K \in Int : \A y \in Open(t, L) : BlacksAbove(t, y) = K
    <3>1. CASE Open(t, L) = {}
      BY <3>1
    <3>2. CASE Open(t, L) # {}
      <4>1. PICK z \in Open(t, L) : TRUE
        BY <3>2
      <4>2. BlacksAbove(t, z) \in Int
        BY <1>3, <4>1 DEF Open
      <4>. QED  BY <1>6, <4>1, <4>2 DEF Same
    <3>. QED  BY <3>1, <3>2
  <2>. DEFINE h == [y \in L \cup {Nil} |-> IF y = Nil THEN 0
                                           ELSE K - BlacksAbove(t, y) + Black(t, y)]
  <2>2. \A y \in L : /\ h[y] = K - BlacksAbove(t, y) + Black(t, y)
                     /\ K - BlacksAbove(t, y) + Black(t, y) \in Int
    BY <1>1, <1>2, <1>3
  <2>3. h[Nil] = 0 /\ h \in [L \cup {Nil} -> Int]
    BY <2>2
  <2>. HIDE DEF h
  <2>4. ASSUME NEW y \in L, NEW s \in Sides  PROVE h[y] = h[Down(t, y, s)] + Black(t, y)
    <3>1. CASE Down(t, y, s) = Nil
      <4>1. BlacksAbove(t, y) = K
        BY <1>4, <2>1, <3>1
      <4>. QED  BY <1>2, <2>2, <2>3, <3>1, <4>1
    <3>2. CASE Down(t, y, s) # Nil
      <4>1. PICK c \in L : c = Down(t, y, s)
        BY <1>1, <3>2, LinkFacts
      <4>2. Up(t, c) = y /\ y # Nil
        BY <1>1, <3>2, <4>1, LinkFacts
      <4>3. c # t.root
        BY <1>1, <4>2, LinkFacts
      <4>4. BlacksAbove(t, c) = Black(t, c) + BlacksAbove(t, y)
        BY <4>2, <4>3, BlacksAboveIs
      <4>5. h[c] = K - BlacksAbove(t, c) + Black(t, c)
        BY <2>2
      <4>6. h[y] = K - BlacksAbove(t, y) + Black(t, y)
        BY <2>2
      <4>7. h[y] = h[c] + Black(t, y)
        BY <1>2, <1>3, <4>4, <4>5, <4>6
      <4>. QED  BY <4>1, <4>7
    <3>. QED  BY <3>1, <3>2
  <2>. QED  BY <2>3, <2>4 DEF Heights
<1>. QED  BY <1>5, <1>6

(* What TLC checks as RedBlackInvariant says that the tree is red-black.   *)
LEMMA RedBlackIs ==
    ASSUME Whole(tree)
    PROVE  RedBlackInvariant <=> RedBlack(tree)
<1>1. PICK L : L = Live
  OBVIOUS
<1>2. Good(tree, L) /\ L = 0 .. tree.size - 1
  BY <1>1 DEF Whole, Live
<1>3. Nil \notin L
  BY <1>2, SlotFacts DEF Good, Links
<1>4. RootBlack <=> BlackRoot(tree)
  BY DEF RootBlack, BlackRoot
<1>5. NoTwoReds <=> \A i \in L \ {Nil, tree.root} : Parted(tree, i)
  BY <1>1, <1>3 DEF NoTwoReds, Parted, Up
<1>6. SameBlackHeight <=> Same(tree, L)
  BY <1>1 DEF SameBlackHeight, Same, Open
<1>7. SameBlackHeight <=> \E h : Heights(tree, L, h)
  BY <1>2, <1>6, HeightsAreBlacks
<1>. QED  BY <1>2, <1>4, <1>5, <1>7 DEF RedBlackInvariant, RedBlack, Balanced

(* No height is negative: going left from a negative one would never end.  *)
LEMMA HeightsAreNumbers ==
    ASSUME NEW t, NEW L, Good(t, L), NEW h, Heights(t, L, h)
    PROVE  \A i \in L : h[i] >= 0
<1>. DEFINE N == {i \in L : h[i] < 0}
            T == {KeyOf(t, i) : i \in N}
<1>1. Links(t, L) /\ \A i \in L : KeyOf(t, i) \in Nat /\ h[i] \in Int
  BY LinkFacts DEF Good, Heights
<1>2. ASSUME NEW i \in N  PROVE \E d \in N : KeyOf(t, d) < KeyOf(t, i)
  <2>1. PICK d : d = Down(t, i, "left")
    OBVIOUS
  <2>2. d \in L \cup {Nil}
    BY <1>1, <2>1, LinkFacts DEF Sides
  <2>3. h[d] < 0
    <3>1. h[i] = h[d] + Black(t, i) /\ h[d] \in Int
      BY <2>1, <2>2 DEF Heights, Sides
    <3>2. Black(t, i) \in {0, 1}
      BY DEF Black
    <3>. QED  BY <1>1, <3>1, <3>2
  <2>4. d # Nil /\ d \in L
    BY <2>2, <2>3 DEF Heights
  <2>5. Up(t, d) = i /\ i # Nil
    BY <1>1, <2>1, <2>4, LinkFacts DEF Sides
  <2>6. PICK side \in Sides : /\ Down(t, i, Other(side)) # d
                              /\ \A k : Visits(t, k, d) => Toward(t, k, i) = side
    BY <2>4, <2>5, OnOneSide
  <2>7. side = "left"
    BY <2>1, <2>6 DEF Sides, Other
  <2>8. Toward(t, KeyOf(t, d), i) = "left"
    BY <2>4, <2>6, <2>7 DEF Good
  <2>. QED  BY <2>3, <2>4, <2>8 DEF Toward
<1>3. N = {}
  <2>. SUFFICES ASSUME N # {}  PROVE FALSE
    OBVIOUS
  <2>1. T \subseteq Nat /\ T # {}
    BY <1>1
  <2>2. PICK m \in T : \A n \in T : m <= n
    <3>. HIDE DEF T
    <3>. QED  BY <2>1, SearchLoop!LeastNumber
  <2>3. PICK i \in N : m = KeyOf(t, i)
    OBVIOUS
  <2>4. PICK d \in N : KeyOf(t, d) < KeyOf(t, i)
    BY <1>2
  <2>5. KeyOf(t, i) <= KeyOf(t, d)
    BY <2>2, <2>3
  <2>. QED  BY <1>1, <2>4, <2>5
<1>. QED  BY <1>1, <1>3

(* A red-black tree has no red half node: below a red node with a free     *)
(* link on one side there is no black node on the other.                   *)
LEMMA NoHalfNode ==
    ASSUME Whole(tree), RedBlack(tree)
    PROVE  ~ RedHalfNode
<1>. SUFFICES ASSUME RedHalfNode  PROVE FALSE
  OBVIOUS
<1>1. PICK L : L = Live
  OBVIOUS
<1>2. Good(tree, L) /\ Links(tree, L) /\ Balanced(tree, L, Nil)
  BY <1>1 DEF Whole, RedBlack, Good, Live
<1>3. PICK i \in L : /\ tree.node[i].color = "RED"
                     /\ Down(tree, i, "left") = Nil
                     /\ Down(tree, i, "right") # Nil
  BY <1>1 DEF RedHalfNode, Down
<1>4. PICK c \in L : c = Down(tree, i, "right")
  BY <1>2, <1>3, LinkFacts DEF Sides
<1>5. Up(tree, c) = i /\ i # Nil /\ c # Nil
  BY <1>2, <1>3, <1>4, LinkFacts DEF Sides
<1>6. c # tree.root
  BY <1>2, <1>5, LinkFacts
<1>7. tree.node[c].color = "BLACK"
  <2>1. Parted(tree, c)
    BY <1>2, <1>5, <1>6 DEF Balanced
  <2>2. tree.node[c].color \in {"BLACK", "RED"}
    <3>1. tree.node[c] \in Nodes
      BY <1>2, TypedFacts DEF Good, Links
    <3>. QED  BY <3>1 DEF Nodes
  <2>. QED  BY <1>3, <1>5, <2>1, <2>2 DEF Parted
<1>8. PICK h : Heights(tree, L, h)
  BY <1>2 DEF Balanced
<1>9. PICK d : d = Down(tree, c, "left")
  OBVIOUS
<1>10. h[d] >= 0 /\ h[d] \in Int
  <2>1. d \in L \cup {Nil}
    BY <1>2, <1>9, LinkFacts DEF Sides
  <2>2. /\ h[Nil] = 0 /\ h[d] \in Int
        /\ \A j \in L : h[j] >= 0
    BY <1>2, <1>8, <2>1, HeightsAreNumbers DEF Heights
  <2>. QED  BY <2>1, <2>2
<1>11. h[i] = h[Nil] + Black(tree, i) /\ h[i] = h[c] + Black(tree, i) /\ h[Nil] = 0 /\ h[c] \in Int
  BY <1>3, <1>4, <1>8 DEF Heights, Sides
<1>12. Black(tree, i) = 0 /\ Black(tree, c) = 1
  BY <1>3, <1>7 DEF Black
<1>13. h[c] = h[d] + Black(tree, c)
  BY <1>8, <1>9 DEF Heights, Sides
<1>. QED  BY <1>10, <1>11, <1>12, <1>13

(* An empty tree is red-black.                                             *)
LEMMA EmptyRedBlack == RedBlack(EmptyTree)
<1>1. EmptyTree.root = Nil /\ 0 .. EmptyTree.size - 1 = {}
  BY DEF EmptyTree
<1>2. PICK h : h = [i \in {Nil} |-> 0]
  OBVIOUS
<1>3. Heights(EmptyTree, {}, h)
  BY <1>2 DEF Heights
<1>. QED  BY <1>1, <1>3 DEF RedBlack, Balanced, BlackRoot

(* Storing a value does not change colours.                                *)
LEMMA ValueRedBlack ==
    ASSUME NEW t, Whole(t), RedBlack(t), NEW i \in Slots, NEW v
    PROVE  RedBlack([t EXCEPT !.node[i].Value = v])
<1>1. PICK u : u = [t EXCEPT !.node[i].Value = v]
  OBVIOUS
<1>2. PICK L : L = 0 .. t.size - 1
  OBVIOUS
<1>3. Good(t, L) /\ Balanced(t, L, Nil) /\ L \subseteq Slots
  BY <1>2 DEF Whole, RedBlack, Good, Links
<1>4. t.node \in [Slots -> Nodes] /\ Typed(t)
  BY <1>3 DEF Good, Typed
<1>5. u.root = t.root /\ u.size = t.size /\ u.node = [t.node EXCEPT ![i].Value = v]
  BY <1>1, <1>4 DEF Typed
<1>6. ASSUME NEW l \in L, NEW f \in Fields \ {"Value"}  PROVE u.node[l][f] = t.node[l][f]
  BY <1>3, <1>4, <1>5, <1>6 DEF Nodes, Fields
<1>7. Alike(t, u, L) /\ \A l \in L : u.node[l].color = t.node[l].color
  BY <1>3, <1>5, <1>6 DEF Alike, Steering, Fields
<1>8. Balanced(u, L, Nil)
  BY <1>3, <1>7, AlikeBalanced
<1>. QED  BY <1>1, <1>2, <1>5, <1>8 DEF RedBlack

(* Every call of insert keeps a red-black tree red-black.                  *)
LEMMA InsertRedBlack ==
    ASSUME Whole(tree), RedBlack(tree), NEW k \in Keys, NEW v \in InsertValues, Insert(k, v)
    PROVE  RedBlack(tree')
<1>1. Find(tree, k) \in Live \cup {Nil} /\ Live \subseteq Slots
  BY FoundKey, WholeTree
<1>2. \/ Find(tree, k) \in Live /\ tree' = [tree EXCEPT !.node[Find(tree, k)].Value = v]
      \/ Find(tree, k) = Nil /\ Append(tree, k, v)
  BY <1>1, SlotFacts DEF Insert
<1>3. ASSUME NEW i \in Live, tree' = [tree EXCEPT !.node[i].Value = v]  PROVE RedBlack(tree')
  BY <1>1, <1>3, ValueRedBlack
<1>4. CASE Find(tree, k) = Nil /\ Append(tree, k, v)
  <2>1. \A l \in 0 .. tree.size - 1 : KeyOf(tree, l) # k
    BY <1>4, FoundKey, WholeTree DEF Live
  <2>2. CASE tree.size < MaxSize /\ tree' = Inserted(tree, k, v)
    BY <2>1, <2>2, InsertedWhole
  <2>3. CASE tree' = tree
    BY <2>3
  <2>. QED  BY <1>4, <2>2, <2>3 DEF Append
<1>. QED  BY <1>2, <1>3, <1>4

(* So do the other calls.                                                  *)
LEMMA OtherRedBlack ==
    ASSUME Whole(tree), RedBlack(tree), (\E v \in InsertValues : SetLastValue(v)) \/ Reset
    PROVE  RedBlack(tree')
<1>1. ASSUME NEW v \in InsertValues, SetLastValue(v)  PROVE RedBlack(tree')
  <2>1. tree.size > 0 /\ tree' = [tree EXCEPT !.node[tree.size - 1].Value = v]
    BY <1>1 DEF SetLastValue
  <2>2. tree.size - 1 \in Slots
    <3>1. tree.size \in 0 .. MaxSize
      BY TypedFacts DEF Whole, Good
    <3>. QED  BY <2>1, <3>1, TreeAssumption DEF Slots
  <2>3. PICK i \in Slots : i = tree.size - 1
    BY <2>2
  <2>. QED  BY <2>1, <2>3, ValueRedBlack
<1>2. CASE Reset
  BY <1>2, EmptyRedBlack DEF Reset
<1>. QED  BY <1>1, <1>2

(* For trees of every size: an insertion into a sound red-black tree gives *)
(* a sound red-black tree.                                                 *)
THEOREM SoundInsertionsKeepRedBlack ==
    Spec => [][tree.size < tree'.size /\ Sound /\ RedBlackInvariant
                  => Sound' /\ RedBlackInvariant']_tree
<1>1. ASSUME Whole(tree), RedBlack(tree), tree.size < tree'.size, [Next]_tree
      PROVE  Whole(tree') /\ RedBlack(tree')
  <2>1. CASE Insertion
    BY <1>1, <2>1, InsertWhole, InsertRedBlack DEF Insertion
  <2>2. ASSUME Removal  PROVE FALSE
    <3>1. PICK k \in Keys : Array!DeleteNode(k)
      BY <1>1, <2>2, WholeTree, RemoveImplements DEF Removal
    <3>2. tree'.size \in {tree.size - 1, tree.size}
      BY <3>1 DEF Array!DeleteNode, Array!arrayVars
    <3>3. tree.size \in Nat
      BY <1>1, TypedFacts, MaxTurnsType DEF Whole, Good
    <3>. QED  BY <1>1, <3>2, <3>3
  <2>3. CASE (\E v \in InsertValues : SetLastValue(v)) \/ Reset
    BY <1>1, <2>3, OtherWhole, OtherRedBlack
  <2>4. CASE UNCHANGED tree
    BY <1>1, <2>4
  <2>. QED  BY <1>1, <2>1, <2>2, <2>3, <2>4 DEF Next
<1>2. Sound <=> Whole(tree)
  BY WholeTree
<1>3. Whole(tree) => (RedBlackInvariant <=> RedBlack(tree))
  BY RedBlackIs
<1>4. ((Whole(tree))' <=> Whole(tree')) /\ ((RedBlack(tree))' <=> RedBlack(tree'))
  BY DEF Whole, RedBlack
<1>5. /\ Sound' <=> (Whole(tree))'
      /\ (Whole(tree))' => (RedBlackInvariant' <=> (RedBlack(tree))')
  BY <1>2, <1>3, PTL
<1>6. [Next]_tree => [tree.size < tree'.size /\ Sound /\ RedBlackInvariant
                         => Sound' /\ RedBlackInvariant']_tree
  BY <1>1, <1>2, <1>3, <1>4, <1>5
<1>. QED  BY <1>6, PTL DEF Spec

(* As long as removals leave no red half node, every insertion into a      *)
(* red-black tree gives a red-black tree (CheckTree, Restructuring).       *)
THEOREM KeepsRedBlack == Spec /\ []~ RedHalfNode => InsertKeepsRedBlack
<1>. DEFINE Growing == tree.size < tree'.size /\ RedBlackInvariant => RedBlackInvariant'
<1>1. Sound /\ [tree.size < tree'.size /\ Sound /\ RedBlackInvariant
                   => Sound' /\ RedBlackInvariant']_tree => [Growing]_tree
  OBVIOUS
<1>2. InsertKeepsRedBlack <=> [][Growing]_tree
  BY DEF InsertKeepsRedBlack
<1>. HIDE DEF Growing
<1>. QED  BY <1>1, <1>2, SoundWithoutHalfNodes, SoundInsertionsKeepRedBlack, PTL

(* Without removals the tree is a red-black tree at all times: whatever    *)
(* keys are inserted, in any order.                                        *)
THEOREM InsertionsRedBlack == Insertions => []RedBlackInvariant
<1>1. Init => Whole(tree) /\ RedBlack(tree)
  BY EmptyWhole, EmptyRedBlack DEF Init
<1>2. ASSUME Whole(tree), RedBlack(tree), [\/ Insertion
                                           \/ \E v \in InsertValues : SetLastValue(v)
                                           \/ Reset]_tree
      PROVE  Whole(tree') /\ RedBlack(tree')
  <2>1. CASE Insertion
    BY <1>2, <2>1, InsertWhole, InsertRedBlack DEF Insertion
  <2>2. CASE (\E v \in InsertValues : SetLastValue(v)) \/ Reset
    BY <1>2, <2>2, OtherWhole, OtherRedBlack
  <2>3. CASE UNCHANGED tree
    BY <1>2, <2>3
  <2>. QED  BY <1>2, <2>1, <2>2, <2>3
<1>3. Whole(tree) => (RedBlackInvariant <=> RedBlack(tree))
  BY RedBlackIs
<1>4. ((Whole(tree))' <=> Whole(tree')) /\ ((RedBlack(tree))' <=> RedBlack(tree'))
  BY DEF Whole, RedBlack
<1>5. Whole(tree) /\ RedBlack(tree) /\ [\/ Insertion
                                        \/ \E v \in InsertValues : SetLastValue(v)
                                        \/ Reset]_tree
         => (Whole(tree))' /\ (RedBlack(tree))'
  BY <1>2, <1>4
<1>. QED  BY <1>1, <1>3, <1>5, PTL DEF Insertions

(* A removal from a red-black tree keeps links and searches sound, with no *)
(* condition on red half nodes: a red-black tree has none. What it leaves  *)
(* need not be red-black (the run RedBlackTreeLinks).                      *)
THEOREM RedBlackKeepsSound ==
    Spec => [][Sound /\ RedBlackInvariant => Sound']_tree
<1>1. Sound <=> Whole(tree)
  BY WholeTree
<1>2. Whole(tree) => (RedBlackInvariant <=> RedBlack(tree))
  BY RedBlackIs
<1>3. Whole(tree) /\ RedBlack(tree) => ~ RedHalfNode
  BY NoHalfNode
<1>4. UpdatesKeepTreeSound <=> [][tree' # tree /\ Sound /\ ~ RedHalfNode => Sound']_tree
  BY DEF UpdatesKeepTreeSound
<1>5. [tree' # tree /\ Sound /\ ~ RedHalfNode => Sound']_tree
         => [Sound /\ RedBlackInvariant => Sound']_tree
  BY <1>1, <1>2, <1>3
<1>. QED  BY <1>4, <1>5, KeepsTreeSound, PTL
=============================================================================
