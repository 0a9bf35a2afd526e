-------------------------------- MODULE Loop --------------------------------
(***************************************************************************)
(* A loop of the code: Run(c, s)[n] is the state after n turns of a loop    *)
(* that starts in state s and reads c, which it does not change.  One turn  *)
(* is Step(c, s); a loop that has ended stays in its state.  The searches,  *)
(* descents and repairs of RedBlackTree are written with it, so that what   *)
(* they do can be proved by induction on the number of turns.               *)
(***************************************************************************)
EXTENDS Integers, WellFoundedInduction, TLAPS

CONSTANTS Step(_, _), Ends(_, _)

(* The sets of one element below make TLC evaluate their element once.      *)
Once(c, s) == CHOOSE next \in {Step(c, x) : x \in {s}} : TRUE

Run(c, s) == LET turn[n \in Nat] == IF n = 0 THEN s ELSE Once(c, turn[n - 1])
             IN  turn

Ended(c, s, endless) == CHOOSE r \in {IF Ends(c, x) THEN x ELSE endless : x \in {s}} : TRUE

(* The state in which the loop ends, or `endless` if it has not ended after *)
(* `limit` turns.                                                           *)
Result(c, s, limit, endless) ==
    CHOOSE r \in {Ended(b, Run(b, s)[limit], endless) : b \in {c}} : TRUE
-----------------------------------------------------------------------------
(* Every set of numbers has a least element.                                *)
LEMMA LeastNumber ==
    ASSUME NEW T, T \subseteq Nat, T # {}
    PROVE  \E m \in T : \A n \in T : m <= n
<1>. DEFINE R == OpToRel(<, Nat)
<1>1. IsWellFoundedOn(R, Nat)
  BY NatLessThanWellFounded
<1>2. R = {ss \in Nat \X Nat : ss[1] < ss[2]}
  BY DEF OpToRel
<1>. HIDE DEF R
<1>3. PICK m \in T : \A y \in T : ~ (<<y, m>> \in R)
  BY <1>1, WFMin
<1>4. ASSUME NEW y \in T  PROVE m <= y
  <2>1. y \in Nat /\ m \in Nat
    OBVIOUS
  <2>2. ~ (<<y, m>> \in R)
    BY <1>3
  <2>. QED  BY <1>2, <2>1, <2>2
<1>. QED  BY <1>4

(* Induction: a set that holds 0 and the successor of each of its numbers   *)
(* holds every number.                                                      *)
LEMMA SetInduction ==
    ASSUME NEW S, 0 \in S, \A n \in Nat : n \in S => n + 1 \in S
    PROVE  Nat \subseteq S
<1>. SUFFICES ASSUME Nat \ S # {}  PROVE FALSE
  OBVIOUS
<1>1. PICK m \in Nat \ S : \A n \in Nat \ S : m <= n
  BY LeastNumber
<1>2. m # 0 /\ m - 1 \in Nat
  BY <1>1
<1>3. m - 1 \in S
  BY <1>1, <1>2
<1>. QED  BY <1>1, <1>2, <1>3

(* The recursive definition of Run has a solution, so Run satisfies it.     *)
LEMMA RunDef ==
    ASSUME NEW c, NEW s
    PROVE  Run(c, s) = [n \in Nat |-> IF n = 0 THEN s ELSE Step(c, Run(c, s)[n - 1])]
<1>. DEFINE Good(h, n) == h = [i \in 0 .. n |-> IF i = 0 THEN s ELSE Step(c, h[i - 1])]
            S == {n \in Nat : \E h : Good(h, n)}
<1>1. Nat \subseteq S
  <2>1. 0 \in S
    <3>1. Good([i \in 0 .. 0 |-> s], 0)
      OBVIOUS
    <3>. QED  BY <3>1
  <2>2. ASSUME NEW n \in Nat, n \in S  PROVE n + 1 \in S
    <3>1. PICK h : Good(h, n)
      BY <2>2
    <3>. DEFINE g == [i \in 0 .. n + 1 |-> IF i = n + 1 THEN Step(c, h[n]) ELSE h[i]]
    <3>2. ASSUME NEW i \in 0 .. n + 1  PROVE g[i] = IF i = 0 THEN s ELSE Step(c, g[i - 1])
      BY <3>1
    <3>3. Good(g, n + 1)
      BY <3>2
    <3>4. n + 1 \in Nat
      OBVIOUS
    <3>. HIDE DEF Good, g
    <3>. QED  BY <3>3, <3>4
  <2>. HIDE DEF S
  <2>. QED  BY <2>1, <2>2, SetInduction
<1>2. ASSUME NEW g, NEW h, NEW m \in Nat, NEW n \in Nat, Good(g, m), Good(h, n), m <= n
      PROVE  \A i \in 0 .. m : g[i] = h[i]
  <2>. DEFINE E == {i \in Nat : i <= m => g[i] = h[i]}
  <2>1. 0 \in E
    BY <1>2
  <2>2. ASSUME NEW i \in Nat, i \in E  PROVE i + 1 \in E
    <3>1. CASE i + 1 <= m
      <4>1. g[i + 1] = Step(c, g[i])
        BY <1>2, <3>1
      <4>2. h[i + 1] = Step(c, h[i])
        BY <1>2, <3>1
      <4>. QED  BY <2>2, <3>1, <4>1, <4>2
    <3>. QED  BY <3>1
  <2>3. Nat \subseteq E
    <3>. HIDE DEF E
    <3>. QED  BY <2>1, <2>2, SetInduction
  <2>. QED  BY <2>3
<1>. DEFINE H(n) == CHOOSE h : Good(h, n)
            f == [n \in Nat |-> H(n)[n]]
<1>3. \A n \in Nat : Good(H(n), n)
  BY <1>1
<1>. HIDE DEF H
<1>4. ASSUME NEW n \in Nat  PROVE f[n] = IF n = 0 THEN s ELSE Step(c, f[n - 1])
  <2>1. H(n)[n] = IF n = 0 THEN s ELSE Step(c, H(n)[n - 1])
    BY <1>3
  <2>2. CASE n # 0
    <3>1. n - 1 \in Nat /\ n - 1 <= n /\ n - 1 \in 0 .. n - 1
      BY <2>2
    <3>2. H(n - 1)[n - 1] = H(n)[n - 1]
      <4>. HIDE DEF Good
      <4>. QED  BY <1>2, <1>3, <3>1
    <3>. QED  BY <2>1, <2>2, <3>1, <3>2
  <2>. QED  BY <2>1, <2>2
<1>5. f = [n \in Nat |-> IF n = 0 THEN s ELSE Step(c, f[n - 1])]
  BY <1>4
<1>. HIDE DEF f
<1>6. \A x : Once(c, x) = Step(c, x)
  BY DEF Once
<1>. HIDE DEF Once
<1>7. \E g : g = [n \in Nat |-> IF n = 0 THEN s ELSE Once(c, g[n - 1])]
  BY <1>5, <1>6
<1>8. Run(c, s) = [n \in Nat |-> IF n = 0 THEN s ELSE Once(c, Run(c, s)[n - 1])]
  BY <1>7 DEF Run
<1>. QED  BY <1>6, <1>8

(* The state at the start, and after one more turn.                         *)
LEMMA RunSteps ==
    ASSUME NEW c, NEW s
    PROVE  /\ Run(c, s)[0] = s
           /\ \A n \in Nat : Run(c, s)[n + 1] = Step(c, Run(c, s)[n])
BY RunDef

(* A loop that no longer changes its state stays as it is.                  *)
LEMMA RunRests ==
    ASSUME NEW c, NEW s, NEW m \in Nat, Step(c, Run(c, s)[m]) = Run(c, s)[m]
    PROVE  \A n \in Nat : n >= m => Run(c, s)[n] = Run(c, s)[m]
<1>. DEFINE T == {n \in Nat : Run(c, s)[m + n] = Run(c, s)[m]}
<1>1. 0 \in T
  OBVIOUS
<1>2. ASSUME NEW n \in Nat, n \in T  PROVE n + 1 \in T
  <2>1. m + n \in Nat /\ m + (n + 1) = (m + n) + 1
    OBVIOUS
  <2>2. Run(c, s)[(m + n) + 1] = Step(c, Run(c, s)[m + n])
    BY <2>1, RunSteps
  <2>. QED  BY <1>2, <2>1, <2>2
<1>3. Nat \subseteq T
  <2>. HIDE DEF T
  <2>. QED  BY <1>1, <1>2, SetInduction
<1>4. ASSUME NEW n \in Nat, n >= m  PROVE Run(c, s)[n] = Run(c, s)[m]
  <2>1. n - m \in T /\ m + (n - m) = n
    BY <1>3, <1>4
  <2>. QED  BY <2>1
<1>. QED  BY <1>4

(* What a loop leaves is the state after its last turn, if it has ended.    *)
LEMMA ResultIs ==
    ASSUME NEW c, NEW s, NEW limit, NEW endless
    PROVE  Result(c, s, limit, endless) =
              IF Ends(c, Run(c, s)[limit]) THEN Run(c, s)[limit] ELSE endless
<1>1. \A b, x : Ended(b, x, endless) = IF Ends(b, x) THEN x ELSE endless
  BY DEF Ended
<1>. HIDE DEF Ended
<1>2. Result(c, s, limit, endless) = Ended(c, Run(c, s)[limit], endless)
  BY DEF Result
<1>. QED  BY <1>1, <1>2
=============================================================================
