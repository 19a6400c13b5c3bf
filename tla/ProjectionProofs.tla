-------------------------- MODULE ProjectionProofs --------------------------
(***************************************************************************)
(* What is shown.  The redactor leaves no exact value in its output        *)
(* however its input is cut into chunks, and the text that project_bytes   *)
(* returns is within its limits: for every alphabet, set of values, input, *)
(* limit and size of context.                                              *)
(***************************************************************************)
EXTENDS Projection, WellFoundedInduction, FiniteSetTheorems, TLAPS

-----------------------------------------------------------------------------
(* Induction over positions, from the least-number principle.              *)

(* Every nonempty set of naturals has a least element.                     *)
LEMMA LeastNumber == ASSUME NEW T \in SUBSET Nat, T # {} PROVE \E m \in T : \A n \in T : m <= n
<1> DEFINE R == {ss \in Nat \X Nat : ss[1] < ss[2]}
<1>1. IsWellFoundedOn(R, Nat)
  BY NatLessThanWellFounded, Zenon DEF OpToRel
<1>2. \A x, y \in Nat : <<y, x>> \in R <=> y < x
  OBVIOUS
<1> HIDE DEF R
<1>3. \E x \in T : \A y \in T : ~(<<y, x>> \in R)
  BY <1>1, WFMin
<1>4. PICK x \in T : \A y \in T : ~(y < x)
  BY <1>2, <1>3
<1> QED
  BY <1>4

(* Induction from the end of a sequence to its first place.                *)
LEMMA Downward ==
    ASSUME NEW n \in Nat, NEW T \in SUBSET (1..n + 1), n + 1 \in T,
           \A k \in 1..n : (\A j \in k + 1..n + 1 : j \in T) => k \in T
    PROVE  T = 1..n + 1
<1> SUFFICES ASSUME T # 1..n + 1 PROVE FALSE
  OBVIOUS
<1> DEFINE U == {d \in 0..n : n + 1 - d \notin T}
<1>1. PICK k \in 1..n + 1 : k \notin T
  OBVIOUS
<1>2. n + 1 - k \in 0..n /\ n + 1 - (n + 1 - k) = k
  BY <1>1
<1>3. U # {}
  BY <1>1, <1>2
<1>4. PICK m \in U : \A d \in U : m <= d
  <2>1. U \in SUBSET Nat
    OBVIOUS
  <2> HIDE DEF U
  <2> QED
    BY <1>3, <2>1, LeastNumber
<1>5. m # 0 /\ m \in 0..n
  BY <1>4
<1>6. n + 1 - m \in 1..n
  BY <1>5
<1>7. ASSUME NEW j \in (n + 1 - m) + 1..n + 1 PROVE j \in T
  <2>0. j \in Int /\ m \in Int /\ n + 1 - m + 1 <= j /\ j <= n + 1 /\ 0 < m /\ m <= n
    BY <1>5, <1>7
  <2>1. n + 1 - j \in 0..n /\ n + 1 - j < m /\ n + 1 - (n + 1 - j) = j
    BY <2>0
  <2>2. n + 1 - j \notin U
    <3> HIDE DEF U
    <3>1. ~(m <= n + 1 - j)
      BY <2>0, <2>1
    <3> QED
      BY <1>4, <3>1
  <2> QED
    BY <2>1, <2>2
<1>8. n + 1 - m \in T
  BY <1>6, <1>7
<1> QED
  BY <1>4, <1>8

-----------------------------------------------------------------------------
(* Where a value occurs, byte by byte.                                     *)
LEMMA OccursBytes ==
    ASSUME NEW S, NEW v \in Seq(S), NEW data \in Seq(S), NEW at \in Nat \ {0}
    PROVE  PjOccursAt(v, data, at) <=>
               /\ at + Len(v) - 1 <= Len(data)
               /\ \A i \in 1..Len(v) : data[at + i - 1] = v[i]
<1> SUFFICES ASSUME at + Len(v) - 1 <= Len(data)
             PROVE  SubSeq(data, at, at + Len(v) - 1) = v <=>
                        \A i \in 1..Len(v) : data[at + i - 1] = v[i]
  BY DEF PjOccursAt
<1> DEFINE sub == SubSeq(data, at, at + Len(v) - 1)
<1>1. Len(v) \in Nat /\ Len(data) \in Nat
  OBVIOUS
<1>2. /\ sub \in Seq(S) /\ Len(sub) = Len(v)
      /\ \A i \in 1..Len(v) : sub[i] = data[at + i - 1]
  BY <1>1
<1> HIDE DEF sub
<1>3. (\A i \in 1..Len(v) : sub[i] = v[i]) => sub = v
  BY <1>1, <1>2
<1> QED
  BY <1>2, <1>3 DEF sub

(* The longest value that starts here: the cursor passes one byte or more  *)
(* and stays within the data.                                              *)
LEMMA AdvanceBounds ==
    ASSUME NEW data \in Seq(PjBytes), NEW at \in 1..Len(data)
    PROVE  /\ PjAdvance(data, at) \in 1..Len(data) - at + 1
           /\ PjMatches(data, at) = {} => PjAdvance(data, at) = 1
<1> DEFINE M == PjMatches(data, at)
<1>1. CASE M = {}
  BY <1>1 DEF PjAdvance
<1>2. CASE M # {}
  <2>1. \A v \in M : v \in Seq(PjBytes) /\ Len(v) \in Nat \ {0} /\ at + Len(v) - 1 <= Len(data)
    <3>1. \A v \in M : v \in Seq(PjBytes) /\ v # <<>> /\ at + Len(v) - 1 <= Len(data)
      BY PjValues DEF PjMatches, PjOccursAt
    <3> QED
      BY <3>1
  <2> HIDE DEF M
  <2> DEFINE room == {d \in Nat : \A v \in M : Len(v) <= d}
  <2>2. PICK d \in room : \A e \in room : d <= e
    <3>1. Len(data) \in room
      BY <2>1
    <3>2. room \in SUBSET Nat /\ room # {}
      BY <3>1
    <3> HIDE DEF room
    <3> QED
      BY <3>2, LeastNumber
  <2>3. \E v \in M : Len(v) = d
    <3> SUFFICES ASSUME \A v \in M : Len(v) # d PROVE FALSE
      OBVIOUS
    <3>1. d \in Nat /\ \A v \in M : Len(v) <= d /\ Len(v) # d
      BY <2>2
    <3>2. \A v \in M : Len(v) \in Nat \ {0} /\ Len(v) <= d - 1
      BY <2>1, <3>1
    <3>3. d - 1 \in Nat /\ ~(d <= d - 1)
      BY <1>2, <3>1, <3>2
    <3>4. d - 1 \in room
      BY <3>2, <3>3
    <3> QED
      BY <2>2, <3>3, <3>4
  <2>4. PjLongest(M) \in M
    <3>1. \E v \in M : \A w \in M : Len(w) <= Len(v)
      BY <2>2, <2>3
    <3> QED
      BY <3>1 DEF PjLongest
  <2>5. PjAdvance(data, at) = Len(PjLongest(M))
    BY <1>2 DEF PjAdvance, M
  <2> QED
    BY <1>2, <2>1, <2>4, <2>5 DEF M
<1> QED
  BY <1>1, <1>2

-----------------------------------------------------------------------------
(* The loop is well defined: from every cursor it does one turn and goes   *)
(* on from the next, which lies further on.                                *)
LEMMA ScanTurns ==
    ASSUME NEW data \in Seq(PjBytes), NEW final \in BOOLEAN
    PROVE  PjScanFrom(data, final) =
             [at \in 1..Len(data) + 1 |->
                IF PjReady(data, at, final)
                THEN [out |-> <<PjShown(data, at)>>
                                 \o PjScanFrom(data, final)[at + PjAdvance(data, at)].out,
                      stop |-> PjScanFrom(data, final)[at + PjAdvance(data, at)].stop]
                ELSE [out |-> <<>>, stop |-> at]]
<1> DEFINE n == Len(data)
           Turn(f, at) == IF PjReady(data, at, final)
                          THEN [out |-> <<PjShown(data, at)>> \o f[at + PjAdvance(data, at)].out,
                                stop |-> f[at + PjAdvance(data, at)].stop]
                          ELSE [out |-> <<>>, stop |-> at]
           Known(k) == \E f : f = [at \in k..n + 1 |-> Turn(f, at)]
           T == {k \in 1..n + 1 : Known(k)}
<1>1. n \in Nat
  OBVIOUS
<1>2. ~PjReady(data, n + 1, final)
  BY <1>1 DEF PjReady
<1>3. \A at \in 1..n : at + PjAdvance(data, at) \in at + 1..n + 1
  BY <1>1, AdvanceBounds
<1>4. n + 1 \in T
  <2> DEFINE f == [at \in n + 1..n + 1 |-> [out |-> <<>>, stop |-> at]]
  <2>1. \A at \in n + 1..n + 1 : Turn(f, at) = [out |-> <<>>, stop |-> at]
    BY <1>1, <1>2
  <2> HIDE DEF Turn
  <2>2. f = [at \in n + 1..n + 1 |-> Turn(f, at)]
    BY <2>1
  <2> QED
    BY <1>1, <2>2
<1>5. ASSUME NEW k \in 1..n, \A j \in k + 1..n + 1 : j \in T PROVE k \in T
  <2>1. PICK f : f = [at \in k + 1..n + 1 |-> Turn(f, at)]
    <3>1. k + 1 \in k + 1..n + 1
      BY <1>1, <1>5
    <3>2. Known(k + 1)
      <4> HIDE DEF Known
      <4> QED
        BY <1>5, <3>1
    <3> HIDE DEF Turn
    <3> QED
      BY <3>2
  <2> DEFINE g == [at \in k..n + 1 |-> IF at = k THEN Turn(f, at) ELSE f[at]]
  <2>2. ASSUME NEW at \in k..n + 1 PROVE g[at] = Turn(g, at)
    <3>1. PjReady(data, at, final) => g[at + PjAdvance(data, at)] = f[at + PjAdvance(data, at)]
      <4> SUFFICES ASSUME PjReady(data, at, final)
                   PROVE  g[at + PjAdvance(data, at)] = f[at + PjAdvance(data, at)]
        OBVIOUS
      <4>1. at \in 1..n
        BY <1>1, <1>5, <2>2 DEF PjReady
      <4>2. at + PjAdvance(data, at) \in k..n + 1 /\ at + PjAdvance(data, at) # k
        BY <1>1, <1>3, <1>5, <2>2, <4>1
      <4> HIDE DEF Turn
      <4> QED
        BY <4>2
    <3>2. Turn(g, at) = Turn(f, at)
      <4> HIDE DEF g
      <4> QED
        BY <3>1
    <3>3. at # k => f[at] = Turn(f, at)
      <4>1. at # k => at \in k + 1..n + 1
        BY <1>1, <1>5, <2>2
      <4> HIDE DEF Turn
      <4> QED
        BY <2>1, <4>1
    <3> HIDE DEF Turn
    <3> QED
      BY <3>2, <3>3
  <2>3. g = [at \in k..n + 1 |-> Turn(g, at)]
    <3>1. g = [at \in k..n + 1 |-> g[at]]
      OBVIOUS
    <3> HIDE DEF g, Turn
    <3> QED
      BY <2>2, <3>1
  <2>4. Known(k)
    <3> HIDE DEF g, Turn
    <3> QED
      BY <2>3
  <2> HIDE DEF Known
  <2> QED
    BY <1>1, <2>4
<1>6. 1 \in T
  <2>1. T \in SUBSET (1..n + 1)
    OBVIOUS
  <2> HIDE DEF T
  <2>2. T = 1..n + 1
    BY <1>1, <1>4, <1>5, <2>1, Downward
  <2> QED
    BY <1>1, <2>2
<1>7. \E f : f = [at \in 1..n + 1 |-> Turn(f, at)]
  BY <1>6
<1>8. PjScanFrom(data, final) = CHOOSE f : f = [at \in 1..n + 1 |-> Turn(f, at)]
  BY DEF PjScanFrom
<1> HIDE DEF Turn
<1>9. PjScanFrom(data, final) = [at \in 1..n + 1 |-> Turn(PjScanFrom(data, final), at)]
  BY <1>7, <1>8
<1> QED
  BY <1>9 DEF Turn

RdShows == PjBytes \cup {"R"}

LEMMA Joined ==
    ASSUME NEW a \in Seq(PjBytes), NEW b \in Seq(PjBytes)
    PROVE  /\ a \o b \in Seq(PjBytes) /\ Len(a \o b) = Len(a) + Len(b)
           /\ \A i \in 1..Len(a) : (a \o b)[i] = a[i]
           /\ \A i \in 1..Len(b) : (a \o b)[Len(a) + i] = b[i]
OBVIOUS

LEMMA SameSeq ==
    ASSUME NEW S, NEW a \in Seq(S), NEW b \in Seq(S), Len(a) = Len(b),
           \A i \in 1..Len(a) : a[i] = b[i]
    PROVE  a = b
OBVIOUS

LEMMA JoinAgain ==
    ASSUME NEW a \in Seq(RdShows), NEW b \in Seq(RdShows), NEW c \in Seq(RdShows)
    PROVE  (a \o b) \o c = a \o (b \o c)
OBVIOUS

LEMMA JoinNothing == ASSUME NEW S, NEW a \in Seq(S) PROVE a \o <<>> = a /\ <<>> \o a = a
OBVIOUS

(* One turn of the loop, and the cursor it goes on from.                   *)
LEMMA ScanStep ==
    ASSUME NEW data \in Seq(PjBytes), NEW final \in BOOLEAN, NEW at \in 1..Len(data) + 1
    PROVE  LET S == PjScanFrom(data, final)
               next == at + PjAdvance(data, at)
           IN  /\ ~PjReady(data, at, final) => S[at] = [out |-> <<>>, stop |-> at]
               /\ PjReady(data, at, final) =>
                    /\ at \in 1..Len(data) /\ next \in at + 1..Len(data) + 1
                    /\ PjShown(data, at) \in RdShows
                    /\ S[at] = [out |-> <<PjShown(data, at)>> \o S[next].out, stop |-> S[next].stop]
<1> DEFINE S == PjScanFrom(data, final)
           next == at + PjAdvance(data, at)
<1>1. S = [k \in 1..Len(data) + 1 |->
             IF PjReady(data, k, final)
             THEN [out |-> <<PjShown(data, k)>> \o S[k + PjAdvance(data, k)].out,
                   stop |-> S[k + PjAdvance(data, k)].stop]
             ELSE [out |-> <<>>, stop |-> k]]
  BY ScanTurns
<1>2. ASSUME PjReady(data, at, final)
      PROVE  /\ at \in 1..Len(data) /\ next \in at + 1..Len(data) + 1
             /\ PjShown(data, at) \in RdShows
  <2>1. at \in 1..Len(data)
    BY <1>2 DEF PjReady
  <2>2. PjAdvance(data, at) \in 1..Len(data) - at + 1
    BY <2>1, AdvanceBounds
  <2>3. PjShown(data, at) \in RdShows
    BY <2>1 DEF PjShown, RdShows
  <2> QED
    BY <2>1, <2>2, <2>3
<1> HIDE DEF S
<1>3. /\ ~PjReady(data, at, final) => S[at] = [out |-> <<>>, stop |-> at]
      /\ PjReady(data, at, final) =>
           S[at] = [out |-> <<PjShown(data, at)>> \o S[next].out, stop |-> S[next].stop]
  BY <1>1, Zenon
<1> HIDE DEF next
<1> QED
  BY <1>2, <1>3 DEF S, next

LEMMA ScanTypes ==
    ASSUME NEW data \in Seq(PjBytes), NEW final \in BOOLEAN, NEW at \in 1..Len(data) + 1
    PROVE  /\ PjScanFrom(data, final)[at].out \in Seq(RdShows)
           /\ PjScanFrom(data, final)[at].stop \in at..Len(data) + 1
<1> DEFINE n == Len(data)
           S == PjScanFrom(data, final)
           Typed(k) == S[k].out \in Seq(RdShows) /\ S[k].stop \in k..n + 1
           T == {k \in 1..n + 1 : Typed(k)}
<1>1. n \in Nat
  OBVIOUS
<1>2. ASSUME NEW k \in 1..n + 1, ~PjReady(data, k, final) PROVE k \in T
  <2>1. S[k] = [out |-> <<>>, stop |-> k]
    BY <1>2, ScanStep
  <2> HIDE DEF S
  <2>2. S[k].out = <<>> /\ S[k].stop = k
    BY <2>1
  <2>3. <<>> \in Seq(RdShows) /\ k \in k..n + 1
    BY <1>1, <1>2
  <2> QED
    BY <2>2, <2>3
<1>3. n + 1 \in T
  <2>1. n + 1 \in 1..n + 1 /\ ~PjReady(data, n + 1, final)
    BY <1>1 DEF PjReady
  <2> QED
    BY <1>2, <2>1
<1>4. ASSUME NEW k \in 1..n, \A j \in k + 1..n + 1 : j \in T PROVE k \in T
  <2>1. CASE PjReady(data, k, final)
    <3> DEFINE next == k + PjAdvance(data, k)
    <3>1. /\ next \in k + 1..n + 1 /\ PjShown(data, k) \in RdShows
          /\ S[k] = [out |-> <<PjShown(data, k)>> \o S[next].out, stop |-> S[next].stop]
      <4>1. k \in 1..Len(data) + 1
        BY <1>1
      <4> QED
        BY <2>1, <4>1, ScanStep, Zenon
    <3> HIDE DEF S, next
    <3>2. Typed(next)
      BY <1>4, <3>1
    <3>3. <<PjShown(data, k)>> \o S[next].out \in Seq(RdShows) /\ S[next].stop \in k..n + 1
      BY <1>1, <3>1, <3>2
    <3>4. S[k].out = <<PjShown(data, k)>> \o S[next].out /\ S[k].stop = S[next].stop
      BY <3>1
    <3>5. Typed(k)
      BY <3>3, <3>4, Zenon
    <3> HIDE DEF Typed
    <3> QED
      BY <1>1, <3>5
  <2> QED
    BY <1>1, <1>2, <2>1
<1>5. T = 1..n + 1
  <2>1. T \in SUBSET (1..n + 1)
    OBVIOUS
  <2> HIDE DEF T
  <2> QED
    BY <1>1, <1>3, <1>4, <2>1, Downward
<1> QED
  BY <1>5

(* A value that starts at a place with a full hold of bytes after it does  *)
(* not depend on what follows those.                                       *)
LEMMA HoldCovers == PjHold \in Nat \ {0} /\ \A v \in PjSecrets : Len(v) <= PjHold
<1> DEFINE lens == {1} \cup {Len(v) : v \in PjSecrets}
<1>1. \A v \in PjSecrets : Len(v) \in Nat \ {0}
  <2>1. \A v \in PjSecrets : v \in Seq(PjBytes) /\ v # <<>>
    BY PjValues
  <2> QED
    BY <2>1
<1>2. \E x \in lens : \A y \in lens : x >= y
  BY <1>1, PjValues
<1>3. PjHold \in lens /\ \A y \in lens : PjHold >= y
  <2> HIDE DEF lens
  <2>1. PjHold = Max(lens)
    BY DEF PjHold, lens
  <2> QED
    BY <1>2, <2>1 DEF Max
<1> QED
  BY <1>1, <1>3

LEMMA MatchesAhead ==
    ASSUME NEW data \in Seq(PjBytes), NEW more \in Seq(PjBytes), NEW at \in 1..Len(data),
           Len(data) - at + 1 >= PjHold
    PROVE  /\ PjMatches(data \o more, at) = PjMatches(data, at)
           /\ PjAdvance(data \o more, at) = PjAdvance(data, at)
           /\ PjShown(data \o more, at) = PjShown(data, at)
<1> DEFINE all == data \o more
<1>1. all \in Seq(PjBytes) /\ Len(all) = Len(data) + Len(more)
      /\ \A i \in 1..Len(data) : all[i] = data[i]
  OBVIOUS
<1> HIDE DEF all
<1>2. ASSUME NEW v \in PjSecrets PROVE PjOccursAt(v, all, at) <=> PjOccursAt(v, data, at)
  <2>1. v \in Seq(PjBytes) /\ Len(v) \in Nat /\ at + Len(v) - 1 <= Len(data)
    <3>1. v \in Seq(PjBytes) /\ Len(v) <= PjHold /\ PjHold \in Nat
      BY PjValues, HoldCovers
    <3> QED
      BY <3>1
  <2>2. at + Len(v) - 1 <= Len(all) /\ \A i \in 1..Len(v) : all[at + i - 1] = data[at + i - 1]
    BY <1>1, <2>1, SMTT(30)
  <2>3. at \in Nat \ {0}
    OBVIOUS
  <2>4. PjOccursAt(v, data, at) <=> \A i \in 1..Len(v) : data[at + i - 1] = v[i]
    BY <2>1, <2>3, OccursBytes
  <2>5. PjOccursAt(v, all, at) <=> \A i \in 1..Len(v) : all[at + i - 1] = v[i]
    BY <1>1, <2>1, <2>2, <2>3, OccursBytes, SMTT(30)
  <2> QED
    BY <2>2, <2>4, <2>5
<1>3. PjMatches(all, at) = PjMatches(data, at)
  BY <1>2 DEF PjMatches
<1>4. all[at] = data[at]
  BY <1>1
<1> QED
  BY <1>3, <1>4 DEF PjAdvance, PjShown, all

(* feed without the end: its output and then that of the rest is the       *)
(* output of the whole, whatever follows.                                  *)
LEMMA ScanGoesOn ==
    ASSUME NEW data \in Seq(PjBytes), NEW more \in Seq(PjBytes), NEW at \in 1..Len(data) + 1
    PROVE  LET part == PjScanFrom(data, FALSE)
               whole == PjScanFrom(data \o more, TRUE)
           IN whole[at].out = part[at].out \o whole[part[at].stop].out
<1> DEFINE n == Len(data)
           all == data \o more
           part == PjScanFrom(data, FALSE)
           whole == PjScanFrom(all, TRUE)
           Goes(k) == whole[k].out = part[k].out \o whole[part[k].stop].out
           T == {k \in 1..n + 1 : Goes(k)}
<1>1. n \in Nat /\ all \in Seq(PjBytes) /\ Len(all) = n + Len(more) /\ Len(more) \in Nat
  OBVIOUS
<1> HIDE DEF all
<1>2. \A k \in 1..n + 1 : k \in 1..Len(all) + 1 /\ whole[k].out \in Seq(RdShows)
  <2>1. \A k \in 1..n + 1 : k \in 1..Len(all) + 1
    BY <1>1
  <2> QED
    BY <1>1, <2>1, ScanTypes
<1>3. \A k \in 1..n + 1 : part[k].out \in Seq(RdShows) /\ part[k].stop \in k..n + 1
  BY ScanTypes
<1>4. ASSUME NEW k \in 1..n + 1, ~PjReady(data, k, FALSE) PROVE k \in T
  <2>1. part[k] = [out |-> <<>>, stop |-> k]
    BY <1>4, ScanStep
  <2> HIDE DEF part, whole
  <2>2. part[k].out = <<>> /\ part[k].stop = k
    BY <2>1
  <2>3. <<>> \o whole[k].out = whole[k].out
    BY <1>2, JoinNothing
  <2> QED
    BY <2>2, <2>3
<1>5. n + 1 \in T
  <2>1. n + 1 \in 1..n + 1 /\ ~PjReady(data, n + 1, FALSE)
    BY <1>1 DEF PjReady
  <2> QED
    BY <1>4, <2>1
<1>6. ASSUME NEW k \in 1..n, \A j \in k + 1..n + 1 : j \in T, PjReady(data, k, FALSE) PROVE k \in T
  <2> DEFINE next == k + PjAdvance(data, k)
             shown == PjShown(data, k)
  <2>1. /\ k \in 1..Len(data) + 1 /\ k \in 1..Len(all) + 1 /\ PjReady(all, k, TRUE)
        /\ Len(data) - k + 1 >= PjHold /\ k \in 1..Len(data)
    BY <1>1, <1>6 DEF PjReady
  <2>2. PjAdvance(all, k) = PjAdvance(data, k) /\ PjShown(all, k) = shown
    BY <2>1, MatchesAhead DEF all
  <2>3. /\ next \in k + 1..n + 1 /\ shown \in RdShows
        /\ part[k] = [out |-> <<shown>> \o part[next].out, stop |-> part[next].stop]
    BY <1>6, <2>1, ScanStep, Zenon
  <2>4. whole[k] = [out |-> <<shown>> \o whole[next].out, stop |-> whole[next].stop]
    <3>1. whole[k] = [out |-> <<PjShown(all, k)>> \o whole[k + PjAdvance(all, k)].out,
                      stop |-> whole[k + PjAdvance(all, k)].stop]
      BY <1>1, <2>1, ScanStep, Zenon
    <3> HIDE DEF whole
    <3> QED
      BY <2>2, <3>1, Zenon
  <2> HIDE DEF part, whole, next, shown
  <2>5. next \in 1..n + 1 /\ Goes(next)
    BY <1>1, <1>6, <2>3
  <2>6. part[next].stop \in 1..n + 1
    BY <1>1, <1>3, <2>5
  <2>7. /\ part[next].out \in Seq(RdShows) /\ whole[part[next].stop].out \in Seq(RdShows)
        /\ <<shown>> \in Seq(RdShows)
    BY <1>2, <1>3, <2>3, <2>5, <2>6, SMTT(30)
  <2>8. (<<shown>> \o part[next].out) \o whole[part[next].stop].out
          = <<shown>> \o (part[next].out \o whole[part[next].stop].out)
    <3> DEFINE x == <<shown>>
               y == part[next].out
               z == whole[part[next].stop].out
    <3>1. x \in Seq(RdShows) /\ y \in Seq(RdShows) /\ z \in Seq(RdShows)
      BY <2>7
    <3> HIDE DEF x, y, z
    <3>3. (x \o y) \o z = x \o (y \o z)
      BY <3>1, JoinAgain
    <3> QED
      BY <3>3 DEF x, y, z
  <2>9. part[k].out = <<shown>> \o part[next].out /\ part[k].stop = part[next].stop
    <3>1. part[k] = [out |-> <<shown>> \o part[next].out, stop |-> part[next].stop]
      BY <2>3, Zenon
    <3> DEFINE o == <<shown>> \o part[next].out
               s == part[next].stop
    <3>2. part[k] = [out |-> o, stop |-> s]
      BY <3>1, Zenon
    <3> HIDE DEF o, s
    <3>3. part[k].out = o /\ part[k].stop = s
      BY <3>2
    <3> QED
      BY <3>3, Zenon DEF o, s
  <2>11. whole[k].out = <<shown>> \o whole[next].out
    BY <2>4
  <2>10. Goes(k)
    BY <2>5, <2>8, <2>9, <2>11, Zenon
  <2> HIDE DEF Goes
  <2> QED
    BY <1>1, <2>10
<1>7. T = 1..n + 1
  <2>1. T \in SUBSET (1..n + 1)
    OBVIOUS
  <2>2. \A k \in 1..n : (\A j \in k + 1..n + 1 : j \in T) => k \in T
    <3> SUFFICES ASSUME NEW k \in 1..n, \A j \in k + 1..n + 1 : j \in T PROVE k \in T
      OBVIOUS
    <3> HIDE DEF T
    <3>1. k \in 1..n + 1
      BY <1>1
    <3>2. CASE PjReady(data, k, FALSE)
      BY <1>6, <3>2
    <3>3. CASE ~PjReady(data, k, FALSE)
      BY <1>4, <3>1, <3>3
    <3> QED
      BY <3>2, <3>3
  <2> HIDE DEF T
  <2> QED
    BY <1>1, <1>5, <2>1, <2>2, Downward
<1> QED
  BY <1>7 DEF all

(* The loop over what is left of the data is the loop over the data from   *)
(* there on.                                                               *)
LEMMA ScanOfRest ==
    ASSUME NEW data \in Seq(PjBytes), NEW from \in 1..Len(data) + 1
    PROVE  PjScan(SubSeq(data, from, Len(data)), TRUE).out = PjScanFrom(data, TRUE)[from].out
<1> DEFINE rest == SubSeq(data, from, Len(data))
           n == Len(data) - from + 1
           whole == PjScanFrom(data, TRUE)
           part == PjScanFrom(rest, TRUE)
           Same(k) == part[k].out = whole[from + k - 1].out
           T == {k \in 1..n + 1 : Same(k)}
<1>1. /\ n \in Nat /\ rest \in Seq(PjBytes) /\ Len(rest) = n /\ Len(data) \in Nat
      /\ Len(data) = from + n - 1 /\ from \in Nat \ {0}
      /\ \A i \in 1..n : rest[i] = data[from + i - 1]
  OBVIOUS
<1> HIDE DEF rest, n
<1>2. n + 1 \in T
  <2>1. /\ n + 1 \in 1..Len(rest) + 1 /\ ~PjReady(rest, n + 1, TRUE)
        /\ from + (n + 1) - 1 \in 1..Len(data) + 1 /\ ~PjReady(data, from + (n + 1) - 1, TRUE)
    BY <1>1 DEF PjReady
  <2>2. part[n + 1] = [out |-> <<>>, stop |-> n + 1]
    <3>1. rest \in Seq(PjBytes) /\ TRUE \in BOOLEAN
      BY <1>1
    <3> QED
      BY <2>1, <3>1, ScanStep
  <2>3. whole[from + (n + 1) - 1] = [out |-> <<>>, stop |-> from + (n + 1) - 1]
    BY <2>1, ScanStep, Zenon
  <2> HIDE DEF part, whole
  <2>4. part[n + 1].out = <<>>
    BY <2>2
  <2>5. whole[from + (n + 1) - 1].out = <<>>
    BY <2>3
  <2>6. n + 1 \in 1..n + 1
    BY <1>1
  <2> QED
    BY <2>4, <2>5, <2>6
<1>3. ASSUME NEW k \in 1..n, \A j \in k + 1..n + 1 : j \in T PROVE k \in T
  <2> DEFINE here == from + k - 1
             next == k + PjAdvance(rest, k)
  <2>1. /\ k \in 1..Len(rest) + 1 /\ PjReady(rest, k, TRUE) /\ k \in Nat \ {0}
        /\ here \in 1..Len(data) + 1 /\ PjReady(data, here, TRUE) /\ here \in Nat \ {0}
        /\ rest[k] = data[here]
    BY <1>1 DEF PjReady
  <2>2. PjMatches(rest, k) = PjMatches(data, here)
    <3>1. ASSUME NEW v \in PjSecrets PROVE PjOccursAt(v, rest, k) <=> PjOccursAt(v, data, here)
      <4>1. v \in Seq(PjBytes) /\ Len(v) \in Nat
        BY PjValues
      <4>2. PjOccursAt(v, rest, k) <=>
              k + Len(v) - 1 <= n /\ \A i \in 1..Len(v) : rest[k + i - 1] = v[i]
        <5>1. PjOccursAt(v, rest, k) <=>
                k + Len(v) - 1 <= Len(rest) /\ \A i \in 1..Len(v) : rest[k + i - 1] = v[i]
          <6>1. v \in Seq(PjBytes) /\ rest \in Seq(PjBytes) /\ k \in Nat \ {0}
            BY <1>1, <2>1, <4>1
          <6> QED
            BY <6>1, OccursBytes
        <5> QED
          BY <1>1, <5>1
      <4>3. PjOccursAt(v, data, here) <=>
              here + Len(v) - 1 <= Len(data) /\ \A i \in 1..Len(v) : data[here + i - 1] = v[i]
        BY <2>1, <4>1, OccursBytes
      <4>4. here + Len(v) - 1 <= Len(data) <=> k + Len(v) - 1 <= n
        BY <1>1, <4>1
      <4>5. k + Len(v) - 1 <= n => \A i \in 1..Len(v) : rest[k + i - 1] = data[here + i - 1]
        <5> SUFFICES ASSUME k + Len(v) - 1 <= n, NEW i \in 1..Len(v)
                     PROVE  rest[k + i - 1] = data[here + i - 1]
          OBVIOUS
        <5>1. k + i - 1 \in 1..n /\ from + (k + i - 1) - 1 = here + i - 1
          BY <1>1, <4>1
        <5> QED
          BY <1>1, <5>1
      <4> QED
        BY <4>2, <4>3, <4>4, <4>5
    <3> QED
      BY <3>1 DEF PjMatches
  <2>3. PjAdvance(rest, k) = PjAdvance(data, here) /\ PjShown(rest, k) = PjShown(data, here)
    BY <2>1, <2>2 DEF PjAdvance, PjShown
  <2>4. /\ next \in k + 1..n + 1
        /\ part[k] = [out |-> <<PjShown(rest, k)>> \o part[next].out, stop |-> part[next].stop]
    BY <1>1, <2>1, ScanStep, Zenon
  <2>5. whole[here] = [out |-> <<PjShown(rest, k)>> \o whole[here + PjAdvance(rest, k)].out,
                       stop |-> whole[here + PjAdvance(rest, k)].stop]
    <3>1. whole[here] = [out |-> <<PjShown(data, here)>> \o whole[here + PjAdvance(data, here)].out,
                         stop |-> whole[here + PjAdvance(data, here)].stop]
      BY <2>1, ScanStep, Zenon
    <3> HIDE DEF whole
    <3> QED
      BY <2>3, <3>1, Zenon
  <2>6. PjAdvance(rest, k) \in Nat
    <3>1. rest \in Seq(PjBytes) /\ k \in 1..Len(rest) /\ Len(rest) \in Nat
      BY <1>1
    <3>2. PjAdvance(rest, k) \in 1..Len(rest) - k + 1
      BY <3>1, AdvanceBounds, Zenon
    <3> QED
      BY <3>1, <3>2
  <2>7. here + PjAdvance(rest, k) = from + next - 1
    BY <1>1, <2>1, <2>6
  <2> HIDE DEF part, whole, next, here
  <2>8. Same(next)
    BY <1>3, <2>4
  <2>9. part[k].out = <<PjShown(rest, k)>> \o part[next].out
    BY <2>4, SMTT(30)
  <2>10. whole[here].out = <<PjShown(rest, k)>> \o whole[from + next - 1].out
    BY <2>5, <2>7
  <2>11. Same(k)
    BY <2>8, <2>9, <2>10, Zenon DEF here
  <2> HIDE DEF Same
  <2> QED
    BY <1>1, <2>11
<1>4. T = 1..n + 1
  <2>1. T \in SUBSET (1..n + 1)
    OBVIOUS
  <2> HIDE DEF T
  <2> QED
    BY <1>1, <1>2, <1>3, <2>1, Downward
<1>5. Same(1)
  <2>1. 1 \in 1..n + 1
    BY <1>1
  <2> HIDE DEF Same
  <2> QED
    BY <1>4, <2>1
<1>6. from + 1 - 1 = from
  BY <1>1
<1> QED
  BY <1>5, <1>6 DEF PjScan, rest

-----------------------------------------------------------------------------
(* Up to the first replacement the output is the data.                     *)
LEMMA ShownIsData ==
    ASSUME NEW data \in Seq(PjBytes), NEW at \in 1..Len(data) + 1
    PROVE  LET o == PjScanFrom(data, TRUE)[at].out
           IN \A m \in 0..Len(o) :
                 (\A i \in 1..m : o[i] # "R") =>
                     at + m - 1 <= Len(data) /\ \A i \in 1..m : o[i] = data[at + i - 1]
<1> DEFINE n == Len(data)
           S == PjScanFrom(data, TRUE)
           out(k) == S[k].out
           Plain(k) == \A m \in 0..Len(out(k)) :
                          (\A i \in 1..m : out(k)[i] # "R") =>
                              k + m - 1 <= n /\ \A i \in 1..m : out(k)[i] = data[k + i - 1]
           T == {k \in 1..n + 1 : Plain(k)}
<1>1. n \in Nat
  OBVIOUS
<1>2. n + 1 \in T
  <2>1. n + 1 \in 1..Len(data) + 1 /\ ~PjReady(data, n + 1, TRUE)
    BY <1>1 DEF PjReady
  <2>2. S[n + 1] = [out |-> <<>>, stop |-> n + 1]
    BY <2>1, ScanStep
  <2> HIDE DEF S
  <2>3. out(n + 1) = <<>>
    BY <2>2
  <2> HIDE DEF out
  <2>4. Len(out(n + 1)) = 0
    BY <2>3
  <2>5. Plain(n + 1)
    BY <1>1, <2>4
  <2> HIDE DEF Plain
  <2> QED
    BY <1>1, <2>5
<1>3. ASSUME NEW k \in 1..n, \A j \in k + 1..n + 1 : j \in T PROVE k \in T
  <2> DEFINE next == k + PjAdvance(data, k)
             shown == PjShown(data, k)
  <2>1. k \in 1..Len(data) + 1 /\ PjReady(data, k, TRUE) /\ k \in 1..Len(data)
    BY <1>1 DEF PjReady
  <2>2. /\ next \in k + 1..n + 1 /\ shown \in RdShows
        /\ S[k] = [out |-> <<shown>> \o S[next].out, stop |-> S[next].stop]
    BY <2>1, ScanStep, Zenon
  <2> HIDE DEF S
  <2>3. out(k) = <<shown>> \o out(next)
    BY <2>2, SMTT(30)
  <2>4. out(next) \in Seq(RdShows)
    <3>1. next \in 1..Len(data) + 1
      BY <1>1, <2>2
    <3> HIDE DEF next
    <3> QED
      BY <3>1, ScanTypes DEF S
  <2>5. shown # "R" => next = k + 1 /\ shown = data[k]
    BY <2>1, AdvanceBounds DEF PjShown
  <2> HIDE DEF out, next, shown
  <2>6. /\ Len(out(k)) = Len(out(next)) + 1 /\ out(k)[1] = shown /\ Len(out(next)) \in Nat
        /\ \A i \in 1..Len(out(next)) : out(k)[i + 1] = out(next)[i]
    BY <2>2, <2>3, <2>4
  <2>7. Plain(next)
    BY <1>3, <2>2
  <2>8. ASSUME NEW m \in 0..Len(out(k)), \A i \in 1..m : out(k)[i] # "R"
        PROVE  k + m - 1 <= n /\ \A i \in 1..m : out(k)[i] = data[k + i - 1]
    <3>1. CASE m = 0
      BY <1>1, <3>1
    <3>2. CASE m # 0
      <4>1. m \in 1..Len(out(next)) + 1 /\ 1 \in 1..m /\ m - 1 \in 0..Len(out(next))
        BY <2>6, <3>2
      <4>2. next = k + 1 /\ shown = data[k]
        BY <2>5, <2>6, <2>8, <4>1
      <4>3. ASSUME NEW i \in 1..m - 1 PROVE out(next)[i] = out(k)[i + 1] /\ out(next)[i] # "R"
        <5>1. i \in 1..Len(out(next)) /\ i + 1 \in 1..m
          BY <2>6, <4>1
        <5> QED
          BY <2>6, <2>8, <5>1
      <4>4. next + (m - 1) - 1 <= n /\ \A i \in 1..m - 1 : out(next)[i] = data[next + i - 1]
        BY <2>7, <4>1, <4>3
      <4>5. ASSUME NEW i \in 1..m PROVE out(k)[i] = data[k + i - 1]
        <5>1. CASE i = 1
          BY <1>1, <2>6, <4>2, <5>1
        <5>2. CASE i # 1
          <6>1. k \in Nat /\ m \in Nat /\ i \in Nat /\ 1 <= i /\ i <= m /\ next = k + 1
            BY <1>1, <2>6, <4>1, <4>2
          <6>2. i - 1 \in 1..m - 1 /\ (i - 1) + 1 = i /\ next + (i - 1) - 1 = k + i - 1
            BY <5>2, <6>1
          <6> QED
            BY <4>3, <4>4, <6>2
        <5> QED
          BY <5>1, <5>2
      <4>6. k + m - 1 <= n
        BY <1>1, <2>6, <4>1, <4>2, <4>4
      <4> QED
        BY <4>5, <4>6
    <3> QED
      BY <3>1, <3>2
  <2>9. Plain(k)
    BY <2>8
  <2> HIDE DEF Plain
  <2> QED
    BY <1>1, <2>9
<1>4. T = 1..n + 1
  <2>1. T \in SUBSET (1..n + 1)
    OBVIOUS
  <2> HIDE DEF T
  <2> QED
    BY <1>1, <1>2, <1>3, <2>1, Downward
<1>5. Plain(at)
  <2> HIDE DEF Plain
  <2> QED
    BY <1>4
<1> QED
  BY <1>5

(* No exact value is left in the output.                                   *)
LEMMA ScanIsClean ==
    ASSUME NEW data \in Seq(PjBytes), NEW at \in 1..Len(data) + 1
    PROVE  LET o == PjScanFrom(data, TRUE)[at].out
           IN \A p \in 1..Len(o) : \A v \in PjSecrets : ~PjOccursAt(v, o, p)
<1> DEFINE n == Len(data)
           S == PjScanFrom(data, TRUE)
           out(k) == S[k].out
           Clean(k) == \A p \in 1..Len(out(k)) : \A v \in PjSecrets : ~PjOccursAt(v, out(k), p)
           T == {k \in 1..n + 1 : Clean(k)}
<1>1. n \in Nat
  OBVIOUS
<1>2. n + 1 \in T
  <2>1. n + 1 \in 1..Len(data) + 1 /\ ~PjReady(data, n + 1, TRUE)
    BY <1>1 DEF PjReady
  <2>2. S[n + 1] = [out |-> <<>>, stop |-> n + 1]
    BY <2>1, ScanStep
  <2> HIDE DEF S
  <2>3. out(n + 1) = <<>>
    BY <2>2
  <2> HIDE DEF out
  <2>4. 1..Len(out(n + 1)) = {}
    BY <2>3
  <2>5. Clean(n + 1)
    BY <2>4
  <2> HIDE DEF Clean
  <2> QED
    BY <1>1, <2>5
<1>3. ASSUME NEW k \in 1..n, \A j \in k + 1..n + 1 : j \in T PROVE k \in T
  <2> DEFINE next == k + PjAdvance(data, k)
             shown == PjShown(data, k)
  <2>1. k \in 1..Len(data) + 1 /\ PjReady(data, k, TRUE) /\ k \in 1..Len(data) /\ k \in Nat \ {0}
    BY <1>1 DEF PjReady
  <2>2. /\ next \in k + 1..n + 1 /\ shown \in RdShows
        /\ S[k] = [out |-> <<shown>> \o S[next].out, stop |-> S[next].stop]
    BY <2>1, ScanStep, Zenon
  <2> HIDE DEF S
  <2>3. out(k) = <<shown>> \o out(next)
    BY <2>2, SMTT(30)
  <2>4. out(next) \in Seq(RdShows)
    <3>1. next \in 1..Len(data) + 1
      BY <1>1, <2>2
    <3> HIDE DEF next
    <3> QED
      BY <3>1, ScanTypes DEF S
  <2>5. PjMatches(data, k) # {} => shown = "R"
    BY DEF PjShown
  <2>6. \A m \in 0..Len(out(k)) :
           (\A i \in 1..m : out(k)[i] # "R") =>
               k + m - 1 <= n /\ \A i \in 1..m : out(k)[i] = data[k + i - 1]
    BY <2>1, ShownIsData DEF S
  <2> HIDE DEF out, next, shown
  <2>7. /\ Len(out(k)) = Len(out(next)) + 1 /\ out(k)[1] = shown /\ Len(out(next)) \in Nat
        /\ \A i \in 1..Len(out(next)) : out(k)[i + 1] = out(next)[i]
        /\ out(k) \in Seq(RdShows)
    BY <2>2, <2>3, <2>4
  <2>8. Clean(next)
    BY <1>3, <2>2
  <2>9. ASSUME NEW p \in 1..Len(out(k)), NEW v \in PjSecrets, PjOccursAt(v, out(k), p) PROVE FALSE
    <3>1. /\ v \in Seq(PjBytes) /\ v \in Seq(RdShows) /\ Len(v) \in Nat \ {0}
          /\ \A i \in 1..Len(v) : v[i] \in PjBytes /\ v[i] # "R"
      <4>1. v \in Seq(PjBytes) /\ v # <<>> /\ "R" \notin PjBytes
        BY PjValues
      <4>2. PjBytes \subseteq RdShows
        BY DEF RdShows
      <4> QED
        BY <4>1, <4>2
    <3>2. p + Len(v) - 1 <= Len(out(k)) /\ \A i \in 1..Len(v) : out(k)[p + i - 1] = v[i]
      <4>1. p \in Nat \ {0}
        BY <2>7
      <4> QED
        BY <2>7, <2>9, <3>1, <4>1, OccursBytes
    <3>3. CASE p = 1
      <4>1. Len(v) \in 0..Len(out(k)) /\ 1 \in 1..Len(v)
        BY <2>7, <3>1, <3>2, <3>3
      <4>2. \A i \in 1..Len(v) : out(k)[i] = v[i]
        BY <3>1, <3>2, <3>3
      <4>3. k + Len(v) - 1 <= n /\ \A i \in 1..Len(v) : data[k + i - 1] = v[i]
        BY <2>6, <3>1, <4>1, <4>2
      <4>4. PjOccursAt(v, data, k)
        BY <2>1, <3>1, <4>3, OccursBytes
      <4>5. shown = "R"
        BY <2>5, <4>4 DEF PjMatches
      <4> QED
        BY <2>7, <3>1, <4>1, <4>2, <4>5
    <3>4. CASE p # 1
      <4>1. /\ p - 1 \in 1..Len(out(next)) /\ p - 1 \in Nat \ {0}
            /\ (p - 1) + Len(v) - 1 <= Len(out(next))
        BY <2>7, <3>1, <3>2, <3>4
      <4>2. ASSUME NEW i \in 1..Len(v) PROVE out(next)[(p - 1) + i - 1] = v[i]
        <5>1. /\ (p - 1) + i - 1 \in 1..Len(out(next))
              /\ ((p - 1) + i - 1) + 1 = p + i - 1
          BY <2>7, <3>1, <4>1
        <5> QED
          BY <2>7, <3>2, <5>1
      <4>3. PjOccursAt(v, out(next), p - 1)
        BY <2>4, <3>1, <4>1, <4>2, OccursBytes
      <4> QED
        BY <2>8, <4>1, <4>3
    <3> QED
      BY <3>3, <3>4
  <2>10. Clean(k)
    BY <2>9
  <2> HIDE DEF Clean
  <2> QED
    BY <1>1, <2>10
<1>4. T = 1..n + 1
  <2>1. T \in SUBSET (1..n + 1)
    OBVIOUS
  <2> HIDE DEF T
  <2> QED
    BY <1>1, <1>2, <1>3, <2>1, Downward
<1>5. Clean(at)
  <2> HIDE DEF Clean
  <2> QED
    BY <1>4
<1> QED
  BY <1>5

-----------------------------------------------------------------------------
(* Whatever is still to come, the output so far followed by that of the    *)
(* pending bytes and the rest is the output of everything in one piece.    *)
RdAhead == pjStage = "redact" =>
    \A more \in Seq(PjBytes) :
        PjScan(pjFed \o more, TRUE).out = pjOut \o PjScan(pjPending \o more, TRUE).out

RdDone == pjStage = "redacted" => pjOut = PjScan(pjFed, TRUE).out

RdInv == RdTypeOK /\ RdAhead /\ RdDone /\ (pjStage = "decoded" => pjOut = <<>>)

LEMMA ScanOut ==
    ASSUME NEW data \in Seq(PjBytes), NEW final \in BOOLEAN
    PROVE  /\ PjScan(data, final).out \in Seq(RdShows)
           /\ PjScan(data, final).stop \in 1..Len(data) + 1
<1>1. 1 \in 1..Len(data) + 1
  OBVIOUS
<1> QED
  BY <1>1, ScanTypes DEF PjScan

LEMMA BytesJoin ==
    ASSUME NEW a \in Seq(PjBytes), NEW b \in Seq(PjBytes), NEW c \in Seq(PjBytes)
    PROVE  (a \o b) \o c = a \o (b \o c)
OBVIOUS

LEMMA RestOfJoin ==
    ASSUME NEW a \in Seq(PjBytes), NEW b \in Seq(PjBytes), NEW from \in 1..Len(a) + 1
    PROVE  SubSeq(a \o b, from, Len(a \o b)) = SubSeq(a, from, Len(a)) \o b
<1> DEFINE x == SubSeq(a \o b, from, Len(a \o b))
           r == SubSeq(a, from, Len(a))
           n == Len(a) - from + 1
<1>1. /\ a \o b \in Seq(PjBytes) /\ Len(a \o b) = Len(a) + Len(b) /\ Len(b) \in Nat /\ n \in Nat
      /\ \A i \in 1..Len(a) : (a \o b)[i] = a[i]
      /\ \A i \in 1..Len(b) : (a \o b)[Len(a) + i] = b[i]
  BY Joined
<1>2. r \in Seq(PjBytes) /\ Len(r) = n /\ \A i \in 1..n : r[i] = a[from + i - 1]
  OBVIOUS
<1>3. /\ x \in Seq(PjBytes) /\ Len(x) = n + Len(b)
      /\ \A i \in 1..n + Len(b) : x[i] = (a \o b)[from + i - 1]
  <2> DEFINE c == a \o b
  <2>1. c \in Seq(PjBytes) /\ Len(c) = Len(a) + Len(b)
    BY <1>1
  <2> HIDE DEF c
  <2>2. /\ SubSeq(c, from, Len(c)) \in Seq(PjBytes) /\ Len(SubSeq(c, from, Len(c))) = n + Len(b)
        /\ \A i \in 1..n + Len(b) : SubSeq(c, from, Len(c))[i] = c[from + i - 1]
    BY <1>1, <2>1
  <2> QED
    BY <2>2 DEF c
<1>4. /\ r \o b \in Seq(PjBytes) /\ Len(r \o b) = n + Len(b)
      /\ \A i \in 1..n : (r \o b)[i] = r[i]
      /\ \A i \in 1..Len(b) : (r \o b)[n + i] = b[i]
  <2> HIDE DEF r, n
  <2>1. r \in Seq(PjBytes) /\ Len(r) = n
    BY <1>2
  <2>2. /\ r \o b \in Seq(PjBytes) /\ Len(r \o b) = Len(r) + Len(b)
        /\ \A i \in 1..Len(r) : (r \o b)[i] = r[i]
        /\ \A i \in 1..Len(b) : (r \o b)[Len(r) + i] = b[i]
    BY <2>1, Joined, Zenon
  <2> QED
    BY <2>1, <2>2, Zenon
<1> HIDE DEF x, r
<1>5. ASSUME NEW i \in 1..n + Len(b) PROVE x[i] = (r \o b)[i]
  <2>1. CASE i \in 1..n
    <3>1. from + i - 1 \in 1..Len(a)
      BY <2>1
    <3> QED
      BY <1>1, <1>2, <1>3, <1>4, <2>1, <3>1
  <2>2. CASE i \notin 1..n
    <3>1. i - n \in 1..Len(b) /\ n + (i - n) = i /\ Len(a) + (i - n) = from + i - 1
      BY <1>1, <2>2
    <3>2. (a \o b)[from + i - 1] = b[i - n] /\ (r \o b)[i] = b[i - n]
      BY <1>1, <1>4, <3>1, Zenon
    <3> QED
      BY <1>3, <3>2
  <2> QED
    BY <2>1, <2>2
<1> HIDE DEF n
<1> QED
  BY <1>3, <1>4, <1>5, SameSeq DEF x, r

(* feed keeps the promise about what is ahead.                             *)
LEMMA RdFeedInv ==
    ASSUME RdInv, NEW chunk \in Seq(PjBytes), PjFeed(chunk) PROVE RdInv'
<1> DEFINE data == pjPending \o chunk
           read == PjScan(data, FALSE)
<1>1. /\ pjStage = "redact" /\ pjFed' = pjFed \o chunk /\ pjOut' = pjOut \o read.out
      /\ pjPending' = SubSeq(data, read.stop, Len(data)) /\ pjStage' = pjStage
  BY DEF PjFeed
<1>2. pjFed \in Seq(PjBytes) /\ pjPending \in Seq(PjBytes) /\ pjOut \in Seq(RdShows)
  BY DEF RdInv, RdTypeOK, RdShows
<1>3. data \in Seq(PjBytes)
  BY <1>2
<1> HIDE DEF data
<1>4. read.out \in Seq(RdShows) /\ read.stop \in 1..Len(data) + 1
  BY <1>3, ScanOut
<1>5. PjScan(data, FALSE) = PjScanFrom(data, FALSE)[1]
  BY DEF PjScan
<1> HIDE DEF read
<1>6. RdTypeOK'
  <2>1. pjPending' \in Seq(PjBytes)
    BY <1>1, <1>3, <1>4
  <2>2. pjFed' \in Seq(PjBytes)
    BY <1>1, <1>2
  <2>3. pjOut' \in Seq(RdShows)
    BY <1>1, <1>2, <1>4
  <2> QED
    BY <1>1, <2>1, <2>2, <2>3 DEF RdTypeOK, RdShows
<1>7. ASSUME NEW more \in Seq(PjBytes)
      PROVE  PjScan(pjFed' \o more, TRUE).out = pjOut' \o PjScan(pjPending' \o more, TRUE).out
  <2> DEFINE all == data \o more
  <2>1. chunk \o more \in Seq(PjBytes) /\ all \in Seq(PjBytes) /\ Len(all) = Len(data) + Len(more)
    BY <1>3
  <2>2. pjFed' \o more = pjFed \o (chunk \o more)
    BY <1>1, <1>2, BytesJoin
  <2>3. pjPending \o (chunk \o more) = all
    BY <1>2, BytesJoin DEF data
  <2>4. PjScan(pjFed' \o more, TRUE).out = pjOut \o PjScan(all, TRUE).out
    <3>1. \A next \in Seq(PjBytes) :
             PjScan(pjFed \o next, TRUE).out = pjOut \o PjScan(pjPending \o next, TRUE).out
      BY <1>1 DEF RdInv, RdAhead
    <3>2. PjScan(pjFed \o (chunk \o more), TRUE).out
            = pjOut \o PjScan(pjPending \o (chunk \o more), TRUE).out
      BY <2>1, <3>1, Zenon
    <3> HIDE DEF all
    <3> QED
      BY <2>2, <2>3, <3>2, Zenon
  <2>5. PjScan(all, TRUE).out = read.out \o PjScanFrom(all, TRUE)[read.stop].out
    <3>1. 1 \in 1..Len(data) + 1
      BY <1>3
    <3> QED
      BY <1>3, <3>1, ScanGoesOn, Zenon DEF PjScan, read
  <2>6. SubSeq(all, read.stop, Len(all)) = pjPending' \o more
    BY <1>1, <1>3, <1>4, RestOfJoin
  <2>7. PjScan(pjPending' \o more, TRUE).out = PjScanFrom(all, TRUE)[read.stop].out
    <3>1. read.stop \in 1..Len(all) + 1
      BY <1>3, <1>4, <2>1
    <3> HIDE DEF all
    <3>2. PjScan(SubSeq(all, read.stop, Len(all)), TRUE).out = PjScanFrom(all, TRUE)[read.stop].out
      BY <2>1, <3>1, ScanOfRest
    <3> QED
      BY <2>6, <3>2, Zenon
  <2>8. PjScan(pjPending' \o more, TRUE).out \in Seq(RdShows)
    <3>1. pjPending' \o more \in Seq(PjBytes)
      BY <1>1, <1>3, <1>4
    <3> QED
      BY <3>1, ScanOut
  <2> DEFINE x == read.out
             y == PjScan(pjPending' \o more, TRUE).out
  <2>9. (pjOut \o x) \o y = pjOut \o (x \o y)
    <3> HIDE DEF x, y
    <3>1. x \in Seq(RdShows) /\ y \in Seq(RdShows)
      BY <1>4, <2>8 DEF x, y
    <3> QED
      BY <1>2, <3>1, JoinAgain
  <2> HIDE DEF all
  <2> QED
    BY <1>1, <2>4, <2>5, <2>7, <2>9, Zenon
<1> QED
  BY <1>1, <1>6, <1>7 DEF RdInv, RdAhead, RdDone

LEMMA RdFlushInv == RdInv /\ PjFlush => RdInv'
<1> SUFFICES ASSUME RdInv, PjFlush PROVE RdInv'
  OBVIOUS
<1>1. /\ pjStage = "redact" /\ pjOut' = pjOut \o PjScan(pjPending, TRUE).out /\ pjPending' = <<>>
      /\ pjStage' = "redacted" /\ pjFed' = pjFed
  BY DEF PjFlush
<1>2. pjFed \in Seq(PjBytes) /\ pjPending \in Seq(PjBytes) /\ pjOut \in Seq(RdShows)
      /\ <<>> \in Seq(PjBytes)
  BY DEF RdInv, RdTypeOK, RdShows
<1>3. PjScan(pjPending, TRUE).out \in Seq(RdShows)
  BY <1>2, ScanOut
<1>4. pjFed \o <<>> = pjFed /\ pjPending \o <<>> = pjPending
  BY <1>2
<1>5. PjScan(pjFed \o <<>>, TRUE).out = pjOut \o PjScan(pjPending \o <<>>, TRUE).out
  BY <1>1, <1>2, Zenon DEF RdInv, RdAhead
<1>6. PjScan(pjFed, TRUE).out = pjOut'
  BY <1>1, <1>4, <1>5, Zenon
<1>7. pjOut' \in Seq(RdShows)
  <2> DEFINE o == PjScan(pjPending, TRUE).out
  <2>1. o \in Seq(RdShows) /\ pjOut' = pjOut \o o
    BY <1>1, <1>3
  <2> HIDE DEF o
  <2> QED
    BY <1>2, <2>1
<1>8. RdTypeOK'
  BY <1>1, <1>2, <1>7 DEF RdTypeOK, RdShows
<1> QED
  BY <1>1, <1>6, <1>8 DEF RdInv, RdAhead, RdDone

LEMMA RdInitInv == RdInit => RdInv
<1> SUFFICES ASSUME RdInit PROVE RdInv
  OBVIOUS
<1>1. /\ pjStage = "redact" /\ pjFed = <<>> /\ pjPending = <<>> /\ pjOut = <<>>
      /\ <<>> \in Seq(PjBytes) /\ <<>> \in Seq(PjBytes \cup {"R"})
  BY DEF RdInit
<1>2. RdTypeOK
  BY <1>1 DEF RdTypeOK
<1>3. ASSUME NEW more \in Seq(PjBytes)
      PROVE  PjScan(pjFed \o more, TRUE).out = pjOut \o PjScan(pjPending \o more, TRUE).out
  <2>1. <<>> \o more = more
    OBVIOUS
  <2>2. PjScan(more, TRUE).out \in Seq(RdShows)
    BY ScanOut
  <2> DEFINE o == PjScan(more, TRUE).out
  <2>3. o = <<>> \o o
    <3> HIDE DEF o
    <3>1. o \in Seq(RdShows)
      BY <2>2 DEF o
    <3> QED
      BY <3>1
  <2> QED
    BY <1>1, <2>1, <2>3, Zenon
<1> QED
  BY <1>1, <1>2, <1>3 DEF RdInv, RdAhead, RdDone

LEMMA RdNextInv == RdInv /\ [RdNext]_rdVars => RdInv'
<1> SUFFICES ASSUME RdInv, [RdNext]_rdVars PROVE RdInv'
  OBVIOUS
<1>1. CASE \E n \in 1..PjMaxChunk : \E chunk \in [1..n -> PjBytes] : PjFeed(chunk)
  <2>1. PICK n \in 1..PjMaxChunk : \E chunk \in [1..n -> PjBytes] : PjFeed(chunk)
    BY <1>1
  <2>2. PICK chunk \in [1..n -> PjBytes] : PjFeed(chunk)
    BY <2>1
  <2>3. chunk \in Seq(PjBytes)
    BY PjValues
  <2> QED
    BY <2>2, <2>3, RdFeedInv
<1>2. CASE PjDecode
  BY <1>2 DEF PjDecode, RdInv, RdTypeOK, RdAhead, RdDone
<1>3. CASE UNCHANGED rdVars
  BY <1>3 DEF rdVars, RdInv, RdTypeOK, RdAhead, RdDone
<1> QED
  BY <1>1, <1>2, <1>3, RdFlushInv DEF RdNext

(* The inductive invariant of the redactor: the output so far and the      *)
(* pending bytes determine the output of the whole input, whatever is      *)
(* still to come.                                                          *)
THEOREM RdInvariance == RdSpec => []RdInv
  BY RdInitInv, RdNextInv, PTL DEF RdSpec

LEMMA RdInvRedacts == RdInv => RedactionIsComplete
<1> SUFFICES ASSUME RdInv PROVE RedactionIsComplete
  OBVIOUS
<1>1. /\ pjStage \in {"redact", "redacted", "decoded"} /\ pjFed \in Seq(PjBytes)
      /\ pjPending \in Seq(PjBytes) /\ pjOut \in Seq(RdShows) /\ <<>> \in Seq(PjBytes)
  BY DEF RdInv, RdTypeOK, RdShows
<1> DEFINE whole == PjScan(pjFed, TRUE).out
<1>2. whole \in Seq(RdShows) /\ \A p \in 1..Len(whole) : \A v \in PjSecrets : ~PjOccursAt(v, whole, p)
  <2>1. 1 \in 1..Len(pjFed) + 1
    BY <1>1
  <2> QED
    BY <1>1, <2>1, ScanOut, ScanIsClean DEF PjScan
<1>3. pjStage # "decoded" => \E rest \in Seq(RdShows) : whole = pjOut \o rest
  <2>1. CASE pjStage = "redact"
    <3>1. pjFed \o <<>> = pjFed /\ pjPending \o <<>> = pjPending
      BY <1>1
    <3>2. PjScan(pjFed \o <<>>, TRUE).out = pjOut \o PjScan(pjPending \o <<>>, TRUE).out
      BY <1>1, <2>1, Zenon DEF RdInv, RdAhead
    <3>3. whole = pjOut \o PjScan(pjPending, TRUE).out
      BY <3>1, <3>2, Zenon
    <3>4. PjScan(pjPending, TRUE).out \in Seq(RdShows)
      BY <1>1, ScanOut
    <3> HIDE DEF whole
    <3> QED
      BY <3>3, <3>4
  <2>2. CASE pjStage = "redacted"
    <3>1. whole = pjOut
      BY <2>2 DEF RdInv, RdDone
    <3>2. pjOut = pjOut \o <<>> /\ <<>> \in Seq(RdShows)
      BY <1>1
    <3> HIDE DEF whole
    <3> QED
      BY <3>1, <3>2
  <2> QED
    BY <1>1, <2>1, <2>2
<1> HIDE DEF whole
<1>4. ASSUME NEW at \in DOMAIN pjOut, NEW v \in PjSecrets, PjOccursAt(v, pjOut, at) PROVE FALSE
  <2>1. at \in 1..Len(pjOut) /\ at \in Nat \ {0} /\ pjStage # "decoded" /\ Len(pjOut) \in Nat
    BY <1>1 DEF RdInv
  <2>2. v \in Seq(RdShows) /\ Len(v) \in Nat
    BY PjValues DEF RdShows
  <2>3. PICK rest \in Seq(RdShows) : whole = pjOut \o rest
    BY <1>3, <2>1
  <2>4. Len(pjOut) <= Len(whole) /\ \A i \in 1..Len(pjOut) : whole[i] = pjOut[i]
    BY <1>1, <2>3
  <2>5. at + Len(v) - 1 <= Len(pjOut) /\ \A i \in 1..Len(v) : pjOut[at + i - 1] = v[i]
    BY <1>1, <1>4, <2>1, <2>2, OccursBytes, SMTT(30)
  <2>6. at + Len(v) - 1 <= Len(whole) /\ at \in 1..Len(whole)
    BY <1>2, <2>1, <2>2, <2>4, <2>5
  <2>7. ASSUME NEW i \in 1..Len(v) PROVE whole[at + i - 1] = v[i]
    <3>1. at + i - 1 \in 1..Len(pjOut)
      BY <2>1, <2>2, <2>5
    <3> QED
      BY <2>4, <2>5, <3>1
  <2>8. PjOccursAt(v, whole, at)
    BY <1>2, <2>1, <2>2, <2>6, <2>7, OccursBytes
  <2> QED
    BY <1>2, <2>6, <2>8
<1>5. \A at \in DOMAIN pjOut : PjMatches(pjOut, at) = {}
  BY <1>4 DEF PjMatches
<1> QED
  BY <1>5 DEF RedactionIsComplete, RdInv, RdDone

(* However the input was cut into chunks, no exact value is in the output  *)
(* of _ExactRedactor, and once it is flushed the output is that of the     *)
(* input in one piece: for every alphabet, every set of values and every   *)
(* input.                                                                  *)
THEOREM RedactionHolds == RdSpec => []RedactionIsComplete
  BY RdInvRedacts, RdInvariance, PTL

-----------------------------------------------------------------------------
(* The normalizer and the collector.                                       *)

(* The largest and the least member of a bounded set of naturals.          *)
LEMMA MaxOf ==
    ASSUME NEW n \in Nat, NEW S \in SUBSET (0..n), S # {}
    PROVE  Max(S) \in S /\ \A y \in S : y <= Max(S)
<1> DEFINE T == {d \in 0..n : n - d \in S}
<1>1. T \in SUBSET Nat
  OBVIOUS
<1>2. T # {}
  <2>1. PICK x \in S : TRUE
    OBVIOUS
  <2>2. x \in 0..n /\ n - x \in 0..n /\ n - (n - x) = x
    BY <2>1
  <2>3. n - x \in T
    BY <2>1, <2>2
  <2> QED
    BY <2>3
<1>3. PICK m \in T : \A d \in T : m <= d
  <2> HIDE DEF T
  <2> QED
    BY <1>1, <1>2, LeastNumber
<1>4. n - m \in S /\ m \in 0..n
  BY <1>3
<1>5. ASSUME NEW y \in S PROVE n - m >= y
  <2>1. y \in 0..n /\ n - y \in 0..n /\ n - (n - y) = y
    OBVIOUS
  <2>2. n - y \in T
    BY <2>1
  <2>3. m <= n - y
    BY <1>3, <2>2
  <2> QED
    BY <1>4, <2>1, <2>3
<1>6. Max(S) \in S /\ \A y \in S : Max(S) >= y
  BY <1>4, <1>5 DEF Max
<1> QED
  BY <1>6

LEMMA MinOf == ASSUME NEW S \in SUBSET Nat, S # {} PROVE Min(S) \in S
<1>1. PICK m \in S : \A y \in S : m <= y
  BY LeastNumber
<1> QED
  BY <1>1 DEF Min

-----------------------------------------------------------------------------
PjLimitsOK(limits) == limits.bytes \in Nat /\ limits.lines \in Nat /\ limits.tokens \in Nat

LEMMA OwnLimits ==
    /\ PjLimitsOK(PjLimits)
    /\ PjLimits.bytes >= 1 /\ PjLimits.lines >= 1 /\ PjLimits.tokens >= 1
  BY PjConstants DEF PjLimitsOK

LEMMA NothingFits == ASSUME NEW limits, PjLimitsOK(limits) PROVE PjFits(<<>>, limits)
<1>1. {i \in DOMAIN <<>> : <<>>[i] = "n"} = {} /\ Len(<<>>) = 0
  OBVIOUS
<1>2. PjLines(<<>>) = 0
  BY <1>1, FS_EmptySet DEF PjLines
<1>3. (0 + 3) \div 4 = 0
  OBVIOUS
<1> QED
  BY <1>1, <1>2, <1>3 DEF PjFits, PjLimitsOK

LEMMA MarkerFits == PjMarker \in PjTexts /\ PjMarker # <<>> /\ PjFits(PjMarker, PjLimits)
<1>1. PjMarker = [i \in 1..1 |-> "c"]
  BY DEF PjMarker, PjChars
<1>2. PjMarker \in PjTexts /\ Len(PjMarker) = 1 /\ DOMAIN PjMarker = {1} /\ PjMarker[1] = "c"
  BY <1>1 DEF PjTexts
<1>3. {i \in DOMAIN PjMarker : PjMarker[i] = "n"} = {}
  BY <1>2
<1>4. PjLines(PjMarker) = 1
  <2>1. Cardinality({i \in DOMAIN PjMarker : PjMarker[i] = "n"}) = 0
    BY <1>3, FS_EmptySet
  <2>2. PjMarker # <<>> /\ PjMarker[Len(PjMarker)] # "n"
    BY <1>2
  <2> QED
    BY <2>1, <2>2 DEF PjLines
<1>5. (1 + 3) \div 4 = 1
  OBVIOUS
<1>6. PjFits(PjMarker, PjLimits)
  BY <1>2, <1>4, <1>5, OwnLimits DEF PjFits, PjLimitsOK
<1> QED
  BY <1>2, <1>6

(* A prefix cut down to limits is a text within them (add, trim_to).       *)
LEMMA FittingFits ==
    ASSUME NEW text \in PjTexts, NEW limits, PjLimitsOK(limits)
    PROVE  PjFitting(text, limits) \in PjTexts /\ PjFits(PjFitting(text, limits), limits)
<1> DEFINE S == {k \in 0..Len(text) : PjFits(SubSeq(text, 1, k), limits)}
<1>1. Len(text) \in Nat /\ S \in SUBSET (0..Len(text))
  BY DEF PjTexts
<1>2. SubSeq(text, 1, 0) = <<>>
  BY DEF PjTexts
<1>3. 0 \in S
  <2>1. PjFits(SubSeq(text, 1, 0), limits)
    BY <1>2, NothingFits, Zenon
  <2>2. 0 \in 0..Len(text)
    BY <1>1
  <2> QED
    BY <2>1, <2>2
<1>4. Max(S) \in S
  <2> HIDE DEF S
  <2> QED
    BY <1>1, <1>3, MaxOf
<1>5. Max(S) \in 0..Len(text) /\ PjFits(SubSeq(text, 1, Max(S)), limits)
  BY <1>4
<1>6. PjFitting(text, limits) = SubSeq(text, 1, Max(S))
  BY DEF PjFitting
<1>7. SubSeq(text, 1, Max(S)) \in PjTexts
  <2> DEFINE k == Max(S)
  <2>1. k \in 0..Len(text)
    BY <1>5
  <2> HIDE DEF k
  <2>2. SubSeq(text, 1, k) \in PjTexts
    BY <2>1 DEF PjTexts
  <2> QED
    BY <2>2 DEF k
<1> QED
  BY <1>5, <1>6, <1>7

LEMMA SeparatedText == ASSUME NEW text \in PjTexts PROVE PjSeparated(text) \in PjTexts
  BY DEF PjSeparated, PjTexts

(* A text with its omission marker is within the limits (finish).          *)
LEMMA MarkedFits ==
    ASSUME NEW prefix \in PjTexts
    PROVE  PjMarked(prefix) \in PjTexts /\ PjFits(PjMarked(prefix), PjLimits)
<1> DEFINE Cut(k) == PjSeparated(SubSeq(prefix, 1, k)) \o PjMarker
           S == {k \in 0..Len(prefix) : PjFits(Cut(k), PjLimits)}
<1>1. Len(prefix) \in Nat /\ S \in SUBSET (0..Len(prefix))
  BY DEF PjTexts
<1>2. Cut(0) = PjMarker
  <2>1. SubSeq(prefix, 1, 0) = <<>>
    BY DEF PjTexts
  <2>2. PjSeparated(<<>>) = <<>>
    BY DEF PjSeparated
  <2>3. <<>> \o PjMarker = PjMarker
    BY MarkerFits DEF PjTexts
  <2> QED
    BY <2>1, <2>2, <2>3
<1>3. 0 \in S
  <2>1. PjFits(Cut(0), PjLimits)
    BY <1>2, MarkerFits, Zenon
  <2>2. 0 \in 0..Len(prefix)
    BY <1>1
  <2> HIDE DEF Cut
  <2> QED
    BY <2>1, <2>2
<1>4. Max(S) \in S
  <2> HIDE DEF S
  <2> QED
    BY <1>1, <1>3, MaxOf
<1>5. Max(S) \in 0..Len(prefix) /\ PjFits(Cut(Max(S)), PjLimits)
  BY <1>4
<1>6. PjMarked(prefix) = Cut(Max(S))
  BY DEF PjMarked
<1>7. Cut(Max(S)) \in PjTexts
  <2> DEFINE k == Max(S)
  <2>1. k \in 0..Len(prefix)
    BY <1>5
  <2> HIDE DEF k
  <2>2. SubSeq(prefix, 1, k) \in PjTexts
    BY <2>1 DEF PjTexts
  <2> DEFINE a == PjSeparated(SubSeq(prefix, 1, k))
  <2>3. a \in PjTexts
    BY <2>2, SeparatedText
  <2> HIDE DEF a
  <2>4. a \o PjMarker \in PjTexts
    BY <2>3, MarkerFits DEF PjTexts
  <2> QED
    BY <2>4 DEF a, k
<1> QED
  BY <1>5, <1>6, <1>7

(* Induction upwards to a bound.                                           *)
LEMMA Upward ==
    ASSUME NEW n \in Nat, NEW T \in SUBSET (0..n), 0 \in T,
           \A k \in 0..n : k \in T /\ k < n => k + 1 \in T
    PROVE  T = 0..n
<1> SUFFICES ASSUME T # 0..n PROVE FALSE
  OBVIOUS
<1> DEFINE U == {k \in 0..n : k \notin T}
<1>1. U # {} /\ U \in SUBSET Nat
  <2>1. PICK k \in 0..n : k \notin T
    OBVIOUS
  <2>2. k \in U
    BY <2>1
  <2> QED
    BY <2>2
<1>2. PICK m \in U : \A k \in U : m <= k
  <2> HIDE DEF U
  <2> QED
    BY <1>1, LeastNumber
<1>3. m \in 0..n /\ m \notin T /\ m # 0
  BY <1>2
<1>4. m - 1 \in 0..n /\ m - 1 < n /\ (m - 1) + 1 = m
  BY <1>3
<1>5. m - 1 \in T
  <2>1. ~(m <= m - 1)
    BY <1>3
  <2>2. m - 1 \notin U
    <3> HIDE DEF U
    <3> QED
      BY <1>2, <2>1
  <2> QED
    BY <1>4, <2>2
<1> QED
  BY <1>3, <1>4, <1>5

LEMMA TextOfRecord == ASSUME NEW record \in PjRecords PROVE PjTextOf(record) \in PjTexts
<1>1. record.len \in Nat /\ (record.ended => record.len - 1 \in Nat)
  BY DEF PjRecords
<1>2. ASSUME NEW n \in Nat PROVE PjChars(n) \in PjTexts /\ PjLine(n) \in PjTexts
  <2>1. PjChars(n) \in PjTexts
    BY DEF PjChars, PjTexts
  <2> QED
    BY <2>1 DEF PjLine, PjTexts
<1> QED
  BY <1>1, <1>2 DEF PjTextOf

LEMMA KeepText ==
    ASSUME NEW text \in PjTexts, NEW record \in PjRecords
    PROVE  PjKeep(text, record) \in PjTexts
<1> DEFINE t == PjTextOf(record)
<1>1. t \in PjTexts
  BY TextOfRecord
<1>2. PjKeep(text, record) = IF PjRoom(text, record, PjMiddle) THEN text \o t ELSE text
  BY DEF PjKeep
<1> HIDE DEF t
<1> QED
  BY <1>1, <1>2 DEF PjTexts

(* The loop over the context before an anchor leaves a text in the buffer. *)
LEMMA KeepAllText ==
    ASSUME NEW text \in PjTexts, NEW records \in Seq(PjRecords)
    PROVE  PjKeepAll(text, records) \in PjTexts
<1> DEFINE n == Len(records)
           Turn(f, i) == IF i = 0 THEN text ELSE PjKeep(f[i - 1], records[i])
           Known(k) == \E f : f = [i \in 0..k |-> Turn(f, i)]
<1>0. n \in Nat
  OBVIOUS
<1>1. Known(0)
  <2> DEFINE f == [i \in 0..0 |-> text]
  <2>1. f = [i \in 0..0 |-> Turn(f, i)]
    OBVIOUS
  <2> HIDE DEF f
  <2> QED
    BY <2>1
<1>2. ASSUME NEW k \in 0..n, Known(k) PROVE Known(k + 1)
  <2>1. PICK f : f = [i \in 0..k |-> Turn(f, i)]
    BY <1>2
  <2> DEFINE g == [i \in 0..k + 1 |-> IF i <= k THEN f[i] ELSE PjKeep(f[k], records[k + 1])]
  <2>2. ASSUME NEW i \in 0..k + 1 PROVE g[i] = Turn(g, i)
    <3>1. CASE i = 0
      <4>1. 0 \in 0..k
        BY <1>0
      <4>2. f[0] = text
        BY <2>1, <4>1
      <4> QED
        BY <1>0, <3>1, <4>2
    <3>2. CASE i # 0 /\ i <= k
      <4>1. i - 1 \in 0..k + 1 /\ i - 1 <= k /\ i \in 0..k
        BY <1>0, <3>2
      <4>2. f[i] = PjKeep(f[i - 1], records[i])
        BY <2>1, <3>2, <4>1
      <4>3. g[i] = f[i] /\ g[i - 1] = f[i - 1]
        BY <3>2, <4>1
      <4> HIDE DEF g
      <4> QED
        BY <3>2, <4>2, <4>3
    <3>3. CASE i = k + 1
      <4>1. k \in 0..k + 1 /\ k <= k /\ (k + 1) - 1 = k /\ k + 1 # 0 /\ ~(k + 1 <= k)
        BY <1>0
      <4>2. g[k] = f[k] /\ g[k + 1] = PjKeep(f[k], records[k + 1])
        BY <1>0, <4>1
      <4> HIDE DEF g
      <4> QED
        BY <3>3, <4>1, <4>2
    <3> QED
      BY <1>0, <3>1, <3>2, <3>3
  <2>3. g = [i \in 0..k + 1 |-> g[i]]
    OBVIOUS
  <2> HIDE DEF g
  <2>4. g = [i \in 0..k + 1 |-> Turn(g, i)]
    BY <2>2, <2>3
  <2> QED
    BY <2>4
<1>3. Known(n)
  <2> DEFINE T == {k \in 0..n : Known(k)}
  <2>1. 0 \in T /\ T \in SUBSET (0..n)
    BY <1>0, <1>1
  <2>2. ASSUME NEW k \in 0..n, k \in T, k < n PROVE k + 1 \in T
    <3>1. Known(k + 1)
      BY <1>2, <2>2
    <3>2. k + 1 \in 0..n
      BY <1>0, <2>2
    <3> HIDE DEF Known
    <3> QED
      BY <3>1, <3>2
  <2>3. T = 0..n
    <3> HIDE DEF T
    <3> QED
      BY <1>0, <2>1, <2>2, Upward
  <2>4. n \in T
    BY <1>0, <2>3
  <2> QED
    BY <2>4
<1> DEFINE kept == CHOOSE f : f = [i \in 0..n |-> Turn(f, i)]
<1>4. PjKeepAll(text, records) = kept[n]
  BY DEF PjKeepAll
<1>5. kept = [i \in 0..n |-> Turn(kept, i)]
  BY <1>3
<1> HIDE DEF kept
<1> DEFINE S == {i \in 0..n : kept[i] \in PjTexts}
<1>6. 0 \in S /\ S \in SUBSET (0..n)
  BY <1>0, <1>5
<1>7. ASSUME NEW k \in 0..n, k \in S, k < n PROVE k + 1 \in S
  <2>1. k + 1 \in 0..n /\ k + 1 # 0 /\ (k + 1) - 1 = k
    BY <1>0, <1>7
  <2>2. kept[k + 1] = PjKeep(kept[k], records[k + 1])
    BY <1>5, <2>1
  <2>3. kept[k] \in PjTexts /\ records[k + 1] \in PjRecords
    BY <1>0, <1>7
  <2>4. kept[k + 1] \in PjTexts
    BY <2>2, <2>3, KeepText
  <2> QED
    BY <2>1, <2>4
<1>8. S = 0..n
  <2> HIDE DEF S
  <2> QED
    BY <1>0, <1>6, <1>7, Upward
<1>9. n \in S
  BY <1>0, <1>8
<1> QED
  BY <1>4, <1>9

-----------------------------------------------------------------------------
(* The shares of _activate_selection are limits when it takes them.        *)
LEMMA Shares ==
    ASSUME PjSelectable
    PROVE  /\ PjLimitsOK(PjHead)
           /\ PjRest.bytes \in Int /\ PjRest.lines \in Int /\ PjRest.lines > 0
<1> DEFINE low == Min({PjLimits.bytes, 4 * PjLimits.tokens})
           b == PjBudget.bytes
           l == PjBudget.lines
<1>1. low \in Nat
  <2> DEFINE S == {PjLimits.bytes, 4 * PjLimits.tokens}
  <2>1. S \in SUBSET Nat /\ S # {}
    BY OwnLimits DEF PjLimitsOK
  <2> HIDE DEF S
  <2>2. Min(S) \in S
    BY <2>1, MinOf
  <2> QED
    BY <2>1, <2>2 DEF S
<1>2. Len(PjMarker) \in Nat
  BY MarkerFits DEF PjTexts
<1>3. b = low - 2 * (Len(PjMarker) + 1) /\ l = PjLimits.lines - 2
  BY DEF PjBudget
<1>4. b \in Int /\ l \in Int
  <2> HIDE DEF low, b, l
  <2> QED
    BY <1>1, <1>2, <1>3, OwnLimits DEF PjLimitsOK
<1>5. b >= 3 /\ l >= 3
  BY DEF PjSelectable
<1> DEFINE q == b \div 4
           r == l \div 4
<1>6. q \in Nat /\ r \in Nat /\ b \div 2 \in Int /\ l \div 2 \in Int
  <2> HIDE DEF b, l
  <2> QED
    BY <1>4, <1>5
<1>7. PjHead.bytes = q /\ PjHead.lines = r /\ PjHead.tokens = Max({1, q \div 4})
  <2>1. PjHead = PjShare(q, r)
    BY DEF PjHead
  <2> HIDE DEF q, r
  <2> QED
    BY <2>1 DEF PjShare
<1>8. Max({1, q \div 4}) \in Nat
  <2> HIDE DEF q
  <2> DEFINE u == q \div 4
             S == {1, u}
  <2>0. u \in Nat
    BY <1>6
  <2> HIDE DEF u
  <2>1. S \in SUBSET (0..u + 1) /\ u + 1 \in Nat /\ S # {} /\ S \in SUBSET Nat
    BY <2>0
  <2> HIDE DEF S
  <2>2. Max(S) \in S
    BY <2>1, MaxOf
  <2>3. Max(S) \in Nat
    BY <2>1, <2>2
  <2> QED
    BY <2>3 DEF S, u
<1>9. PjRest.bytes = b - q - (b \div 2) /\ PjRest.lines = l - r - (l \div 2)
  BY <1>7 DEF PjRest, PjMiddle, PjShare
<1>10. PjRest.bytes \in Int /\ PjRest.lines \in Int
  <2> HIDE DEF b, l, q, r
  <2> QED
    BY <1>4, <1>6, <1>9
<1>11. PjRest.lines > 0
  BY DEF PjSelectable
<1> QED
  BY <1>6, <1>7, <1>8, <1>10, <1>11 DEF PjLimitsOK

(* The rolling buffer: there is always a record, or the end, to start at.  *)
LEMMA RollText ==
    ASSUME PjSelectable, NEW text \in PjTexts, NEW record \in PjRecords
    PROVE  PjRoll(text, record) \in PjTexts
<1> DEFINE Rest(k) == SubSeq(text, k, Len(text))
           starts == {k \in 1..Len(text) + 1 : k \in {1, Len(text) + 1} \/ text[k - 1] = "n"}
           S == {k \in starts : PjRoom(Rest(k), record, PjRest)}
           t == PjTextOf(record)
<1>1. Len(text) \in Nat /\ record.len \in Nat /\ t \in PjTexts
  BY TextOfRecord DEF PjTexts, PjRecords
<1>2. PjRoll(text, record) = IF record.len > PjRest.bytes THEN text ELSE Rest(Min(S)) \o t
  BY DEF PjRoll
<1>3. SUFFICES ASSUME ~(record.len > PjRest.bytes) PROVE Rest(Min(S)) \o t \in PjTexts
  BY <1>2
<1>4. Len(text) + 1 \in S
  <2>1. Rest(Len(text) + 1) = <<>>
    BY <1>1 DEF PjTexts
  <2>2. PjLines(<<>>) = 0
    <3>1. {i \in DOMAIN <<>> : <<>>[i] = "n"} = {}
      OBVIOUS
    <3> QED
      BY <3>1, FS_EmptySet DEF PjLines
  <2>3. Len(<<>>) + record.len <= PjRest.bytes
    BY <1>1, <1>3, Shares
  <2>4. PjRoom(<<>>, record, PjRest)
    BY <2>2, <2>3, Shares DEF PjRoom
  <2>5. PjRoom(Rest(Len(text) + 1), record, PjRest)
    BY <2>1, <2>4, Zenon
  <2>6. Len(text) + 1 \in starts
    BY <1>1
  <2> HIDE DEF Rest, starts
  <2> QED
    BY <2>5, <2>6
<1>5. S \in SUBSET Nat /\ \A k \in S : k \in 1..Len(text) + 1
  BY <1>1
<1>6. Min(S) \in S
  <2> HIDE DEF S
  <2> QED
    BY <1>4, <1>5, MinOf
<1> DEFINE from == Min(S)
<1>7. from \in 1..Len(text) + 1
  BY <1>5, <1>6
<1> HIDE DEF from
<1>8. Rest(from) \in PjTexts
  BY <1>1, <1>7 DEF PjTexts
<1>9. Rest(from) \o t \in PjTexts
  <2> HIDE DEF Rest, t
  <2> QED
    BY <1>1, <1>8 DEF PjTexts
<1> QED
  BY <1>9 DEF from

-----------------------------------------------------------------------------
(* What every collector keeps: while the prefix is not truncated it fits,  *)
(* and the buffers are used only when the limits leave shares for them.    *)
PjColOK(col) ==
    /\ col \in PjCollectors /\ Len(col.before) <= PjBefore
    /\ ~col.truncated => PjFits(col.prefix, PjLimits)
    /\ col.active => PjSelectable

LEMMA AddPrefixOK ==
    ASSUME NEW col, PjColOK(col), NEW record \in PjRecords
    PROVE  /\ PjColOK(PjAddPrefix(col, record))
           /\ PjAddPrefix(col, record).before = col.before
           /\ PjAddPrefix(col, record).after = col.after
<1> DEFINE all == col.prefix \o PjTextOf(record)
           cut == PjFitting(all, PjLimits)
           head == PjFitting(cut, PjHead)
           full == [col EXCEPT !.prefix = cut, !.truncated = TRUE]
           next == PjAddPrefix(col, record)
<1>1. col \in PjCollectors /\ Len(col.before) <= PjBefore
      /\ (~col.truncated => PjFits(col.prefix, PjLimits)) /\ (col.active => PjSelectable)
  BY DEF PjColOK
<1>2. all \in PjTexts
  <2> DEFINE t == PjTextOf(record)
  <2>1. t \in PjTexts /\ col.prefix \in PjTexts
    BY <1>1, TextOfRecord DEF PjCollectors
  <2> HIDE DEF t
  <2>2. col.prefix \o t \in PjTexts
    BY <2>1 DEF PjTexts
  <2> QED
    BY <2>2 DEF t
<1> HIDE DEF all
<1>3. cut \in PjTexts
  BY <1>2, FittingFits, OwnLimits
<1> HIDE DEF cut
<1>4. PjSelectable => head \in PjTexts
  BY <1>3, FittingFits, Shares
<1> HIDE DEF head
<1>5. /\ col.truncated => next = col
      /\ ~col.truncated /\ PjFits(all, PjLimits) => next = [col EXCEPT !.prefix = all]
      /\ ~col.truncated /\ ~PjFits(all, PjLimits) /\ ~PjSelectable => next = full
      /\ ~col.truncated /\ ~PjFits(all, PjLimits) /\ PjSelectable
             => next = [full EXCEPT !.prefix = head, !.active = TRUE]
  BY <1>1 DEF PjAddPrefix, all, cut, head, PjCollectors
<1> SUFFICES PjColOK(next) /\ next.before = col.before /\ next.after = col.after
  OBVIOUS
<1> HIDE DEF next
<1>6. CASE col.truncated
  BY <1>1, <1>5, <1>6 DEF PjColOK
<1>7. CASE ~col.truncated /\ PjFits(all, PjLimits)
  <2>1. next = [col EXCEPT !.prefix = all]
    BY <1>5, <1>7
  <2> QED
    BY <1>1, <1>2, <1>7, <2>1 DEF PjColOK, PjCollectors
<1>8. CASE ~col.truncated /\ ~PjFits(all, PjLimits) /\ ~PjSelectable
  BY <1>1, <1>3, <1>5, <1>8 DEF PjColOK, PjCollectors
<1>9. CASE ~col.truncated /\ ~PjFits(all, PjLimits) /\ PjSelectable
  BY <1>1, <1>4, <1>5, <1>9 DEF PjColOK, PjCollectors
<1> QED
  BY <1>6, <1>7, <1>8, <1>9

(* _FailureCollector.add keeps it.                                         *)
LEMMA AddOK ==
    ASSUME NEW col, PjColOK(col), NEW record \in PjRecords
    PROVE  PjColOK(PjAdd(col, record))
<1> DEFINE added == PjAddPrefix(col, record)
           last == Append(col.before, record)
           context == IF col.after = 0 THEN col.before ELSE <<>>
           tail == PjRoll(added.tail, record)
           anchors == CASE record.anchor -> PjKeep(PjKeepAll(added.anchors, context), record)
                        [] ~record.anchor /\ col.after > 0 -> PjKeep(added.anchors, record)
                        [] OTHER -> added.anchors
           after == IF record.anchor THEN PjAfter
                    ELSE IF added.after > 0 THEN added.after - 1 ELSE 0
           before == IF Len(last) > PjBefore THEN Tail(last) ELSE last
<1>1. /\ PjColOK(added) /\ added.before = col.before /\ added.after = col.after
  BY AddPrefixOK
<1>2. PjAdd(col, record) =
         IF ~added.active THEN added
         ELSE [added EXCEPT !.tail = tail, !.anchors = anchors,
                            !.found = added.found \/ record.anchor,
                            !.after = after, !.before = before]
  BY DEF PjAdd
<1> HIDE DEF added
<1>3. /\ added \in PjCollectors /\ Len(added.before) <= PjBefore
      /\ added.active => PjSelectable
  BY <1>1 DEF PjColOK
<1>4. SUFFICES ASSUME added.active
               PROVE  PjColOK([added EXCEPT !.tail = tail, !.anchors = anchors,
                                            !.found = added.found \/ record.anchor,
                                            !.after = after, !.before = before])
  BY <1>1, <1>2
<1>5. tail \in PjTexts
  BY <1>3, <1>4, RollText DEF PjCollectors
<1>6. context \in Seq(PjRecords)
  BY <1>1, <1>3 DEF PjCollectors
<1> HIDE DEF context
<1>7. anchors \in PjTexts
  <2>1. added.anchors \in PjTexts
    BY <1>3 DEF PjCollectors
  <2>2. PjKeep(PjKeepAll(added.anchors, context), record) \in PjTexts
    BY <1>6, <2>1, KeepAllText, KeepText
  <2>3. PjKeep(added.anchors, record) \in PjTexts
    BY <2>1, KeepText
  <2> QED
    BY <2>1, <2>2, <2>3
<1>8. after \in 0..PjAfter /\ record.anchor \in BOOLEAN /\ added.found \in BOOLEAN
  BY <1>3, PjConstants DEF PjCollectors, PjRecords
<1>9. before \in Seq(PjRecords) /\ Len(before) <= PjBefore
  <2>1. added.before \in Seq(PjRecords) /\ Len(added.before) \in Nat
    BY <1>3 DEF PjCollectors
  <2>2. last \in Seq(PjRecords) /\ Len(last) = Len(added.before) + 1
    BY <1>1, <2>1
  <2> HIDE DEF last
  <2>3. Tail(last) \in Seq(PjRecords) /\ Len(Tail(last)) = Len(last) - 1
    BY <2>1, <2>2
  <2> QED
    BY <1>3, <2>1, <2>2, <2>3, PjConstants
<1> HIDE DEF tail, anchors, after, before
<1> QED
  BY <1>1, <1>3, <1>5, <1>7, <1>8, <1>9 DEF PjColOK, PjCollectors

-----------------------------------------------------------------------------
LEMMA RenderedRecords ==
    ASSUME NEW content \in PjPending
    PROVE  /\ PjRender(content) \in Nat /\ content.anchor \in BOOLEAN
           /\ \A n \in {1, 2} : PjRecord(PjRender(content) + n, content.anchor, TRUE) \in PjRecords
           /\ PjRecord(PjRender(content), content.anchor, FALSE) \in PjRecords
<1>1. content.len \in Nat /\ content.anchor \in BOOLEAN
  <2>1. CASE content \in PjContents
    <3>1. content \in [id : STRING, len : Nat, anchor : BOOLEAN]
      BY <2>1, PjConstants
    <3> QED
      BY <3>1
  <2>2. CASE content = PjNoRecord
    BY <2>2 DEF PjNoRecord
  <2> QED
    BY <2>1, <2>2 DEF PjPending
<1>2. PjRender(content) \in Nat
  BY <1>1, PjConstants DEF PjRender
<1>3. ASSUME NEW n \in Nat, NEW a \in BOOLEAN, NEW e \in BOOLEAN, e => n > 0
      PROVE  PjRecord(n, a, e) \in PjRecords
  BY <1>3 DEF PjRecord, PjRecords
<1>4. ASSUME NEW n \in {1, 2} PROVE PjRecord(PjRender(content) + n, content.anchor, TRUE) \in PjRecords
  <2>1. PjRender(content) + n \in Nat /\ PjRender(content) + n > 0
    BY <1>2
  <2> QED
    BY <1>1, <1>3, <2>1
<1>5. PjRecord(PjRender(content), content.anchor, FALSE) \in PjRecords
  BY <1>1, <1>2, <1>3
<1> QED
  BY <1>1, <1>2, <1>4, <1>5

LEMMA FlushRepetitionOK ==
    ASSUME PjTypeOK, NEW col, PjColOK(col)
    PROVE  PjColOK(PjFlushRepetition(col))
<1> DEFINE note == IF pjRepeat.count > 1 THEN 1 ELSE 0
           record == PjRecord(PjRender(pjRepeat.of) + note + 1, pjRepeat.of.anchor, TRUE)
<1>1. pjRepeat.of \in PjPending
  BY DEF PjTypeOK
<1>2. record \in PjRecords
  <2>1. PjRender(pjRepeat.of) \in Nat
    BY <1>1, RenderedRecords
  <2>2. \E n \in {1, 2} : PjRender(pjRepeat.of) + note + 1 = PjRender(pjRepeat.of) + n
    BY <2>1
  <2> QED
    BY <1>1, <2>2, RenderedRecords
<1>3. PjFlushRepetition(col) = IF pjRepeat.count = 0 THEN col ELSE PjAdd(col, record)
  BY DEF PjFlushRepetition
<1> HIDE DEF record
<1> QED
  BY <1>2, <1>3, AddOK

LEMMA FlushedOK ==
    ASSUME PjTypeOK, PjColOK(pjCol)
    PROVE  PjColOK(PjFlushed)
<1> DEFINE Update(content) == PjRecord(PjRender(content) + 1, content.anchor, TRUE)
           flushed == PjFlushRepetition(pjCol)
           first == PjAdd(flushed, Update(pjProgress.first))
           noted == IF pjProgress.count > 2 THEN PjAdd(first, PjRecord(2, FALSE, TRUE)) ELSE first
           last == IF pjProgress.count > 1 THEN PjAdd(noted, Update(pjProgress.last)) ELSE noted
<1>1. PjFlushed = IF pjProgress.count > 0 THEN last ELSE flushed
  BY DEF PjFlushed, PjFlushProgress
<1>2. PjColOK(flushed)
  BY FlushRepetitionOK
<1>3. pjProgress.first \in PjPending /\ pjProgress.last \in PjPending
  BY DEF PjTypeOK
<1>4. Update(pjProgress.first) \in PjRecords /\ Update(pjProgress.last) \in PjRecords
  BY <1>3, RenderedRecords
<1>5. PjRecord(2, FALSE, TRUE) \in PjRecords
  BY DEF PjRecord, PjRecords
<1> HIDE DEF Update, flushed
<1>6. PjColOK(first)
  BY <1>2, <1>4, AddOK
<1> HIDE DEF first
<1>7. PjColOK(noted)
  BY <1>5, <1>6, AddOK
<1> HIDE DEF noted
<1>8. PjColOK(last)
  BY <1>4, <1>7, AddOK
<1> HIDE DEF last
<1> QED
  BY <1>1, <1>2, <1>8

(* Whatever the collector holds, what finish returns is within the limits. *)
LEMMA CollectedFits ==
    ASSUME NEW col \in PjCollectors, ~col.truncated => PjFits(col.prefix, PjLimits)
    PROVE  PjCollected(col) \in PjTexts /\ PjFits(PjCollected(col), PjLimits)
<1>1. col.prefix \in PjTexts /\ col.anchors \in PjTexts /\ col.tail \in PjTexts
  BY DEF PjCollectors
<1>2. PjSelection(col) \in PjTexts /\ PjFits(PjSelection(col), PjLimits)
  <2> DEFINE a == PjSeparated(col.prefix)
             b == PjSeparated(col.anchors)
             c == PjSeparated(col.tail)
             text == a \o PjMarker \o <<"n">> \o b \o PjMarker \o <<"n">> \o c
             cut == PjFitting(text, PjLimits)
  <2>1. a \in PjTexts /\ b \in PjTexts /\ c \in PjTexts
    BY <1>1, SeparatedText
  <2>2. PjSelection(col) = IF PjFits(text, PjLimits) THEN text ELSE PjMarked(cut)
    BY DEF PjSelection
  <2> HIDE DEF a, b, c
  <2>3. text \in PjTexts
    <3>1. PjMarker \in PjTexts /\ <<"n">> \in PjTexts
      BY MarkerFits DEF PjTexts
    <3>2. \A x, y \in PjTexts : x \o y \in PjTexts
      BY DEF PjTexts
    <3> QED
      BY <2>1, <3>1, <3>2
  <2> HIDE DEF text
  <2>4. cut \in PjTexts
    BY <2>3, FittingFits, OwnLimits
  <2> HIDE DEF cut
  <2>5. PjMarked(cut) \in PjTexts /\ PjFits(PjMarked(cut), PjLimits)
    BY <2>4, MarkedFits
  <2> QED
    BY <2>2, <2>3, <2>5
<1>3. PjMarked(col.prefix) \in PjTexts /\ PjFits(PjMarked(col.prefix), PjLimits)
  BY <1>1, MarkedFits
<1> QED
  BY <1>1, <1>2, <1>3 DEF PjCollected

-----------------------------------------------------------------------------
PjCounts == pjRepeat.count <= pjRecords /\ pjProgress.count <= pjRecords
PjInv == RdInv /\ PjTypeOK /\ PjCounts /\ PjColOK(pjCol) /\ ProjectionFits

LEMMA PjCarriageInv ==
    ASSUME PjInv, NEW content \in PjContents, PjCarriage(content)
    PROVE  PjInv'
<1>1. /\ pjRecords < PjMaxRecords /\ pjRecords' = pjRecords + 1
      /\ pjProgress' = [first |-> IF pjProgress.count = 0 THEN content ELSE pjProgress.first,
                        last |-> content, count |-> pjProgress.count + 1]
      /\ UNCHANGED <<rdVars, pjEnded, pjRepeat, pjClipped, pjCol, pjText>>
  BY DEF PjCarriage, PjRead
<1>2. RdInv'
  BY <1>1, RdNextInv DEF PjInv
<1>3. /\ pjRecords \in 0..PjMaxRecords /\ pjProgress.count \in 0..PjMaxRecords
      /\ pjProgress.first \in PjPending /\ content \in PjPending
      /\ pjRepeat.count \in 0..PjMaxRecords
      /\ pjRepeat.count <= pjRecords /\ pjProgress.count <= pjRecords /\ PjMaxRecords \in Nat
  BY PjConstants DEF PjInv, PjTypeOK, PjPending, PjCounts
<1>4. /\ pjProgress'.count = pjProgress.count + 1
      /\ pjProgress' \in [first : PjPending, last : PjPending, count : 0..PjMaxRecords]
      /\ pjRecords' \in 0..PjMaxRecords
  BY <1>1, <1>3
<1>5. PjTypeOK'
  BY <1>1, <1>2, <1>4 DEF PjInv, PjTypeOK, RdInv
<1>6. PjCounts'
  BY <1>1, <1>3, <1>4 DEF PjCounts
<1>7. PjColOK(pjCol)' /\ ProjectionFits'
  BY <1>1 DEF PjInv, ProjectionFits
<1> QED
  BY <1>2, <1>5, <1>6, <1>7 DEF PjInv

LEMMA PjNewlineInv ==
    ASSUME PjInv, NEW content \in PjContents, PjNewline(content)
    PROVE  PjInv'
<1> DEFINE repeats == pjProgress.count = 0 /\ pjRepeat.count > 0 /\ pjRepeat.of = content
<1>1. /\ pjRecords < PjMaxRecords /\ pjRecords' = pjRecords + 1
      /\ pjRepeat' = [of |-> content, count |-> IF repeats THEN pjRepeat.count + 1 ELSE 1]
      /\ pjProgress' = PjNoProgress
      /\ pjClipped' = (pjClipped \/ (~repeats /\ PjPendingClipped))
      /\ pjCol' = IF repeats THEN pjCol ELSE PjFlushed
      /\ UNCHANGED <<rdVars, pjEnded, pjText>>
  BY DEF PjNewline, PjRead
<1> HIDE DEF repeats
<1>2. RdInv'
  BY <1>1, RdNextInv DEF PjInv
<1>3. /\ pjRecords \in 0..PjMaxRecords /\ content \in PjPending
      /\ pjRepeat.count \in 0..PjMaxRecords
      /\ pjRepeat.count <= pjRecords /\ PjMaxRecords \in Nat
  BY PjConstants DEF PjInv, PjTypeOK, PjPending, PjCounts
<1>4. /\ pjRepeat' \in [of : PjPending, count : 0..PjMaxRecords]
      /\ pjRepeat'.count <= pjRecords' /\ pjRecords' \in 0..PjMaxRecords
  BY <1>1, <1>3
<1>5. /\ pjProgress' \in [first : PjPending, last : PjPending, count : 0..PjMaxRecords]
      /\ pjProgress'.count <= pjRecords'
  BY <1>1, <1>3 DEF PjNoProgress, PjPending
<1>6. PjColOK(pjCol')
  BY <1>1, FlushedOK DEF PjInv
<1>7. pjCol' \in PjCollectors /\ Len(pjCol'.before) <= PjBefore
  BY <1>6 DEF PjColOK
<1>8. pjClipped' \in BOOLEAN
  BY <1>1
<1>9. PjTypeOK'
  BY <1>1, <1>2, <1>4, <1>5, <1>7, <1>8 DEF PjInv, PjTypeOK, RdInv
<1>10. ProjectionFits'
  BY <1>1 DEF PjInv, ProjectionFits
<1> QED
  BY <1>2, <1>4, <1>5, <1>6, <1>9, <1>10 DEF PjInv, PjCounts

LEMMA PjFinishInv == ASSUME PjInv, PjFinish PROVE PjInv'
<1>1. PICK content \in PjPending :
         LET last == PjRecord(PjRender(content), content.anchor, FALSE)
             col == IF content.len = 0 THEN PjFlushed ELSE PjAdd(PjFlushed, last)
             clipped == pjClipped \/ PjPendingClipped \/ PjIsClipped(content) IN
         /\ pjClipped' = clipped
         /\ pjCol' = [col EXCEPT !.truncated = @ \/ clipped]
         /\ pjText' = PjCollected(pjCol')
  BY DEF PjFinish
<1> DEFINE last == PjRecord(PjRender(content), content.anchor, FALSE)
           col == IF content.len = 0 THEN PjFlushed ELSE PjAdd(PjFlushed, last)
           clipped == pjClipped \/ PjPendingClipped \/ PjIsClipped(content)
<1>2. /\ pjClipped' = clipped /\ pjCol' = [col EXCEPT !.truncated = col.truncated \/ clipped]
      /\ pjText' = PjCollected(pjCol') /\ clipped \in BOOLEAN
  BY <1>1
<1>3. PjColOK(PjFlushed)
  BY FlushedOK DEF PjInv
<1>4. PjColOK(col)
  <2>1. last \in PjRecords
    BY RenderedRecords
  <2> HIDE DEF last
  <2>2. PjColOK(PjAdd(PjFlushed, last))
    BY <1>3, <2>1, AddOK
  <2> QED
    BY <1>3, <2>2
<1> HIDE DEF col, clipped
<1>5. PjColOK(pjCol')
  BY <1>2, <1>4 DEF PjColOK, PjCollectors
<1>6. /\ pjCol' \in PjCollectors /\ Len(pjCol'.before) <= PjBefore
      /\ ~pjCol'.truncated => PjFits(pjCol'.prefix, PjLimits)
  BY <1>5 DEF PjColOK
<1>7. pjText' \in PjTexts /\ PjFits(pjText', PjLimits)
  BY <1>2, <1>6, CollectedFits
<1>8. /\ pjEnded' = TRUE /\ pjRepeat' = PjNoRepeat /\ pjProgress' = PjNoProgress
      /\ UNCHANGED <<rdVars, pjRecords>>
  BY DEF PjFinish
<1>9. RdInv'
  BY <1>8, RdNextInv DEF PjInv
<1>10. /\ pjRepeat' \in [of : PjPending, count : 0..PjMaxRecords]
       /\ pjProgress' \in [first : PjPending, last : PjPending, count : 0..PjMaxRecords]
       /\ pjRepeat'.count = 0 /\ pjProgress'.count = 0
  BY <1>8, PjConstants DEF PjNoRepeat, PjNoProgress, PjPending
<1>11. PjTypeOK'
  BY <1>2, <1>6, <1>7, <1>8, <1>9, <1>10 DEF PjInv, PjTypeOK, RdInv
<1>12. PjCounts'
  <2>1. pjRecords' \in Nat
    BY <1>8, PjConstants DEF PjInv, PjTypeOK
  <2> QED
    BY <1>10, <2>1 DEF PjCounts
<1> QED
  BY <1>5, <1>7, <1>9, <1>11, <1>12 DEF PjInv, ProjectionFits

LEMMA PjInitInv == PjInit => PjInv
<1> SUFFICES ASSUME PjInit PROVE PjInv
  OBVIOUS
<1>1. RdInv
  BY RdInitInv DEF PjInit
<1>2. <<>> \in PjTexts /\ <<>> \in Seq(PjRecords) /\ Len(<<>>) = 0
  BY DEF PjTexts
<1>3. pjCol \in PjCollectors /\ Len(pjCol.before) <= PjBefore /\ pjCol.prefix = <<>> /\ ~pjCol.active
  BY <1>2, PjConstants DEF PjInit, PjCollector, PjCollectors
<1>4. PjFits(<<>>, PjLimits)
  BY NothingFits, OwnLimits
<1>5. /\ pjRepeat \in [of : PjPending, count : 0..PjMaxRecords]
      /\ pjProgress \in [first : PjPending, last : PjPending, count : 0..PjMaxRecords]
      /\ pjRepeat.count = 0 /\ pjProgress.count = 0
  BY PjConstants DEF PjInit, PjNoRepeat, PjNoProgress, PjPending
<1>6. PjTypeOK
  BY <1>1, <1>2, <1>3, <1>5, PjConstants DEF PjInit, PjTypeOK, RdInv
<1>7. PjColOK(pjCol) /\ ProjectionFits
  BY <1>3, <1>4 DEF PjColOK, ProjectionFits, PjInit
<1> QED
  BY <1>1, <1>5, <1>6, <1>7 DEF PjInv, PjCounts, PjInit

LEMMA PjNextInv == PjInv /\ [PjNext]_pjVars => PjInv'
<1> SUFFICES ASSUME PjInv, [PjNext]_pjVars PROVE PjInv'
  OBVIOUS
<1>1. CASE RdNext /\ UNCHANGED <<pjEnded, pjNormalizer, pjCol, pjText>>
  <2>1. RdInv'
    BY <1>1, RdNextInv DEF PjInv
  <2>2. UNCHANGED <<pjEnded, pjRecords, pjRepeat, pjProgress, pjClipped, pjCol, pjText>>
    BY <1>1 DEF pjNormalizer
  <2>3. PjTypeOK'
    BY <2>1, <2>2 DEF PjInv, PjTypeOK, RdInv
  <2> QED
    BY <2>1, <2>2, <2>3 DEF PjInv, PjCounts, ProjectionFits
<1>2. CASE UNCHANGED pjVars
  <2>1. UNCHANGED rdVars
    BY <1>2 DEF pjVars
  <2>2. RdInv'
    BY <2>1, RdNextInv DEF PjInv
  <2>3. UNCHANGED <<pjEnded, pjRecords, pjRepeat, pjProgress, pjClipped, pjCol, pjText>>
    BY <1>2 DEF pjVars, pjNormalizer
  <2>4. PjTypeOK'
    BY <2>2, <2>3 DEF PjInv, PjTypeOK, RdInv
  <2> QED
    BY <2>2, <2>3, <2>4 DEF PjInv, PjCounts, ProjectionFits
<1> QED
  BY <1>1, <1>2, PjCarriageInv, PjNewlineInv, PjFinishInv DEF PjNext, PjReturned

(* The inductive invariant of the projection: the redactor's, the types,   *)
(* the counts of pending records, and a collector that fits while it is    *)
(* not truncated.                                                          *)
THEOREM PjInvariance == PjSpec => []PjInv
  BY PjInitInv, PjNextInv, PTL DEF PjSpec

(* project_bytes returns a text within its byte, line and token limits,    *)
(* for every limit, input and context size.                                *)
THEOREM ProjectionIsBounded == PjSpec => []ProjectionFits
<1>1. PjInv => ProjectionFits
  BY DEF PjInv
<1> QED
  BY <1>1, PjInvariance, PTL

(* The redactor keeps its promise inside project_bytes.                    *)
THEOREM ProjectionRedacts == PjSpec => []RedactionIsComplete
<1>1. PjInv => RedactionIsComplete
  BY RdInvRedacts DEF PjInv
<1> QED
  BY <1>1, PjInvariance, PTL

(* The variables of the projection keep their types.                       *)
THEOREM PjTyping == PjSpec => []PjTypeOK
<1>1. PjInv => PjTypeOK
  BY DEF PjInv
<1> QED
  BY <1>1, PjInvariance, PTL

=============================================================================
