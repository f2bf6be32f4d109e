------------------------ MODULE OrderedBarrierProofs ------------------------
(***************************************************************************)
(* With the callers of a simulation the barrier never wedges, what it      *)
(* returns is a function of the workload, and it implements the abstract   *)
(* barrier, for any number of nodes, any limit and any number of quanta.   *)
(*                                                                         *)
(* The invariant ties the DONEs taken to the quantum each node reports     *)
(* next: a node's DONE is taken exactly once for each quantum it has       *)
(* finished, with the batch its workload admits.                           *)
(***************************************************************************)
EXTENDS OrderedBarrier, QuantumBarrierProofs

\* The provers of a leaf that names none, and the time they get.
USE SMTT(30), Zenon

-----------------------------------------------------------------------------
\* The empty sequence is the only one without elements.
LEMMA EmptySeq ==
    ASSUME NEW S
    PROVE  /\ <<>> \in Seq(S) /\ Len(<<>>) = 0
           /\ \A s \in Seq(S) : s # <<>> => Len(s) \in Nat \ {0}
OBVIOUS

\* The empty sequence adds nothing.
LEMMA ConcatEmptySeq ==
    ASSUME NEW S, NEW s \in Seq(S)
    PROVE  s \o <<>> = s /\ <<>> \o s = s
OBVIOUS

\* Three sequences are joined alike from either side.
LEMMA ConcatAssociative ==
    ASSUME NEW S, NEW s \in Seq(S), NEW t \in Seq(S), NEW u \in Seq(S)
    PROVE  (s \o t) \o u = s \o (t \o u)
OBVIOUS

\* The positions of s whose element does not come after e.
UpTo(s, e) == {m \in DOMAIN s : ~Before(e, s[m])}

\* The positions up to an element can be counted.
LEMMA UpToIsFinite ==
    ASSUME NEW s \in Seq(Message), NEW e \in Message
    PROVE  IsFiniteSet(UpTo(s, e)) /\ Cardinality(UpTo(s, e)) \in Nat
<1>3. IsFiniteSet(UpTo(s, e))
    BY FS_Interval, FS_Subset DEF UpTo
<1> QED  BY <1>3, FS_CardinalityType

\* The rank of a position counts at most the positions up to its element ...
LEMMA RankAtMostUpTo ==
    ASSUME NEW s \in Seq(Message), NEW i \in DOMAIN s
    PROVE  Rank(s, i) <= Cardinality(UpTo(s, s[i]))
<1>4. Cardinality(Preceding(s, i) \cup {i}) = Rank(s, i)
  <2>1. /\ IsFiniteSet(Preceding(s, i))
        /\ Rank(s, i) = Cardinality(Preceding(s, i)) + 1
    BY RankInDomain
  <2> QED BY SortsBeforeIsStrictTotalOrder, <2>1, FS_AddElement, Zenon DEF Preceding
<1> QED BY BeforeIsStrictTotalOrder, <1>4, UpToIsFinite, FS_Subset DEF UpTo, Preceding, SortsBefore

\* ... and at least the positions up to any element that comes before its own.
LEMMA RankBeyondUpTo ==
    ASSUME NEW t \in Seq(Message), NEW j \in DOMAIN t, NEW e \in Message,
           Before(e, t[j])
    PROVE  Cardinality(UpTo(t, e)) < Rank(t, j)
<1>2. /\ IsFiniteSet(Preceding(t, j))
      /\ Cardinality(Preceding(t, j)) \in Nat
      /\ Rank(t, j) = Cardinality(Preceding(t, j)) + 1
  BY RankInDomain
<1> QED BY <1>2, BeforeIsStrictTotalOrder, FS_Subset, UpToIsFinite DEF UpTo, Preceding, SortsBefore

\* Rearranging a sequence moves positions around and changes no count.
LEMMA UpToOfRearrangement ==
    ASSUME NEW s \in Seq(Message), NEW t \in Seq(Message), Rearranges(t, s),
           NEW e \in Message
    PROVE  Cardinality(UpTo(t, e)) = Cardinality(UpTo(s, e))
<1>2. PICK p \in [DOMAIN s -> DOMAIN s] :
        /\ \A i, j \in DOMAIN s : p[i] = p[j] => i = j
        /\ \A i \in DOMAIN s : t[i] = s[p[i]]
  BY Zenon DEF Rearranges
<1>4. p \in Surjection(DOMAIN s, DOMAIN s)
  <2>1. p \in Injection(DOMAIN s, DOMAIN s)
    BY <1>2 DEF Injection, IsInjective
  <2> QED BY FS_Interval, <2>1, FS_Injection
<1> DEFINE q == [i \in UpTo(t, e) |-> p[i]]
<1>5. q \in Injection(UpTo(t, e), UpTo(s, e))
  <2> QED BY <1>2 DEF Injection, IsInjective, UpTo, Rearranges
<1>6. q \in Surjection(UpTo(t, e), UpTo(s, e))
  <2>1. ASSUME NEW m \in UpTo(s, e)
        PROVE  \E i \in UpTo(t, e) : q[i] = m
      BY <1>4, <1>2 DEF UpTo, Surjection, Rearranges
  <2>2. q \in [UpTo(t, e) -> UpTo(s, e)]
    BY <1>5 DEF Injection
  <2> QED  BY <2>1, <2>2 DEF Surjection
<1>7. ExistsBijection(UpTo(t, e), UpTo(s, e))
  <2> HIDE DEF q
  <2> QED  BY <1>5, <1>6 DEF ExistsBijection, Bijection
<1> QED BY <1>7, UpToIsFinite, FS_Bijection

\* Whatever order the messages of a quantum arrive in, they are released in the
\* same one: sorting forgets how its input was arranged.
THEOREM SortForgetsArrangement ==
    ASSUME NEW s \in Seq(Message), NEW t \in Seq(Message), Rearranges(t, s)
    PROVE  Sort(t) = Sort(s)
<1>1. /\ DOMAIN s = 1 .. Len(s) /\ Len(s) \in Nat
      /\ DOMAIN t = 1 .. Len(t) /\ Len(t) \in Nat
      /\ DOMAIN t = DOMAIN s
  BY DEF Rearranges
<1>2. ASSUME NEW k \in DOMAIN s
      PROVE  Sort(t)[k] = Sort(s)[k]
  <2> DEFINE i == CHOOSE m \in DOMAIN s : Rank(s, m) = k
             j == CHOOSE m \in DOMAIN t : Rank(t, m) = k
  <2>1. i \in DOMAIN s /\ Rank(s, i) = k
    BY RankIsBijection
  <2>2. j \in DOMAIN t /\ Rank(t, j) = k
    BY <1>1, RankIsBijection, Zenon
  <2>3. Sort(s)[k] = s[i] /\ Sort(t)[k] = t[j]
    BY <1>1 DEF Sort
  <2> HIDE DEF i, j
  <2>4. s[i] \in Message /\ t[j] \in Message
    BY <2>1, <2>2
  <2>6. ~Before(s[i], t[j])
    <3>4. Cardinality(UpTo(s, s[i])) \in Nat
      BY <2>4, UpToIsFinite, Zenon
    <3> QED BY <1>1, <2>1, RankAtMostUpTo, <2>4, UpToOfRearrangement, <2>2, RankBeyondUpTo, <3>4
  <2>7. ~Before(t[j], s[i])
    <3>4. Cardinality(UpTo(s, t[j])) \in Nat
      BY <2>4, UpToIsFinite, Zenon
    <3> QED BY <1>1, <2>2, RankAtMostUpTo, <2>4, UpToOfRearrangement, <2>1, RankBeyondUpTo, <3>4
  <2> QED  BY <2>3, <2>4, <2>6, <2>7, BeforeIsStrictTotalOrder
<1>3. /\ Sort(s) \in [DOMAIN s -> Message]
      /\ Sort(t) \in [DOMAIN s -> Message]
    BY SortIsSortedRearrangement, <1>1
<1> QED  BY <1>2, <1>3

\* Every sequence rearranges itself.
LEMMA RearrangesItself ==
    ASSUME NEW s \in Seq(Message)
    PROVE  Rearranges(s, s)
<1> DEFINE p == [i \in DOMAIN s |-> i]
<1>1. p \in [DOMAIN s -> DOMAIN s] /\ \A i \in DOMAIN s : p[i] = i
  OBVIOUS
<1> HIDE DEF p
<1> QED BY <1>1 DEF Rearranges

\* A rearrangement of a rearrangement is one.
LEMMA RearrangesTransitive ==
    ASSUME NEW s, NEW t, NEW u, Rearranges(t, s), Rearranges(u, t)
    PROVE  Rearranges(u, s)
<1>1. PICK p \in [DOMAIN s -> DOMAIN s] :
         /\ \A i, j \in DOMAIN s : p[i] = p[j] => i = j
         /\ \A i \in DOMAIN s : t[i] = s[p[i]]
  BY DEF Rearranges
<1>2. PICK q \in [DOMAIN t -> DOMAIN t] :
         /\ \A i, j \in DOMAIN t : q[i] = q[j] => i = j
         /\ \A i \in DOMAIN t : u[i] = t[q[i]]
  BY DEF Rearranges
<1>3. DOMAIN t = DOMAIN s /\ DOMAIN u = DOMAIN s
  BY DEF Rearranges
<1> DEFINE r == [i \in DOMAIN s |-> p[q[i]]]
<1>4. r \in [DOMAIN s -> DOMAIN s] /\ \A i \in DOMAIN s : r[i] = p[q[i]] /\ q[i] \in DOMAIN s
  BY <1>1, <1>2, <1>3
<1> HIDE DEF r
<1>5. \A i, j \in DOMAIN s : r[i] = r[j] => i = j
  BY <1>1, <1>2, <1>3, <1>4
<1>6. \A i \in DOMAIN s : u[i] = s[r[i]]
  BY <1>1, <1>2, <1>3, <1>4
<1> QED  BY <1>3, <1>4, <1>5, <1>6, Zenon DEF Rearranges

\* The same of two sequences made of a part of length m and one of length n ...
Swapped(a, b, m, n) ==
    /\ DOMAIN a = 1 .. m + n /\ DOMAIN b = 1 .. m + n
    /\ \A i \in 1 .. m : a[i] = b[n + i]
    /\ \A i \in 1 .. n : a[m + i] = b[i]

\* A permutation that leads from one to the other.
LEMMA ByPermutation ==
    ASSUME NEW D, NEW a, NEW b, DOMAIN a = D, DOMAIN b = D, NEW p \in [D -> D],
           \A i, j \in D : p[i] = p[j] => i = j,
           \A i \in D : a[i] = b[p[i]]
    PROVE  Rearranges(a, b)
BY DEF Rearranges

\* The order of two parts does not matter.
LEMMA SwappedParts ==
    ASSUME NEW m \in Nat, NEW n \in Nat, NEW a, NEW b, Swapped(a, b, m, n)
    PROVE  Rearranges(a, b)
<1> DEFINE to(i) == IF i <= m THEN n + i ELSE i - m
           p == [i \in 1 .. m + n |-> to(i)]
<1>1. \A i \in 1 .. m + n : to(i) \in 1 .. m + n
  OBVIOUS
<1>2. \A i, j \in 1 .. m + n : to(i) = to(j) => i = j
  OBVIOUS
<1>3. ASSUME NEW i \in 1 .. m + n
      PROVE  a[i] = b[to(i)]
    BY DEF Swapped
<1> HIDE DEF to
<1>4. p \in [1 .. m + n -> 1 .. m + n]
  BY <1>1
<1>5. \A i \in 1 .. m + n : p[i] = to(i)
  OBVIOUS
<1> HIDE DEF p
<1> DEFINE D == 1 .. m + n
<1> HIDE DEF D
<1> QED BY <1>4, <1>2, <1>5, <1>3, ByPermutation DEF Swapped

\* ... and of two that differ in their first part.
SameBut(a, b, t, s, m, n) ==
    /\ DOMAIN a = 1 .. m + n /\ DOMAIN b = 1 .. m + n /\ DOMAIN s = 1 .. m
    /\ \A i \in 1 .. m : a[i] = t[i] /\ b[i] = s[i]
    /\ \A i \in 1 .. n : a[m + i] = b[m + i]

\* The first part may be rearranged on its own.
LEMMA RearrangedPart ==
    ASSUME NEW m \in Nat, NEW n \in Nat, NEW a, NEW b, NEW s, NEW t,
           SameBut(a, b, t, s, m, n), Rearranges(t, s)
    PROVE  Rearranges(a, b)
<1>0. /\ DOMAIN a = 1 .. m + n /\ DOMAIN b = 1 .. m + n /\ DOMAIN s = 1 .. m
      /\ \A i \in 1 .. m : a[i] = t[i] /\ b[i] = s[i]
      /\ \A i \in 1 .. n : a[m + i] = b[m + i]
  BY DEF SameBut
<1>1. PICK q \in [DOMAIN s -> DOMAIN s] :
         /\ \A i, j \in DOMAIN s : q[i] = q[j] => i = j
         /\ \A i \in DOMAIN s : t[i] = s[q[i]]
  BY DEF Rearranges
<1>2. /\ \A i \in 1 .. m : q[i] \in 1 .. m
      /\ \A i, j \in 1 .. m : q[i] = q[j] => i = j
      /\ \A i \in 1 .. m : a[i] = b[q[i]]
  BY <1>0, <1>1, Zenon
<1> DEFINE to(i) == IF i \in 1 .. m THEN q[i] ELSE i
           p == [i \in 1 .. m + n |-> to(i)]
<1>4. \A i \in 1 .. m + n : to(i) \in 1 .. m + n
    BY <1>2
<1>5. \A i, j \in 1 .. m + n : to(i) = to(j) => i = j
  BY <1>2
<1>6. ASSUME NEW i \in 1 .. m + n
      PROVE  a[i] = b[to(i)]
  <2>1. CASE i \in 1 .. m
    BY <1>2, <2>1
  <2>2. CASE i \notin 1 .. m
    <3>1. to(i) = i /\ i - m \in 1 .. n /\ m + (i - m) = i
      BY <2>2
    <3> QED  BY <1>0, <3>1, Zenon
  <2> QED  BY <2>1, <2>2
<1> HIDE DEF to
<1>7. p \in [1 .. m + n -> 1 .. m + n]
  BY <1>4
<1>8. \A i \in 1 .. m + n : p[i] = to(i)
  OBVIOUS
<1> HIDE DEF p
<1>10. \A i \in 1 .. m + n : a[i] = b[p[i]]
  BY <1>6, <1>8
<1> DEFINE D == 1 .. m + n
<1>11. /\ DOMAIN a = D /\ DOMAIN b = D /\ p \in [D -> D]
       /\ \A i, j \in D : p[i] = p[j] => i = j
       /\ \A i \in D : a[i] = b[p[i]]
    BY <1>0, <1>7, <1>5, <1>8, <1>10
<1> HIDE DEF D
<1> QED  BY <1>11, ByPermutation

\* Two parts joined in either order give the same messages.
LEMMA JoinedSwap ==
    ASSUME NEW s, NEW t, NEW a, NEW b, Joined(a, s, t), Joined(b, t, s)
    PROVE  Rearranges(a, b)
<1>6. Swapped(a, b, Len(s), Len(t))
    BY DEF Swapped, Joined
<1> QED BY <1>6, SwappedParts DEF Joined

\* Rearranging the first of two joined parts rearranges the whole.
LEMMA JoinedFront ==
    ASSUME NEW s, NEW t, NEW u, NEW a, NEW b, Joined(a, t, u), Joined(b, s, u), Rearranges(t, s)
    PROVE  Rearranges(a, b)
<1>1. Len(s) \in Nat /\ Len(t) \in Nat /\ Len(u) \in Nat /\ DOMAIN s = 1 .. Len(s)
  BY DEF Joined
<1>2. Len(t) = Len(s)
  <2>1. 1 .. Len(t) = 1 .. Len(s)
    BY Zenon DEF Joined, Rearranges
  <2> QED  BY <1>1, <2>1
<1>6. SameBut(a, b, t, s, Len(s), Len(u))
    BY <1>1, <1>2 DEF SameBut, Joined
<1> QED  BY <1>1, <1>6, RearrangedPart

\* The same of concatenations: the order of two parts does not matter ...
LEMMA RearrangesSwap ==
    ASSUME NEW s \in Seq(Message), NEW t \in Seq(Message)
    PROVE  Rearranges(s \o t, t \o s)
BY ConcatIsJoined, JoinedSwap

\* ... and the first part may be rearranged by itself.
LEMMA RearrangesFront ==
    ASSUME NEW s \in Seq(Message), NEW t \in Seq(Message), NEW u \in Seq(Message),
           Rearranges(t, s)
    PROVE  Rearranges(t \o u, s \o u)
BY ConcatIsJoined, JoinedFront

\* Two parts that follow a third may change places.
LEMMA RearrangesBack ==
    ASSUME NEW s \in Seq(Message), NEW t \in Seq(Message), NEW u \in Seq(Message)
    PROVE  Rearranges((s \o t) \o u, (s \o u) \o t)
<1>2. (s \o t) \o u = s \o (t \o u)
  BY ConcatAssociative
<1>7. (s \o u) \o t = s \o (u \o t)
  BY ConcatAssociative
<1>4. Rearranges((t \o u) \o s, (u \o t) \o s)
  <2> QED BY ConcatProperties, RearrangesSwap, RearrangesFront, Zenon
<1> QED BY <1>2, <1>7, ConcatProperties, RearrangesSwap, <1>4, RearrangesTransitive, Zenon

-----------------------------------------------------------------------------
\* f is the row of growing prefixes b[0], b[0] \o b[1], ... up to length m.
IsLine(f, b, m) ==
    /\ f \in [0 .. m -> Seq(Message)]
    /\ f[0] = <<>>
    /\ \A n \in 1 .. m : f[n] = f[n - 1] \o b[n - 1]

\* The batches of all nodes one after the other: Collected with the batches as
\* a parameter.
Lined(b) ==
    LET upTo[n \in 0 .. N] ==
            IF n = 0 THEN <<>>
                     ELSE upTo[n - 1] \o b[n - 1]
    IN  upTo[N]

\* One node more.
LEMMA LineStep ==
    ASSUME NEW b, NEW m \in Nat, NEW f, IsLine(f, b, m), b[m] \in Seq(Message)
    PROVE  \E g : IsLine(g, b, m + 1)
<1> DEFINE last == f[m] \o b[m]
           g == [n \in 0 .. m + 1 |-> IF n \in 0 .. m THEN f[n] ELSE last]
<1>1. /\ f \in [0 .. m -> Seq(Message)] /\ f[0] = <<>>
      /\ \A n \in 1 .. m : f[n] = f[n - 1] \o b[n - 1]
  BY Zenon DEF IsLine
<1>3. last \in Seq(Message)
    BY <1>1, ConcatProperties
<1>4. last = f[m] \o b[m]
  OBVIOUS
<1> HIDE DEF last
<1>5. g \in [0 .. m + 1 -> Seq(Message)]
  BY <1>1, <1>3
<1>6. g[0] = <<>> /\ g[m + 1] = last /\ g[m] = f[m] /\ \A n \in 0 .. m : g[n] = f[n]
  BY <1>1
<1> HIDE DEF g
<1>7. ASSUME NEW n \in 1 .. m + 1
      PROVE  g[n] = g[n - 1] \o b[n - 1]
  <2>1. CASE n \in 1 .. m
    <3>1. g[n] = f[n] /\ g[n - 1] = f[n - 1]
      BY <1>6, <2>1
    <3> QED  BY <1>1, <2>1, <3>1, Zenon
  <2>2. CASE n = m + 1
    <3>1. n - 1 = m
      BY <2>2
    <3> QED BY <2>2, <3>1, <1>4, <1>6, Zenon
  <2>3. n \in 1 .. m \/ n = m + 1
    OBVIOUS
  <2> QED  BY <2>1, <2>2, <2>3, Zenon
<1> QED  BY <1>5, <1>6, <1>7, Zenon DEF IsLine

\* The row exists.
LEMMA LineExists ==
    ASSUME NEW b \in [Nodes -> Seq(Message)]
    PROVE  \E f : IsLine(f, b, N)
<1> DEFINE G == {m \in Nat : m <= N => \E f : IsLine(f, b, m)}
<1>1. 0 \in G
  <2> DEFINE f == [n \in 0 .. 0 |-> <<>>]
  <2>1. IsLine(f, b, 0)
    BY DEF IsLine
  <2> QED  BY <2>1
<1>2. ASSUME NEW m \in Nat, m \in G
      PROVE  m + 1 \in G
  <2>1. SUFFICES ASSUME m + 1 <= N
                 PROVE  \E f : IsLine(f, b, m + 1)
    OBVIOUS
  <2>3. PICK f : IsLine(f, b, m)
      BY <1>2, <2>1, BarrierAssumption DEF Nodes
  <2>4. b[m] \in Seq(Message)
      BY <2>1, BarrierAssumption DEF Nodes
  <2> QED  BY <2>3, <2>4, LineStep
<1> HIDE DEF G
<1>3. N \in G
  <2> QED BY <1>1, <1>2, BarrierAssumption, SetInduction
<1> QED  BY <1>3 DEF G

\* A recursive function of this form is the row.
LEMMA LineFromRecursion ==
    ASSUME NEW b, NEW f, f = [n \in 0 .. N |-> IF n = 0 THEN <<>> ELSE f[n - 1] \o b[n - 1]],
           NEW g, IsLine(g, b, N)
    PROVE  f[N] = g[N]
<1> DEFINE G == {m \in Nat : m <= N => f[m] = g[m]}
<1>0. N \in Nat
  BY BarrierAssumption
<1>1. 0 \in G
  BY <1>0 DEF IsLine
<1>2. ASSUME NEW m \in Nat, m \in G
      PROVE  m + 1 \in G
  <2>1. SUFFICES ASSUME m + 1 <= N
                 PROVE  f[m + 1] = g[m + 1]
    OBVIOUS
  <2>2. m + 1 \in 1 .. N /\ m <= N /\ (m + 1) - 1 = m /\ m + 1 \in 0 .. N /\ m + 1 # 0
    BY <1>0, <2>1
  <2>4. g[m + 1] = g[m] \o b[m]
    BY <2>2, Zenon DEF IsLine
  <2> QED BY <1>2, <2>2, <2>4, Zenon
<1> HIDE DEF G
<1>3. N \in G
  BY <1>0, <1>1, <1>2, SetInduction
<1> QED  BY <1>0, <1>3 DEF G

\* The row satisfies the recursion.
LEMMA LineIsFixpoint ==
    ASSUME NEW b, NEW g, IsLine(g, b, N)
    PROVE  g = [n \in 0 .. N |-> IF n = 0 THEN <<>> ELSE g[n - 1] \o b[n - 1]]
<1>1. /\ g \in [0 .. N -> Seq(Message)] /\ g[0] = <<>>
      /\ \A n \in 1 .. N : g[n] = g[n - 1] \o b[n - 1]
  BY Zenon DEF IsLine
<1>3. ASSUME NEW n \in 0 .. N
      PROVE  g[n] = IF n = 0 THEN <<>> ELSE g[n - 1] \o b[n - 1]
  <2>1. CASE n = 0
    BY <1>1, <2>1
  <2>2. CASE n # 0
    <3>1. n \in 1 .. N
        BY BarrierAssumption, <2>2
    <3> QED  BY <1>1, <2>2, <3>1, Zenon
  <2> QED  BY <2>1, <2>2
<1> QED  BY <1>1, <1>3, Zenon

\* So the recursion computes its last element.
LEMMA LinedIsLast ==
    ASSUME NEW b \in [Nodes -> Seq(Message)]
    PROVE  \E f : IsLine(f, b, N) /\ Lined(b) = f[N]
<1> DEFINE R(f) == [n \in 0 .. N |-> IF n = 0 THEN <<>> ELSE f[n - 1] \o b[n - 1]]
           up == CHOOSE f : f = R(f)
<1>1. Lined(b) = up[N]
  BY DEF Lined
<1>2. PICK g : IsLine(g, b, N)
  BY LineExists
<1>3. g = R(g)
  BY <1>2, LineIsFixpoint, Zenon
<1>4. up = R(up)
  BY <1>3, Zenon
<1> HIDE DEF up
<1>5. up[N] = g[N]
  BY <1>2, <1>4, LineFromRecursion, Zenon
<1> QED  BY <1>1, <1>2, <1>5

\* The batches in a row are a sequence of messages.
LEMMA LinedType ==
    ASSUME NEW b \in [Nodes -> Seq(Message)]
    PROVE  Lined(b) \in Seq(Message)
<1>1. PICK f : IsLine(f, b, N) /\ Lined(b) = f[N]
  BY LinedIsLast
<1> QED BY <1>1, BarrierAssumption DEF IsLine

\* Nothing from anyone.
LEMMA LinedEmpty ==
    ASSUME NEW b \in [Nodes -> Seq(Message)], \A n \in Nodes : b[n] = <<>>
    PROVE  Lined(b) = <<>>
<1>1. PICK f : IsLine(f, b, N) /\ Lined(b) = f[N]
  BY LinedIsLast
<1> DEFINE G == {m \in Nat : m <= N => f[m] = <<>>}
<1>2. N \in Nat
  BY BarrierAssumption
<1>3. 0 \in G
  BY <1>1 DEF IsLine
<1>4. ASSUME NEW m \in Nat, m \in G
      PROVE  m + 1 \in G
  <2>1. SUFFICES ASSUME m + 1 <= N
                 PROVE  f[m + 1] = <<>>
    OBVIOUS
  <2>2. m + 1 \in 1 .. N /\ m <= N /\ (m + 1) - 1 = m /\ m \in Nodes
    BY <1>2, <2>1 DEF Nodes
  <2>4. f[m + 1] = f[m] \o b[m]
    BY <1>1, <2>2, Zenon DEF IsLine
  <2> QED BY <1>4, <2>2, <2>4
<1> HIDE DEF G
<1>5. N \in G
  BY <1>2, <1>3, <1>4, SetInduction
<1> QED  BY <1>1, <1>2, <1>5 DEF G

\* A batch that joins at the end is, up to rearrangement, one that the
\* sequential coordinator would have collected in its place.
LEMMA LinedWithOneMore ==
    ASSUME NEW b \in [Nodes -> Seq(Message)], NEW x \in Nodes, b[x] = <<>>,
           NEW batch \in Seq(Message)
    PROVE  Rearranges(Lined(b) \o batch, Lined([b EXCEPT ![x] = batch]))
<1> DEFINE c == [b EXCEPT ![x] = batch]
<1>1. /\ c \in [Nodes -> Seq(Message)] /\ c[x] = batch
      /\ \A n \in Nodes : n # x => c[n] = b[n]
  OBVIOUS
<1> HIDE DEF c
<1>2. PICK f : IsLine(f, b, N) /\ Lined(b) = f[N]
  BY LinedIsLast
<1>3. PICK g : IsLine(g, c, N) /\ Lined(c) = g[N]
  BY <1>1, LinedIsLast, Zenon
<1>4. N \in Nat /\ x \in Nat /\ x < N
  BY BarrierAssumption DEF Nodes
<1> DEFINE Early == {m \in Nat : m <= x => f[m] = g[m]}
<1>5. 0 \in Early
  BY <1>2, <1>3 DEF IsLine
<1>6. ASSUME NEW m \in Nat, m \in Early
      PROVE  m + 1 \in Early
  <2>1. SUFFICES ASSUME m + 1 <= x
                 PROVE  f[m + 1] = g[m + 1]
    OBVIOUS
  <2>2. /\ m + 1 \in 1 .. N /\ m <= x /\ (m + 1) - 1 = m /\ m \in Nodes /\ m # x
    BY <1>4, <2>1 DEF Nodes
  <2> QED BY <1>1, <1>6, <2>2, <1>2, <1>3, Zenon DEF IsLine
<1> HIDE DEF Early
<1>7. f[x] = g[x]
  <2>1. x \in Early
    BY <1>4, <1>5, <1>6, SetInduction
  <2> QED  BY <1>4, <2>1 DEF Early
<1>8. \A m \in 0 .. N : f[m] \in Seq(Message) /\ g[m] \in Seq(Message)
  BY <1>2, <1>3, Zenon DEF IsLine
<1> DEFINE Late == {d \in Nat : x + 1 + d <= N =>
                        Rearranges(f[x + 1 + d] \o batch, g[x + 1 + d])}
<1>9. 0 \in Late
  <2>1. /\ x + 1 \in 1 .. N /\ (x + 1) - 1 = x /\ x + 1 + 0 = x + 1
        /\ x \in 0 .. N /\ x + 1 \in 0 .. N
    BY <1>4
  <2>2. f[x + 1] = f[x] \o b[x] /\ g[x + 1] = g[x] \o c[x]
    BY <1>2, <1>3, <2>1, Zenon DEF IsLine
  <2>4. f[x + 1] \o batch = g[x + 1]
      BY <1>1, <1>7, <2>2, <1>8, <2>1, ConcatEmptySeq
  <2> QED BY <2>1, <2>4, <1>8, RearrangesItself, Zenon
<1>10. ASSUME NEW d \in Nat, d \in Late
       PROVE  d + 1 \in Late
  <2> DEFINE m == x + 1 + d
  <2>1. SUFFICES ASSUME m + 1 <= N
                 PROVE  Rearranges(f[m + 1] \o batch, g[m + 1])
      BY <1>4
  <2>2. /\ m \in Nat /\ m <= N /\ m + 1 \in 1 .. N /\ (m + 1) - 1 = m /\ m \in Nodes
        /\ m # x /\ m \in 0 .. N /\ m + 1 \in 0 .. N
    BY <1>4, <2>1 DEF Nodes
  <2>3. Rearranges(f[m] \o batch, g[m])
    BY <1>10, <2>2
  <2> HIDE DEF m
  <2>4. f[m + 1] = f[m] \o b[m] /\ g[m + 1] = g[m] \o b[m]
    <3> QED BY <1>2, <1>3, <2>2, <1>1, Zenon DEF IsLine
  <2> QED
      BY <2>4, <1>8, <2>2, RearrangesBack, <2>3, ConcatProperties, RearrangesFront, RearrangesTransitive,
          Zenon
<1> HIDE DEF Late
<1>11. Rearranges(f[N] \o batch, g[N])
  <2>1. N - (x + 1) \in Nat /\ x + 1 + (N - (x + 1)) = N
    BY <1>4
  <2>2. N - (x + 1) \in Late
    BY <1>9, <1>10, <2>1, SetInduction
  <2> QED  BY <1>4, <2>1, <2>2 DEF Late
<1> QED  BY <1>2, <1>3, <1>11 DEF c

-----------------------------------------------------------------------------
\* The DONEs as a sequential coordinator would find them, node by node.
OnePerNode(dones) ==
    \A a, b \in dones : a.node = b.node /\ a.quantum = b.quantum => a = b
\* The batch of the node's DONE for q, and the batches of all of them.
BatchIn(dones, node, q) ==
    (CHOOSE a \in dones : a.node = node /\ a.quantum = q).batch
Given(dones, q) ==
    [n \in Nodes |-> IF n \in Reporters(dones, q) THEN BatchIn(dones, n, q) ELSE <<>>]

\* A node's DONE is the one that is found.
LEMMA BatchFound ==
    ASSUME NEW dones, OnePerNode(dones), NEW d \in dones
    PROVE  BatchIn(dones, d.node, d.quantum) = d.batch
<1> DEFINE P(a) == a.node = d.node /\ a.quantum = d.quantum
           c == CHOOSE a \in dones : P(a)
<1> HIDE DEF c
<1> QED BY DEF OnePerNode, BatchIn

\* A node that reported a quantum has a DONE for it.
LEMMA ReporterHasDone ==
    ASSUME NEW dones, NEW q, NEW n \in Reporters(dones, q)
    PROVE  \E d \in dones : d.node = n /\ d.quantum = q
BY DEF Reporters, DonesFor

\* What the nodes gave for a quantum is a batch each.
LEMMA GivenType ==
    ASSUME NEW dones \in SUBSET Done, OnePerNode(dones), NEW q
    PROVE  Given(dones, q) \in [Nodes -> Seq(Message)]
BY ReporterHasDone, BatchFound DEF Done, Given

\* One DONE more is one batch more for its quantum ...
LEMMA GivenOwn ==
    ASSUME NEW dones \in SUBSET Done, OnePerNode(dones), NEW q \in Nat,
           NEW node \in Nodes, node \notin Reporters(dones, q),
           NEW batch \in Seq(Message)
    PROVE  /\ Given(dones, q)[node] = <<>>
           /\ Given(WithDone(dones, node, q, batch), q) =
                 [Given(dones, q) EXCEPT ![node] = batch]
<1> DEFINE more == WithDone(dones, node, q, batch)
           rec == [node |-> node, quantum |-> q, batch |-> batch]
<1>2. OnePerNode(more)
  BY StillOnePerNode DEF OnePerNode
<1>3. /\ rec.node = node /\ rec.quantum = q /\ rec.batch = batch
      /\ rec \in more /\ \A d \in dones : d \in more
  BY DEF WithDone
<1>4. Reporters(more, q) = Reporters(dones, q) \cup {node}
  BY OwnQuantumGrows
<1> HIDE DEF more, rec
<1>6. ASSUME NEW n \in Reporters(dones, q)
      PROVE  BatchIn(more, n, q) = BatchIn(dones, n, q)
    BY <1>6, ReporterHasDone, BatchFound, <1>2, <1>3
<1>7. ASSUME NEW n \in Nodes
      PROVE  Given(more, q)[n] = [Given(dones, q) EXCEPT ![node] = batch][n]
    BY <1>4, <1>2, <1>3, BatchFound, <1>6 DEF Given
<1> QED BY <1>7, Zenon DEF more, Given

\* ... and changes no other.
LEMMA GivenOther ==
    ASSUME NEW dones \in SUBSET Done, OnePerNode(dones), NEW q \in Nat,
           NEW node \in Nodes, node \notin Reporters(dones, q),
           NEW batch \in Seq(Message), NEW r, r # q
    PROVE  Given(WithDone(dones, node, q, batch), r) = Given(dones, r)
<1> DEFINE more == WithDone(dones, node, q, batch)
<1>2. OnePerNode(more)
  BY StillOnePerNode DEF OnePerNode
<1>3. \A d \in dones : d \in more
  BY DEF WithDone
<1> HIDE DEF more
<1>6. ASSUME NEW n \in Reporters(dones, r)
      PROVE  BatchIn(more, n, r) = BatchIn(dones, n, r)
    BY <1>6, ReporterHasDone, BatchFound, <1>2, <1>3
<1> QED BY OtherQuantaUntouched, <1>6 DEF more, Given

\* Without a DONE every batch is empty.
LEMMA GivenNothing ==
    ASSUME NEW dones \in SUBSET Done, OnePerNode(dones), NEW q,
           Reporters(dones, q) = {}
    PROVE  Lined(Given(dones, q)) = <<>>
<1>2. \A n \in Nodes : Given(dones, q)[n] = <<>>
  BY DEF Given
<1> QED BY GivenType, <1>2, LinedEmpty

\* Collected asks the nodes in turn for what they gave.
LEMMA CollectedIsGiven ==
    ASSUME accepted \in SUBSET Done, OnePerNode(accepted), NEW q,
           Reporters(accepted, q) = Nodes
    PROVE  Collected(q) = Lined(Given(accepted, q))
<1> DEFINE b == Given(accepted, q)
           R(f) == [n \in 0 .. N |-> IF n = 0 THEN <<>> ELSE f[n - 1] \o b[n - 1]]
           C(f) == [n \in 0 .. N |->
                       IF n = 0 THEN <<>> ELSE f[n - 1] \o BatchOf(n - 1, q)]
           up == CHOOSE f : f = C(f)
<1>1. Collected(q) = up[N]
  BY DEF Collected
<1>2. ASSUME NEW n \in 0 .. N, n # 0
      PROVE  b[n - 1] = BatchOf(n - 1, q)
  <2> QED BY <1>2, BarrierAssumption DEF BatchIn, BatchOf, Given, Nodes
<1>3. b \in [Nodes -> Seq(Message)]
  BY GivenType
<1> HIDE DEF b
<1>4. ASSUME NEW f
      PROVE  C(f) = R(f)
    BY <1>2, Zenon
<1>5. PICK g : IsLine(g, b, N) /\ Lined(b) = g[N]
  BY <1>3, LinedIsLast
<1> HIDE DEF C
<1>8. up = C(up)
    BY <1>4, <1>5, LineIsFixpoint
<1> HIDE DEF up
<1> QED BY <1>1, <1>5, <1>4, <1>8, LineFromRecursion, Zenon DEF b

-----------------------------------------------------------------------------
\* What is inside the barrier, and what it has returned, is up to rearrangement
\* what a sequential coordinator would have collected by now.
CanonicalSoFar ==
    /\ Rearranges(message_buffer, Lined(Given(accepted, current_quantum)))
    /\ Rearranges(next_quantum_buffer, Lined(Given(accepted, current_quantum + 1)))
    /\ \A k \in DOMAIN released :
          released[k] = Sort(Lined(Given(accepted, first + k - 1)))

\* A batch that joins the buffer of its quantum.
LEMMA BufferTakes ==
    ASSUME NEW dones \in SUBSET Done, OnePerNode(dones), NEW q \in Nat,
           NEW node \in Nodes, node \notin Reporters(dones, q),
           NEW batch \in Seq(Message), NEW buf \in Seq(Message),
           Rearranges(buf, Lined(Given(dones, q)))
    PROVE  Rearranges(buf \o batch, Lined(Given(WithDone(dones, node, q, batch), q)))
<1> DEFINE b == Given(dones, q)
           c == [b EXCEPT ![node] = batch]
<1>1. b \in [Nodes -> Seq(Message)]
  BY GivenType
<1>2. b[node] = <<>> /\ Given(WithDone(dones, node, q, batch), q) = c
  BY GivenOwn
<1>3. Rearranges(buf, Lined(b))
  OBVIOUS
<1> HIDE DEF b
<1> QED
    BY <1>2, <1>1, LinedWithOneMore, <1>3, LinedType, RearrangesFront, RearrangesTransitive, Zenon

\* The quanta returned earlier keep their batches.
LEMMA ReturnedStays ==
    ASSUME BarrierInv, CanonicalSoFar, NEW node \in Nodes, NEW batch \in Seq(Message),
           NEW q \in Nat, q >= current_quantum, node \notin Reporters(accepted, q)
    PROVE  \A k \in DOMAIN released :
              released[k] = Sort(Lined(Given(WithDone(accepted, node, q, batch), first + k - 1)))
<1> TAKE k \in DOMAIN released
<1>1. /\ first \in Nat /\ current_quantum \in Nat /\ Len(released) \in Nat
      /\ k \in 1 .. Len(released) /\ accepted \in SUBSET Done
  BY DEF BarrierInv, TypeOK
<1>2. current_quantum = first + Len(released) /\ OnePerNode(accepted)
  BY DEF BarrierInv, ReleaseIsComplete, OnePerNode
<1>3. first + k - 1 # q
  BY <1>1, <1>2
<1>4. Given(WithDone(accepted, node, q, batch), first + k - 1) = Given(accepted, first + k - 1)
  BY <1>1, <1>2, <1>3, GivenOther
<1> QED BY <1>4 DEF CanonicalSoFar

\* QuantumBarrier::new, set_quantum and reset leave empty buffers.
LEMMA EmptyIsCanonical ==
    ASSUME NEW dones, dones = {}, NEW q
    PROVE  Rearranges(<<>>, Lined(Given(dones, q)))
<1>3. Rearranges(<<>>, <<>>)
  <2>1. <<>> \in Seq(Message)
    OBVIOUS
  <2> QED  BY <2>1, RearrangesItself, Zenon
<1> QED BY NoDones, GivenNothing, <1>3 DEF OnePerNode

\* A DONE kept aside for the next quantum.
LEMMA LookaheadKeepsCanonical ==
    ASSUME BarrierInv, CanonicalSoFar, NEW node \in Nat, NEW q \in Nat,
           NEW batch \in Seq(Message), SubmitLookahead(node, q, batch)
    PROVE  CanonicalSoFar'
<1>1. /\ node \in Nodes /\ q = current_quantum + 1 /\ current_quantum \in Nat
      /\ q >= current_quantum /\ q # current_quantum
      /\ accepted \in SUBSET Done /\ next_quantum_buffer \in Seq(Message)
  BY BarrierAssumption DEF SubmitLookahead, Nodes, BarrierInv, TypeOK
<1>2. node \notin Reporters(accepted, q)
  BY <1>1 DEF SubmitLookahead, BarrierInv, BuffersHoldAccepted
<1>3. OnePerNode(accepted)
  BY DEF BarrierInv, ReleaseIsComplete, OnePerNode
<1> DEFINE more == WithDone(accepted, node, q, batch)
<1>4. Rearranges(next_quantum_buffer \o batch, Lined(Given(more, q)))
  BY <1>1, <1>2, <1>3, BufferTakes DEF CanonicalSoFar
<1>5. Rearranges(message_buffer, Lined(Given(more, current_quantum)))
    BY <1>1, <1>2, <1>3, GivenOther DEF CanonicalSoFar
<1>6. \A k \in DOMAIN released : released[k] = Sort(Lined(Given(more, first + k - 1)))
  BY <1>1, <1>2, ReturnedStays
<1>7. /\ accepted' = more /\ next_quantum_buffer' = next_quantum_buffer \o batch
      /\ UNCHANGED <<message_buffer, current_quantum, released, first>>
  BY DEF SubmitLookahead
<1> HIDE DEF more
<1> QED  BY <1>1, <1>4, <1>5, <1>6, <1>7 DEF CanonicalSoFar

\* A DONE for the current quantum that leaves other nodes to wait for.
LEMMA PartialKeepsCanonical ==
    ASSUME BarrierInv, CanonicalSoFar, NEW node \in Nat, NEW q \in Nat,
           NEW batch \in Seq(Message), SubmitPartial(node, q, batch)
    PROVE  CanonicalSoFar'
<1>1. /\ node \in Nodes /\ q = current_quantum /\ current_quantum \in Nat
      /\ q >= current_quantum /\ current_quantum + 1 # q
      /\ accepted \in SUBSET Done /\ message_buffer \in Seq(Message)
  BY BarrierAssumption DEF SubmitPartial, Nodes, BarrierInv, TypeOK
<1>2. node \notin Reporters(accepted, q)
  BY <1>1 DEF SubmitPartial, BarrierInv, BuffersHoldAccepted
<1> DEFINE more == WithDone(accepted, node, q, batch)
<1>4. Rearranges(message_buffer \o batch, Lined(Given(more, q)))
    BY <1>1, <1>2, BufferTakes DEF CanonicalSoFar, BarrierInv, ReleaseIsComplete, OnePerNode
<1>5. Rearranges(next_quantum_buffer, Lined(Given(more, current_quantum + 1)))
  <2> QED BY <1>1, <1>2, GivenOther DEF CanonicalSoFar, BarrierInv, ReleaseIsComplete, OnePerNode
<1>6. \A k \in DOMAIN released : released[k] = Sort(Lined(Given(more, first + k - 1)))
  BY <1>1, <1>2, ReturnedStays
<1>7. /\ accepted' = more /\ message_buffer' = message_buffer \o batch
      /\ UNCHANGED <<next_quantum_buffer, current_quantum, released, first>>
  BY DEF SubmitPartial
<1> HIDE DEF more
<1> QED  BY <1>1, <1>4, <1>5, <1>6, <1>7 DEF CanonicalSoFar

\* The last DONE: sorting forgets in which order the batches were taken.
LEMMA ReleaseKeepsCanonical ==
    ASSUME BarrierInv, CanonicalSoFar, NEW node \in Nat, NEW q \in Nat,
           NEW batch \in Seq(Message), SubmitRelease(node, q, batch)
    PROVE  CanonicalSoFar'
<1> DEFINE all == message_buffer \o batch
           more == WithDone(accepted, node, q, batch)
           line == Lined(Given(more, q))
<1>1. /\ node \in Nodes /\ q = current_quantum /\ current_quantum \in Nat
      /\ q >= current_quantum /\ current_quantum + 1 # q
      /\ accepted \in SUBSET Done /\ message_buffer \in Seq(Message)
      /\ released \in Seq(Seq(Message)) /\ Len(released) \in Nat
      /\ DOMAIN released = 1 .. Len(released)
      /\ first \in Nat /\ current_quantum = first + Len(released)
  BY BarrierAssumption
  DEF SubmitRelease, Nodes, BarrierInv, TypeOK, ReleaseIsComplete
<1>2. node \notin Reporters(accepted, q)
  BY <1>1 DEF SubmitRelease, BarrierInv, BuffersHoldAccepted
<1>3. OnePerNode(accepted) /\ OnePerNode(more) /\ more \in SUBSET Done
  BY <1>1, <1>2, StillOnePerNode, WithDoneType
  DEF BarrierInv, ReleaseIsComplete, OnePerNode
<1>4. Rearranges(all, line)
  BY <1>1, <1>2, <1>3, BufferTakes DEF CanonicalSoFar
<1>5. /\ all \in Seq(Message) /\ line \in Seq(Message)
      /\ Sort(all) \in Seq(Message)
  <2>1. all \in Seq(Message)
    BY <1>1, ConcatProperties
  <2> HIDE DEF all
  <2>2. Given(more, q) \in [Nodes -> Seq(Message)]
    BY <1>3, GivenType
  <2> QED  BY <2>1, <2>2, LinedType, SortIsSortedRearrangement
<1>6. Sort(all) = Sort(line)
  <2> HIDE DEF all, line
  <2> QED  BY <1>4, <1>5, SortForgetsArrangement
<1>7. Rearranges(next_quantum_buffer, Lined(Given(more, current_quantum + 1)))
  <2> QED BY <1>1, <1>2, <1>3, GivenOther DEF CanonicalSoFar
<1>8. Rearranges(<<>>, Lined(Given(more, current_quantum + 1 + 1)))
  <2>1. Reporters(accepted, current_quantum + 1 + 1) = {}
      BY <1>1 DEF BarrierInv, BuffersHoldAccepted, Reporters, DonesFor
  <2>3. Reporters(more, current_quantum + 1 + 1) = {}
      BY <2>1, <1>1, OtherQuantaUntouched
  <2>5. <<>> \in Seq(Message)
    OBVIOUS
  <2> QED BY <1>3, <2>3, GivenNothing, <2>5, RearrangesItself, Zenon
<1>9. \A k \in DOMAIN released : released[k] = Sort(Lined(Given(more, first + k - 1)))
  <2>1. node \in Nodes /\ q \in Nat /\ q >= current_quantum
    BY <1>1
  <2> HIDE <1>1
  <2> QED  BY <1>2, <2>1, ReturnedStays, Zenon
<1>10. /\ accepted' = more /\ current_quantum' = current_quantum + 1 /\ first' = first
       /\ message_buffer' = next_quantum_buffer /\ next_quantum_buffer' = <<>>
       /\ released' = Append(released, Sort(all))
  BY DEF SubmitRelease
<1>11. ASSUME NEW k \in DOMAIN released'
       PROVE  released'[k] = Sort(Lined(Given(more, first + k - 1)))
  <2> HIDE DEF all, more
  <2>1. /\ DOMAIN released' = 1 .. Len(released) + 1
        /\ \A i \in DOMAIN released : released'[i] = released[i]
        /\ released'[Len(released) + 1] = Sort(all)
    BY <1>1, <1>5, <1>10, AppendProperties
  <2>2. CASE k \in DOMAIN released
    BY <1>9, <2>1, <2>2
  <2>3. CASE k = Len(released) + 1
      BY <1>1, <2>3, <1>6, <2>1
  <2> QED  BY <1>1, <2>1, <2>2, <2>3
<1> HIDE DEF all, more, line
<1> QED  BY <1>7, <1>8, <1>10, <1>11 DEF CanonicalSoFar

\* A whole call of submit_done, whatever its arguments.
LEMMA SubmitDoneKeepsCanonical ==
    ASSUME BarrierInv, CanonicalSoFar, NEW node \in Nat, NEW q \in Nat,
           NEW msgs \in Seq(Message), SubmitDone(node, q, msgs)
    PROVE  CanonicalSoFar'
<1>1. CASE UNCHANGED <<state, history>>
  BY <1>1 DEF state, history, CanonicalSoFar
<1>2. CASE SubmitStale(q) \/ Reject(node, q)
  BY <1>1, <1>2 DEF SubmitStale, Reject
<1> DEFINE batch == Admit(msgs)
<1>3. batch \in Seq(Message)
  BY AdmitType
<1> HIDE DEF batch
<1>4. CASE SubmitLookahead(node, q, batch)
  BY <1>3, <1>4, LookaheadKeepsCanonical
<1>5. CASE SubmitPartial(node, q, batch)
  BY <1>3, <1>5, PartialKeepsCanonical
<1>6. CASE SubmitRelease(node, q, batch)
  BY <1>3, <1>6, ReleaseKeepsCanonical
<1> QED  BY <1>2, <1>4, <1>5, <1>6 DEF SubmitDone, batch

\* The two invariants say that what was returned is what a sequential
\* coordinator would have returned.
LEMMA CanonicalRelease ==
    ASSUME BarrierInv, CanonicalSoFar
    PROVE  ReleaseIsCanonical
<1>2. ASSUME NEW k \in DOMAIN released
      PROVE  /\ Reporters(accepted, first + k - 1) = Nodes
             /\ released[k] = Sort(Collected(first + k - 1))
  <2>2. accepted \in SUBSET Done /\ OnePerNode(accepted)
    BY DEF BarrierInv, TypeOK, ReleaseIsComplete, OnePerNode
  <2> QED BY <2>2, CollectedIsGiven DEF CanonicalSoFar, BarrierInv, ReleaseIsComplete
<1> QED BY <1>2 DEF ReleaseIsCanonical, BarrierInv, ReleaseIsComplete

\* Whatever the callers do, each returned batch is the one a sequential
\* coordinator would return that asks node 0, node 1, ... in turn.
THEOREM BarrierIsCanonical == Spec => []ReleaseIsCanonical
<1>1. Init => BarrierInv /\ CanonicalSoFar
    BY InitBarrierInv, EmptyIsCanonical DEF Init, CanonicalSoFar
<1>2. (BarrierInv /\ CanonicalSoFar) /\ [Next]_vars => (BarrierInv /\ CanonicalSoFar)'
  <2> SUFFICES ASSUME BarrierInv, CanonicalSoFar, [Next]_vars
               PROVE  BarrierInv' /\ CanonicalSoFar'
    OBVIOUS
  <2>1. ASSUME NEW node \in NodeIds, NEW q \in Quanta, NEW msgs \in Batches,
               SubmitDone(node, q, msgs)
        PROVE  BarrierInv' /\ CanonicalSoFar'
      BY BarrierAssumption, <2>1, SubmitDoneKeepsInv, SubmitDoneKeepsCanonical
  <2>2. ASSUME NEW q \in Quanta, SetQuantum(q)
        PROVE  BarrierInv' /\ CanonicalSoFar'
    <3>3. message_buffer = <<>> /\ next_quantum_buffer = <<>>
      <4>1. Elements(message_buffer) = {} /\ Elements(next_quantum_buffer) = {}
          BY <2>2, NoDones DEF BarrierInv, BuffersHoldAccepted, SetQuantum
      <4>2. message_buffer \in Seq(Message) /\ next_quantum_buffer \in Seq(Message)
        BY DEF BarrierInv, TypeOK
      <4> QED  BY <4>1, <4>2, EmptySeq DEF Elements
    <3> QED
        BY <2>2, BarrierAssumption, SetQuantumKeepsInv, <3>3, EmptyIsCanonical DEF CanonicalSoFar,
            SetQuantum
  <2>3. CASE Reset
    <3> QED BY <2>3, ResetKeepsInv, EmptyIsCanonical DEF CanonicalSoFar, Reset
  <2>4. CASE UNCHANGED vars
    <3>1. BarrierInv'
      <4> QED BY <2>4, NoEffectKeepsInv DEF vars, BarrierInv, TypeOK
    <3> QED  BY <2>4, <3>1 DEF vars, state, history, CanonicalSoFar
  <2> QED  BY <2>1, <2>2, <2>3, <2>4 DEF Next
<1>3. BarrierInv /\ CanonicalSoFar => ReleaseIsCanonical
  BY CanonicalRelease
<1> QED  BY <1>1, <1>2, <1>3, PTL DEF Spec

-----------------------------------------------------------------------------
\* The DONEs taken are those of the quanta each node has reported.
OrderInv ==
    /\ workload \in [Nodes -> [1 .. LastQuantum -> Batches]]
    /\ next_report \in [Nodes -> 1 .. LastQuantum + 1]
    /\ first = 1
    /\ \A n \in Nodes, q \in Nat :
          n \in Reporters(accepted, q) <=> 1 <= q /\ q < next_report[n]
    /\ \A d \in accepted :
          d.quantum \in 1 .. LastQuantum /\ d.batch = Admit(workload[d.node][d.quantum])
    /\ NeverWedged

\* The inductive invariant of the barrier with ordered callers.
OrderedInv == BarrierInv /\ CanonicalSoFar /\ OrderInv

\* main's set_quantum(1) on a new barrier.
LEMMA InitOrderedInv == OInit => OrderedInv
<1> SUFFICES ASSUME OInit
             PROVE  OrderedInv
  OBVIOUS
<1>3. accepted = {} /\ \A q : Reporters(accepted, q) = {} /\ Contents(accepted, q) = {}
  BY NoDones DEF OInit
<1>4. BarrierInv
  <2> QED
      BY FS_EmptySet, <1>3 DEF BarrierInv, OInit, ReleaseIsComplete, TypeOK, Returns, Elements,
          BuffersHoldAccepted
<1>6. OrderInv
  <2>4. \A n \in Nodes, q \in Nat :
          n \in Reporters(accepted, q) <=> 1 <= q /\ q < next_report[n]
      BY <1>3, OrderedAssumption DEF OInit
  <2> QED
      BY <1>3, BarrierAssumption, OrderedAssumption, <2>4 DEF OInit, OrderInv, NeverWedged, Nodes
<1> QED BY <1>4, <1>3, EmptyIsCanonical, <1>6 DEF OrderedInv, OInit, CanonicalSoFar

-----------------------------------------------------------------------------
\* The order in which a batch arrives does not matter to admission control.
LEMMA AdmitForgetsArrival ==
    ASSUME NEW s \in Seq(Message), NEW t \in Arrivals(s)
    PROVE  t \in Seq(Message) /\ Admit(t) = Admit(s)
<1>1. PICK p \in [DOMAIN s -> DOMAIN s] :
         /\ \A i, j \in DOMAIN s : p[i] = p[j] => i = j
         /\ t = [i \in DOMAIN s |-> s[p[i]]]
  BY Zenon DEF Arrivals
<1>3. t \in Seq(Message)
    BY <1>1
<1> QED BY <1>3, <1>1, SortForgetsArrangement, Zenon DEF Admit, Rearranges

\* Where the nodes stand: each has finished all released quanta.
LEMMA NodesKeepUp ==
    ASSUME OrderedInv, NEW n \in Nodes
    PROVE  /\ current_quantum \in Nat /\ 1 <= current_quantum
           /\ next_report[n] \in Nat /\ current_quantum <= next_report[n]
           /\ current_quantum = Len(released) + 1
<1>1. /\ current_quantum = first + Len(released) /\ first = 1
      /\ released \in Seq(Seq(Message)) /\ next_report \in [Nodes -> 1 .. LastQuantum + 1]
  BY DEF OrderedInv, BarrierInv, TypeOK, ReleaseIsComplete, OrderInv
<1>2. /\ Len(released) \in Nat /\ DOMAIN released = 1 .. Len(released)
      /\ next_report[n] \in Nat /\ 1 <= next_report[n]
  BY <1>1, OrderedAssumption
<1>3. CASE Len(released) = 0
  BY <1>1, <1>2, <1>3
<1>4. CASE Len(released) # 0
  <2> QED BY <1>1, <1>2, <1>4 DEF OrderedInv, OrderInv, BarrierInv, ReleaseIsComplete
<1> QED  BY <1>3, <1>4

-----------------------------------------------------------------------------
\* A node that reports a quantum again has no effect.
LEMMA RepeatKeepsInv ==
    ASSUME OrderedInv, NEW n \in Nodes, Repeat(n)
    PROVE  OrderedInv' /\ UNCHANGED <<released, next_report, workload>>
<1>1. PICK q \in 1 .. LastQuantum : /\ q < next_report[n]
                                    /\ \E msgs \in Arrivals(workload[n][q]) : SubmitDone(n, q, msgs)
  BY DEF Repeat
<1>2. PICK msgs \in Arrivals(workload[n][q]) : SubmitDone(n, q, msgs)
  BY <1>1
<1>3. n \in Reporters(accepted, q)
  BY <1>1, OrderedAssumption DEF OrderedInv, OrderInv
<1>4. /\ done_nodes = Reporters(accepted, current_quantum)
      /\ next_quantum_done_nodes = Reporters(accepted, current_quantum + 1)
  BY DEF OrderedInv, BarrierInv, BuffersHoldAccepted
<1>5. UNCHANGED <<state, history>> /\ ret' \in Returns
  BY <1>2, <1>3, <1>4
  DEF SubmitDone, SubmitStale, Reject, SubmitLookahead, SubmitPartial, SubmitRelease, Returns
<1> QED
    BY <1>5, NoEffectKeepsInv DEF OrderedInv, state, history, CanonicalSoFar, Repeat, OrderInv, NeverWedged

\* A report is taken for the current quantum or for the next one, with the batch
\* that the workload admits.
LEMMA ReportIsTaken ==
    ASSUME OrderedInv, NEW n \in Nodes, Report(n), NEW q, q = next_report[n],
           NEW batch, batch = Admit(workload[n][q])
    PROVE  /\ q \in 1 .. LastQuantum /\ q \in Nat /\ n \in Nat
           /\ batch \in Seq(Message)
           /\ n \notin Reporters(accepted, q)
           /\ BarrierInv' /\ CanonicalSoFar'
           /\ \/ SubmitLookahead(n, q, batch)
              \/ SubmitPartial(n, q, batch)
              \/ SubmitRelease(n, q, batch)
           /\ accepted' = WithDone(accepted, n, q, batch) /\ first' = first
           /\ workload' = workload
           /\ next_report' = [next_report EXCEPT ![n] = q + 1]
<1>1. /\ q <= LastQuantum /\ q <= current_quantum + 1
      /\ workload' = workload /\ next_report' = [next_report EXCEPT ![n] = q + 1]
  BY DEF Report
<1>2. PICK msgs \in Arrivals(workload[n][q]) : SubmitDone(n, q, msgs)
  BY DEF Report
<1>4. q \in 1 .. LastQuantum /\ q \in Nat /\ n \in Nat /\ n < N
    BY <1>1, OrderedAssumption, BarrierAssumption DEF Nodes, OrderedInv, OrderInv
<1>5. workload[n][q] \in Seq(Message)
    BY <1>4, BarrierAssumption, Zenon DEF OrderedInv, OrderInv
<1>6. msgs \in Seq(Message) /\ Admit(msgs) = batch
  BY <1>2, <1>5, AdmitForgetsArrival
<1>9. BarrierInv' /\ CanonicalSoFar'
  BY <1>2, <1>4, <1>6, SubmitDoneKeepsInv, SubmitDoneKeepsCanonical, Zenon DEF OrderedInv
<1>11. ~SubmitStale(q)
    BY <1>4, NodesKeepUp DEF SubmitStale
<1>12. ~Reject(n, q)
    BY <1>1, <1>4, NodesKeepUp, BarrierAssumption DEF Reject, OrderedInv, BarrierInv, BuffersHoldAccepted,
        OrderInv
<1>13. \/ SubmitLookahead(n, q, batch)
       \/ SubmitPartial(n, q, batch)
       \/ SubmitRelease(n, q, batch)
  BY <1>2, <1>6, <1>11, <1>12 DEF SubmitDone
<1>14. accepted' = WithDone(accepted, n, q, batch) /\ first' = first
  BY <1>13, Zenon DEF SubmitLookahead, SubmitPartial, SubmitRelease
<1> QED BY <1>1, <1>4, <1>6, AdmitType, <1>9, <1>13, <1>14 DEF OrderedInv, OrderInv

\* ... and leaves the barrier waiting for someone.
LEMMA ReportKeepsInv ==
    ASSUME OrderedInv, NEW n \in Nodes, Report(n)
    PROVE  OrderedInv'
<1> DEFINE q == next_report[n]
           batch == Admit(workload[n][q])
<1>1. /\ q \in 1 .. LastQuantum /\ q \in Nat /\ n \in Nat
      /\ batch \in Seq(Message)
      /\ n \notin Reporters(accepted, q)
      /\ BarrierInv' /\ CanonicalSoFar'
      /\ \/ SubmitLookahead(n, q, batch)
         \/ SubmitPartial(n, q, batch)
         \/ SubmitRelease(n, q, batch)
      /\ accepted' = WithDone(accepted, n, q, batch) /\ first' = first
      /\ workload' = workload
      /\ next_report' = [next_report EXCEPT ![n] = q + 1]
  BY ReportIsTaken, Zenon
<1>3. \A d \in accepted' :
         d.quantum \in 1 .. LastQuantum /\ d.batch = Admit(workload'[d.node][d.quantum])
  <2> QED BY <1>1 DEF WithDone, OrderedInv, OrderInv
<1> HIDE DEF q, batch
<1>4. /\ next_report' \in [Nodes -> 1 .. LastQuantum + 1] /\ next_report'[n] = q + 1
      /\ \A m \in Nodes : m # n => next_report'[m] = next_report[m]
    BY <1>1, OrderedAssumption DEF OrderedInv, OrderInv
<1>5. ASSUME NEW m \in Nodes, NEW r \in Nat
      PROVE  m \in Reporters(accepted', r) <=> 1 <= r /\ r < next_report'[m]
  <2>1. m \in Reporters(accepted, r) <=> 1 <= r /\ r < next_report[m]
    BY DEF OrderedInv, OrderInv
  <2>2. CASE r = q
      BY <1>1, <1>4, <2>2, OwnQuantumGrows, <2>1
  <2>3. CASE r # q
    <3>2. CASE m = n
      <4> QED BY <1>4, <2>1, <1>1, <2>3, OtherQuantaUntouched, <3>2 DEF q
    <3>3. CASE m # n
        BY <1>4, <2>1, <1>1, <2>3, OtherQuantaUntouched, <3>3
    <3> QED  BY <3>2, <3>3
  <2> QED  BY <2>2, <2>3
<1>6. NeverWedged'
  <2>2. CASE SubmitLookahead(n, q, batch)
      BY <2>2, <1>1, OtherQuantaUntouched DEF SubmitLookahead, OrderedInv, BarrierInv, TypeOK,
          BuffersHoldAccepted, NeverWedged, OrderInv
  <2>3. CASE SubmitPartial(n, q, batch)
    <3>1. /\ current_quantum' = current_quantum /\ q = current_quantum
          /\ n \notin done_nodes /\ done_count + 1 # N
      BY <2>3 DEF SubmitPartial
    <3>2. Reporters(accepted', current_quantum) = done_nodes \cup {n}
        BY <1>1, <3>1, OwnQuantumGrows DEF OrderedInv, BarrierInv, TypeOK, BuffersHoldAccepted
    <3> QED
        BY <3>1, <3>2, NodesAreFinite, FS_Subset, FS_AddElement DEF NeverWedged, OrderedInv, BarrierInv,
            TypeOK
  <2>4. CASE SubmitRelease(n, q, batch)
    <3> QED BY <2>4, <1>5, <1>1, <1>4 DEF NeverWedged, SubmitRelease
  <2> QED  BY <1>1, <2>2, <2>3, <2>4
<1> QED BY <1>1, <1>3, <1>4, <1>5, <1>6 DEF OrderedInv, OrderInv

\* OrderedInv is inductive.
THEOREM OrderedInvariant == OSpec => []OrderedInv
<1>1. OInit => OrderedInv
  BY InitOrderedInv
<1>2. OrderedInv /\ [ONext]_ovars => OrderedInv'
  <2> SUFFICES ASSUME OrderedInv, [ONext]_ovars
               PROVE  OrderedInv'
    OBVIOUS
  <2>1. ASSUME NEW n \in Nodes, Report(n) \/ Repeat(n)
        PROVE  OrderedInv'
    BY <2>1, ReportKeepsInv, RepeatKeepsInv
  <2>2. CASE UNCHANGED ovars
      BY <2>2, NoEffectKeepsInv, Zenon DEF ovars, vars, OrderedInv, BarrierInv, TypeOK, state, history,
          CanonicalSoFar, OrderInv, NeverWedged
  <2> QED  BY <2>1, <2>2 DEF ONext
<1> QED  BY <1>1, <1>2, PTL DEF OSpec

\* The barrier is never left with a quantum that every node has reported: since
\* no node reports the quantum after the next, the promotion of what was kept
\* aside cannot complete a quantum by itself.
THEOREM OrderedNeverWedged == OSpec => []NeverWedged
<1>1. OrderedInv => NeverWedged
  BY DEF OrderedInv, OrderInv
<1> QED  BY <1>1, OrderedInvariant, PTL

-----------------------------------------------------------------------------
\* CanonicalBatch collects what the workload admits, node by node.
LEMMA CanonicalBatchIsLined ==
    ASSUME workload \in [Nodes -> [1 .. LastQuantum -> Batches]],
           NEW q \in 1 .. LastQuantum
    PROVE  CanonicalBatch(q) = Sort(Lined([n \in Nodes |-> Admit(workload[n][q])]))
<1> DEFINE b == [n \in Nodes |-> Admit(workload[n][q])]
           R(f) == [n \in 0 .. N |-> IF n = 0 THEN <<>> ELSE f[n - 1] \o b[n - 1]]
           C(f) == [n \in 0 .. N |->
                       IF n = 0 THEN <<>> ELSE f[n - 1] \o Admit(workload[n - 1][q])]
           up == CHOOSE f : f = C(f)
<1>1. CanonicalBatch(q) = Sort(up[N])
  BY DEF CanonicalBatch
<1>2. ASSUME NEW n \in 0 .. N, n # 0
      PROVE  b[n - 1] = Admit(workload[n - 1][q])
  <2> QED BY <1>2, BarrierAssumption DEF Nodes
<1>3. b \in [Nodes -> Seq(Message)]
  <2> QED BY BarrierAssumption, AdmitType, Zenon
<1> HIDE DEF b
<1>4. ASSUME NEW f
      PROVE  C(f) = R(f)
    BY <1>2
<1>5. PICK g : IsLine(g, b, N) /\ Lined(b) = g[N]
  BY <1>3, LinedIsLast
<1> HIDE DEF C
<1>8. up = C(up)
    BY <1>4, <1>5, LineIsFixpoint
<1> HIDE DEF up
<1> QED BY <1>1, <1>5, <1>4, <1>8, LineFromRecursion, Zenon DEF b

\* A released quantum holds what the workload admits.
LEMMA ReleasedIsWorkload ==
    ASSUME OrderedInv, NEW k \in DOMAIN released
    PROVE  released[k] = CanonicalBatch(k)
<1> DEFINE b == [n \in Nodes |-> Admit(workload[n][k])]
<1>1. /\ first = 1 /\ k \in Nat /\ accepted \in SUBSET Done /\ OnePerNode(accepted)
      /\ workload \in [Nodes -> [1 .. LastQuantum -> Batches]]
      /\ \A d \in accepted :
            d.quantum \in 1 .. LastQuantum /\ d.batch = Admit(workload[d.node][d.quantum])
  BY DEF OrderedInv, OrderInv, BarrierInv, TypeOK, ReleaseIsComplete, OnePerNode
<1>4. ASSUME NEW n \in Nodes
      PROVE  k \in 1 .. LastQuantum /\ Given(accepted, k)[n] = Admit(workload[n][k])
    BY <1>1, ReporterHasDone, BatchFound DEF OrderedInv, BarrierInv, ReleaseIsComplete, Given
<1>5. k \in 1 .. LastQuantum
    BY BarrierAssumption, <1>4 DEF Nodes
<1>6. Given(accepted, k) = b
  <2> QED BY <1>4 DEF Given
<1> QED BY <1>6, <1>1, <1>5, CanonicalBatchIsLined DEF OrderedInv, CanonicalSoFar

\* What the coordinator delivers is a function of the workload: neither the
\* interleaving of the nodes nor the order in which their messages arrive, nor
\* repeated DONEs can be seen in it.
THEOREM OrderedDeterministic == OSpec => []Deterministic
<1>1. OrderedInv => Deterministic
  BY ReleasedIsWorkload DEF Deterministic
<1> QED  BY <1>1, OrderedInvariant, PTL

-----------------------------------------------------------------------------
\* The slowest node has finished as many quanta as were released.
SlowestReleased ==
    Abstract!IsSlowest(Len(released), [n \in Nodes |-> next_report[n] - 1])

\* That follows from OrderedInv: some node has not reported the current quantum.
LEMMA ReleasedIsSlowest ==
    ASSUME OrderedInv
    PROVE  SlowestReleased
<1>1. PICK m \in Nodes : m \notin Reporters(accepted, current_quantum)
    BY Zenon DEF OrderedInv, BarrierInv, BuffersHoldAccepted, TypeOK, OrderInv, NeverWedged
<1>5. next_report[m] - 1 = Len(released)
    BY NodesKeepUp, <1>1 DEF OrderedInv, OrderInv, BarrierInv, TypeOK
<1> QED BY <1>5, NodesKeepUp DEF SlowestReleased, Abstract!IsSlowest, OrderedInv, BarrierInv, TypeOK

\* A step of the barrier and its callers is a step of the abstract barrier, or
\* changes nothing of it.
LEMMA OrderedStepRefines ==
    ASSUME OrderedInv, OrderedInv', SlowestReleased', [ONext]_ovars
    PROVE  [Abstract!Next]_<<[n \in Nodes |-> next_report[n] - 1], Len(released)>>
<1> DEFINE fin == [n \in Nodes |-> next_report[n] - 1]
<1>1. ASSUME NEW n \in Nodes, Report(n)
      PROVE  Abstract!Next
  <2> DEFINE q == next_report[n]
             batch == Admit(workload[n][q])
  <2>1. /\ \/ SubmitLookahead(n, q, batch)
           \/ SubmitPartial(n, q, batch)
           \/ SubmitRelease(n, q, batch)
        /\ next_report' = [next_report EXCEPT ![n] = q + 1]
        /\ q \in Nat
    BY <1>1, ReportIsTaken, Zenon
  <2>3. Len(released) \in Nat /\ released \in Seq(Seq(Message)) /\ Len(released') \in Nat
    BY DEF OrderedInv, BarrierInv, TypeOK
  <2>4. fin[n] = q - 1 /\ q - 1 < Len(released) + 2
      BY <2>1, <1>1, NodesKeepUp, <2>3 DEF Report
  <2>5. fin' = [fin EXCEPT ![n] = @ + 1]
    <3>2. (q + 1) - 1 = (q - 1) + 1
      BY <2>1
    <3> QED BY <2>1, <3>2, Zenon DEF OrderedInv, OrderInv
  <2>6. Len(released') \in {Len(released), Len(released) + 1}
    <3>1. current_quantum' \in {current_quantum, current_quantum + 1}
      BY <2>1, Zenon DEF SubmitLookahead, SubmitPartial, SubmitRelease
    <3>2. current_quantum' = Len(released') + 1
      <4> QED BY <2>3 DEF OrderedInv, BarrierInv, ReleaseIsComplete, OrderInv
    <3> QED BY <1>1, NodesKeepUp, <2>3, <3>1, <3>2 DEF Report
  <2> QED BY <2>4, <2>5, <2>6, Zenon DEF Abstract!Next, Abstract!Finish, SlowestReleased
<1>2. ASSUME NEW n \in Nodes, Repeat(n)
      PROVE  UNCHANGED <<fin, Len(released)>>
  BY <1>2, RepeatKeepsInv
<1>3. CASE UNCHANGED ovars
  BY <1>3 DEF ovars, vars, history
<1> QED  BY <1>1, <1>2, <1>3 DEF ONext

\* The barrier implements the abstract one: a quantum opens exactly when the
\* slowest node has finished the one before it, and no node is more than two
\* quanta ahead of what has opened.
THEOREM OrderedRefinesRounds == OSpec => RefinesRoundBarrier
<1>1. OInit => Abstract!Init
    BY DEF Abstract!Init, OInit
<1>2. OrderedInv => SlowestReleased
  BY ReleasedIsSlowest
<1>3. OrderedInv /\ OrderedInv' /\ SlowestReleased' /\ [ONext]_ovars
         => [Abstract!Next]_<<[n \in Nodes |-> next_report[n] - 1], Len(released)>>
  BY OrderedStepRefines
<1> QED  BY <1>1, <1>2, <1>3, OrderedInvariant, PTL DEF OSpec, RefinesRoundBarrier, Abstract!Spec

=============================================================================
