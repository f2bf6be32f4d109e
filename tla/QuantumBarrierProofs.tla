------------------------ MODULE QuantumBarrierProofs ------------------------
(***************************************************************************)
(* The barrier returns complete quanta in canonical order, for any number  *)
(* of nodes, any limit and whatever its callers do.                        *)
(*                                                                         *)
(* ReleaseIsComplete speaks of what was returned only.  The inductive      *)
(* invariant adds what is still inside the barrier: BuffersHoldAccepted.   *)
(***************************************************************************)
EXTENDS QuantumBarrier, FiniteSetTheorems, TLAPS

\* The provers of a leaf that names none, and the time they get.
USE SMTT(30), Zenon

-----------------------------------------------------------------------------
\* The length of a sequence.
LEMMA LenProperties ==
    ASSUME NEW S, NEW s \in Seq(S)
    PROVE  Len(s) \in Nat /\ DOMAIN s = 1 .. Len(s) /\ s \in [1 .. Len(s) -> S]
OBVIOUS

\* What Append changes.
LEMMA AppendProperties ==
    ASSUME NEW S, NEW s \in Seq(S), NEW e \in S
    PROVE  /\ Append(s, e) \in Seq(S) /\ Len(Append(s, e)) = Len(s) + 1
           /\ \A i \in 1 .. Len(s) : Append(s, e)[i] = s[i]
           /\ Append(s, e)[Len(s) + 1] = e
OBVIOUS

\* Which elements a concatenation has, and where.
LEMMA ConcatProperties ==
    ASSUME NEW S, NEW s \in Seq(S), NEW t \in Seq(S)
    PROVE  /\ s \o t \in Seq(S) /\ Len(s \o t) = Len(s) + Len(t)
           /\ \A i \in 1 .. Len(s) + Len(t) :
                 (s \o t)[i] = IF i <= Len(s) THEN s[i] ELSE t[i - Len(s)]
OBVIOUS

\* The first n elements.
LEMMA SubSeqProperties ==
    ASSUME NEW S, NEW s, NEW m \in Int, NEW n \in Int, \A i \in m .. n : s[i] \in S
    PROVE  /\ SubSeq(s, m, n) \in Seq(S)
           /\ Len(SubSeq(s, m, n)) = IF m <= n THEN n - m + 1 ELSE 0
           /\ \A i \in 1 .. n - m + 1 : SubSeq(s, m, n)[i] = s[m + i - 1]
OBVIOUS

\* The elements of a concatenation.
LEMMA RangeConcatenation ==
    ASSUME NEW S, NEW s \in Seq(S), NEW t \in Seq(S)
    PROVE  Range(s \o t) = Range(s) \cup Range(t)
<1> DEFINE c == s \o t
<1>1. /\ Len(s) \in Nat /\ DOMAIN s = 1 .. Len(s) /\ Len(t) \in Nat /\ DOMAIN t = 1 .. Len(t)
      /\ DOMAIN c = 1 .. Len(s) + Len(t)
      /\ \A i \in 1 .. Len(s) + Len(t) : c[i] = IF i <= Len(s) THEN s[i] ELSE t[i - Len(s)]
  BY ConcatProperties, LenProperties
<1> HIDE DEF c
<1>2. ASSUME NEW i \in DOMAIN s
      PROVE  i \in DOMAIN c /\ c[i] = s[i]
  BY <1>1
<1>3. ASSUME NEW i \in DOMAIN t
      PROVE  Len(s) + i \in DOMAIN c /\ c[Len(s) + i] = t[i]
  BY <1>1
<1>4. ASSUME NEW i \in DOMAIN c
      PROVE  c[i] \in Range(s) \cup Range(t)
  <2>1. CASE i <= Len(s)
    BY <1>1, <2>1 DEF Range
  <2>2. CASE ~(i <= Len(s))
    <3>1. i - Len(s) \in DOMAIN t /\ c[i] = t[i - Len(s)]
      BY <1>1, <2>2
    <3> QED  BY <3>1 DEF Range
  <2> QED  BY <2>1, <2>2
<1>5. Range(c) = Range(s) \cup Range(t)
  BY <1>2, <1>3, <1>4 DEF Range
<1> QED  BY <1>5 DEF c

\* Before, with the five fields that Ord::cmp compares written out.
LEMMA BeforeUnfolded ==
    ASSUME NEW a \in Message, NEW b \in Message
    PROVE  Before(a, b) <=>
              \/ a.vtime < b.vtime
              \/ a.vtime = b.vtime /\ a.src < b.src
              \/ a.vtime = b.vtime /\ a.src = b.src /\ a.dst < b.dst
              \/ a.vtime = b.vtime /\ a.src = b.src /\ a.dst = b.dst
                 /\ a.seq < b.seq
              \/ a.vtime = b.vtime /\ a.src = b.src /\ a.dst = b.dst
                 /\ a.seq = b.seq /\ a.body < b.body
<1> DEFINE ka == Key(a)
           kb == Key(b)
<1>1. /\ DOMAIN Key(a) = 1 .. 5
      /\ ka[1] = a.vtime /\ ka[2] = a.src /\ ka[3] = a.dst
      /\ ka[4] = a.seq /\ ka[5] = a.body
      /\ kb[1] = b.vtime /\ kb[2] = b.src /\ kb[3] = b.dst
      /\ kb[4] = b.seq /\ kb[5] = b.body
  BY DEF Key
<1> DEFINE At(i) == ka[i] < kb[i] /\ \A j \in 1 .. i - 1 : ka[j] = kb[j]
<1>2. Before(a, b) <=> \E i \in 1 .. 5 : At(i)
  BY <1>1 DEF Before
<1>3. /\ At(1) <=> ka[1] < kb[1]
      /\ At(2) <=> ka[1] = kb[1] /\ ka[2] < kb[2]
      /\ At(3) <=> ka[1] = kb[1] /\ ka[2] = kb[2] /\ ka[3] < kb[3]
      /\ At(4) <=> ka[1] = kb[1] /\ ka[2] = kb[2] /\ ka[3] = kb[3]
                   /\ ka[4] < kb[4]
      /\ At(5) <=> ka[1] = kb[1] /\ ka[2] = kb[2] /\ ka[3] = kb[3]
                   /\ ka[4] = kb[4] /\ ka[5] < kb[5]
  <2> HIDE DEF ka, kb
  <2> QED OBVIOUS
<1>4. (\E i \in 1 .. 5 : At(i)) <=> At(1) \/ At(2) \/ At(3) \/ At(4) \/ At(5)
  <2> HIDE DEF At
  <2> QED OBVIOUS
<1> HIDE DEF At, ka, kb
<1> QED  BY <1>1, <1>2, <1>3, <1>4

\* Ord::cmp orders any two different messages one way and never both ways:
\* the release order of a quantum leaves nothing to arrival order.
THEOREM BeforeIsStrictTotalOrder ==
    ASSUME NEW a \in Message, NEW b \in Message, NEW c \in Message
    PROVE  /\ ~Before(a, a)
           /\ Before(a, b) /\ Before(b, c) => Before(a, c)
           /\ a = b \/ Before(a, b) \/ Before(b, a)
BY BeforeUnfolded DEF Message

\* The stable order of the positions of a sequence is a strict total order.
LEMMA SortsBeforeIsStrictTotalOrder ==
    ASSUME NEW s \in Seq(Message), NEW i \in DOMAIN s, NEW j \in DOMAIN s,
           NEW k \in DOMAIN s
    PROVE  /\ ~SortsBefore(s, i, i)
           /\ SortsBefore(s, i, j) /\ SortsBefore(s, j, k) => SortsBefore(s, i, k)
           /\ i = j \/ SortsBefore(s, i, j) \/ SortsBefore(s, j, i)
BY BeforeIsStrictTotalOrder DEF SortsBefore

\* The positions that precede i.
Preceding(s, i) == {j \in DOMAIN s : SortsBefore(s, j, i)}

\* A rank is a position of the sequence, so that Vec::sort keeps the length.
LEMMA RankInDomain ==
    ASSUME NEW s \in Seq(Message), NEW i \in DOMAIN s
    PROVE  /\ IsFiniteSet(Preceding(s, i))
           /\ Cardinality(Preceding(s, i)) \in Nat
           /\ Rank(s, i) = Cardinality(Preceding(s, i)) + 1
           /\ Rank(s, i) \in 1 .. Len(s)
<1>1. DOMAIN s = 1 .. Len(s) /\ Len(s) \in Nat /\ i \in 1 .. Len(s)
  OBVIOUS
<1>2. IsFiniteSet(DOMAIN s) /\ Cardinality(DOMAIN s) = Len(s)
  <2>1. /\ IsFiniteSet(1 .. Len(s))
        /\ Cardinality(1 .. Len(s)) = IF 1 > Len(s) THEN 0 ELSE Len(s) - 1 + 1
    BY <1>1, FS_Interval
  <2> QED  BY <1>1, <2>1
<1>3. IsFiniteSet(DOMAIN s \ {i}) /\ Cardinality(DOMAIN s \ {i}) = Len(s) - 1
  BY <1>1, <1>2, FS_RemoveElement, Zenon
<1> QED
    BY <1>1, <1>3, SortsBeforeIsStrictTotalOrder, FS_Subset, FS_CardinalityType DEF Rank, Preceding

\* What sorts before gets the smaller rank.
LEMMA RankMonotonic ==
    ASSUME NEW s \in Seq(Message), NEW i \in DOMAIN s, NEW j \in DOMAIN s,
           SortsBefore(s, i, j)
    PROVE  Rank(s, i) < Rank(s, j)
<1>1. Preceding(s, i) \in SUBSET Preceding(s, j)
  BY SortsBeforeIsStrictTotalOrder DEF Preceding
<1>2. i \in Preceding(s, j) /\ i \notin Preceding(s, i)
  BY SortsBeforeIsStrictTotalOrder DEF Preceding
<1> QED BY RankInDomain, <1>1, <1>2, FS_Subset

\* Every place of the sorted sequence is the rank of exactly one position.
LEMMA RankIsBijection ==
    ASSUME NEW s \in Seq(Message)
    PROVE  /\ \A i, j \in DOMAIN s : Rank(s, i) = Rank(s, j) => i = j
           /\ \A k \in DOMAIN s : \E i \in DOMAIN s : Rank(s, i) = k
<1>3. ASSUME NEW i \in DOMAIN s, NEW j \in DOMAIN s, Rank(s, i) = Rank(s, j)
      PROVE  i = j
    BY RankInDomain, <1>3, RankMonotonic, SortsBeforeIsStrictTotalOrder
<1> DEFINE f == [i \in DOMAIN s |-> Rank(s, i)]
<1>4. f \in Injection(DOMAIN s, DOMAIN s)
    BY RankInDomain, <1>3 DEF Injection, IsInjective
<1>6. f \in Surjection(DOMAIN s, DOMAIN s)
  <2> HIDE DEF f
  <2> QED BY <1>4, FS_Interval, FS_Injection
<1>7. \A k \in DOMAIN s : \E i \in DOMAIN s : f[i] = k
  <2> HIDE DEF f
  <2> QED  BY <1>6 DEF Surjection
<1> QED  BY <1>3, <1>7

\* Sorting rearranges: same type, same length, the same elements each as
\* often, in canonical order.
THEOREM SortIsSortedRearrangement ==
    ASSUME NEW s \in Seq(Message)
    PROVE  /\ Sort(s) \in Seq(Message)
           /\ Len(Sort(s)) = Len(s)
           /\ Sorted(Sort(s))
           /\ Rearranges(Sort(s), s)
           /\ Elements(Sort(s)) = Elements(s)
<1> DEFINE p == [k \in DOMAIN s |-> CHOOSE i \in DOMAIN s : Rank(s, i) = k]
<1>1. DOMAIN s = 1 .. Len(s) /\ Len(s) \in Nat /\ s \in [1 .. Len(s) -> Message]
  OBVIOUS
<1>2. \A k \in DOMAIN s : p[k] \in DOMAIN s /\ Rank(s, p[k]) = k
  BY RankIsBijection
<1>3. \A i \in DOMAIN s : Rank(s, i) \in DOMAIN s /\ p[Rank(s, i)] = i
  BY <1>1, <1>2, RankInDomain, RankIsBijection
<1>4. Sort(s) = [k \in DOMAIN s |-> s[p[k]]]
  BY DEF Sort
<1> HIDE DEF p
<1>6. DOMAIN Sort(s) = DOMAIN s /\ \A k \in DOMAIN s : Sort(s)[k] = s[p[k]]
  BY <1>4
<1>8. ASSUME NEW k \in DOMAIN s, NEW l \in DOMAIN s, k < l
      PROVE  ~Before(Sort(s)[l], Sort(s)[k])
    BY <1>2, <1>1, <1>6, <1>8, RankMonotonic DEF SortsBefore
<1>10. Rearranges(Sort(s), s)
  <2>1. p \in [DOMAIN s -> DOMAIN s]
      BY <1>2 DEF p
  <2> QED BY <1>6, <2>1, <1>2 DEF Rearranges
<1>11. Elements(Sort(s)) = Elements(s)
  <2>1. \A x : x \in Elements(s) => x \in Elements(Sort(s))
    BY <1>3, <1>6 DEF Elements
  <2>2. \A x : x \in Elements(Sort(s)) => x \in Elements(s)
    BY <1>2, <1>6 DEF Elements
  <2> QED  BY <2>1, <2>2, Zenon
<1> QED BY <1>1, <1>2, <1>4, <1>6, <1>8, <1>10, <1>11 DEF Sorted

\* Admission control keeps a batch within its limit and adds nothing to it.
LEMMA TruncateProperties ==
    ASSUME NEW s \in Seq(Message), NEW n \in Nat
    PROVE  /\ Truncate(s, n) \in Seq(Message)
           /\ Len(Truncate(s, n)) <= n
           /\ Elements(Truncate(s, n)) \subseteq Elements(s)
BY SubSeqProperties DEF Truncate, Elements

\* The elements of a concatenation.
LEMMA ElementsOfConcat ==
    ASSUME NEW s \in Seq(Message), NEW t \in Seq(Message)
    PROVE  /\ s \o t \in Seq(Message)
           /\ Elements(s \o t) = Elements(s) \cup Elements(t)
<1>2. /\ Elements(s \o t) = Range(s \o t)
      /\ Elements(s) = Range(s)
      /\ Elements(t) = Range(t)
  BY DEF Elements, Range
<1> QED BY <1>2, RangeConcatenation

\* r is s followed by t.
Joined(r, s, t) ==
    /\ Len(s) \in Nat /\ DOMAIN s = 1 .. Len(s)
    /\ Len(t) \in Nat /\ DOMAIN t = 1 .. Len(t)
    /\ DOMAIN r = 1 .. Len(s) + Len(t)
    /\ \A i \in 1 .. Len(s) : r[i] = s[i]
    /\ \A i \in 1 .. Len(t) : r[Len(s) + i] = t[i]

\* What concatenation does.
LEMMA ConcatIsJoined ==
    ASSUME NEW s \in Seq(Message), NEW t \in Seq(Message)
    PROVE  Joined(s \o t, s, t)
BY LenProperties, ConcatProperties DEF Joined

\* The order of the natural numbers, as a relation.
Below == {p \in Nat \X Nat : p[1] < p[2]}

\* A set of natural numbers that is not empty has a least element.
LEMMA LeastExists ==
    ASSUME NEW T \in SUBSET Nat, T # {}
    PROVE  \E x \in T : \A y \in T : x <= y
<1>4. PICK x \in T : \A y \in T : ~(<<y, x>> \in Below)
    BY NatLessThanWellFounded, WFMin, Zenon DEF OpToRel, Below
<1>5. ASSUME NEW y \in T PROVE x <= y
    <2>1. <<y, x>> \in Nat \X Nat
        OBVIOUS
    <2> QED BY <1>4, <2>1 DEF Below
<1> QED BY <1>5

\* Induction over the natural numbers, for a set instead of a predicate.
LEMMA SetInduction ==
    ASSUME NEW G, 0 \in G, \A n \in Nat : n \in G => n + 1 \in G
    PROVE  Nat \subseteq G
<1> SUFFICES ASSUME Nat \ G # {} PROVE FALSE
    OBVIOUS
<1>1. PICK x \in Nat \ G : \A y \in Nat \ G : x <= y
    BY LeastExists, Zenon
<1> QED BY <1>1

-----------------------------------------------------------------------------
\* The inductive invariant of the barrier.
BarrierInv == TypeOK /\ ReleaseIsComplete /\ BuffersHoldAccepted

\* The barrier counts n_nodes nodes.
LEMMA NodesAreFinite == IsFiniteSet(Nodes) /\ Cardinality(Nodes) = N
BY BarrierAssumption, FS_Interval DEF Nodes

\* What submit_done buffers is a batch of messages.
LEMMA AdmitType ==
    ASSUME NEW msgs \in Seq(Message)
    PROVE  Admit(msgs) \in Seq(Message)
BY BarrierAssumption, SortIsSortedRearrangement, TruncateProperties DEF Admit

\* QuantumBarrier::new establishes the invariant.
LEMMA InitBarrierInv == Init => BarrierInv
BY FS_EmptySet DEF Init, TypeOK, Returns, Elements, DonesFor, Reporters, Contents, BuffersHoldAccepted,
    ReleaseIsComplete, BarrierInv

-----------------------------------------------------------------------------
\* What one more DONE changes: the set of DONEs, its quantum, no other quantum.
LEMMA WithDoneType ==
    ASSUME NEW dones \in SUBSET Done, NEW node \in Nodes, NEW q \in Nat,
           NEW batch \in Seq(Message)
    PROVE  WithDone(dones, node, q, batch) \in SUBSET Done
BY DEF WithDone, Done

\* The quantum of the DONE gains its node and its messages ...
LEMMA OwnQuantumGrows ==
    ASSUME NEW dones, NEW node, NEW q, NEW batch
    PROVE  /\ Reporters(WithDone(dones, node, q, batch), q) =
                Reporters(dones, q) \cup {node}
           /\ Contents(WithDone(dones, node, q, batch), q) =
                Contents(dones, q) \cup Elements(batch)
<1> DEFINE rec == [node |-> node, quantum |-> q, batch |-> batch]
           more == WithDone(dones, node, q, batch)
<1>1. rec.node = node /\ rec.quantum = q /\ rec.batch = batch
  OBVIOUS
<1>2. more = dones \cup {rec}
  BY DEF WithDone
<1> HIDE DEF rec, more
<1> QED BY <1>1, <1>2 DEF more, Reporters, DonesFor, Contents

\* ... and no other quantum gains anything.
LEMMA OtherQuantaUntouched ==
    ASSUME NEW dones, NEW node, NEW q, NEW batch, NEW r, r # q
    PROVE  /\ Reporters(WithDone(dones, node, q, batch), r) = Reporters(dones, r)
           /\ Contents(WithDone(dones, node, q, batch), r) = Contents(dones, r)
BY DEF DonesFor, WithDone, Reporters, Contents

\* A node that has not reported a quantum can be recorded for it without being
\* counted twice.
LEMMA StillOnePerNode ==
    ASSUME NEW dones \in SUBSET Done, NEW node \in Nodes, NEW q \in Nat,
           NEW batch \in Seq(Message), node \notin Reporters(dones, q),
           \A a, b \in dones : a.node = b.node /\ a.quantum = b.quantum => a = b
    PROVE  \A a, b \in WithDone(dones, node, q, batch) :
               a.node = b.node /\ a.quantum = b.quantum => a = b
BY DEF Reporters, DonesFor, WithDone

-----------------------------------------------------------------------------
\* A stale or rejected DONE leaves the barrier as it was.
LEMMA NoEffectKeepsInv ==
    ASSUME BarrierInv, ret' \in Returns, UNCHANGED <<state, history>>
    PROVE  BarrierInv'
BY DEF state, history, BarrierInv, TypeOK, ReleaseIsComplete, BuffersHoldAccepted

\* The quanta already returned keep their DONEs when one is taken for the
\* current quantum or the next.
LEMMA TakingKeepsReleased ==
    ASSUME BarrierInv, NEW node \in Nodes, NEW batch \in Seq(Message),
           NEW q \in Nat, q >= current_quantum,
           node \notin Reporters(accepted, q),
           accepted' = WithDone(accepted, node, q, batch)
    PROVE  /\ accepted' \in SUBSET Done
           /\ \A a, b \in accepted' :
                 a.node = b.node /\ a.quantum = b.quantum => a = b
           /\ \A k \in DOMAIN released :
                 LET quantum == first + k - 1
                 IN  /\ Reporters(accepted', quantum) = Nodes
                     /\ Sorted(released[k])
                     /\ Elements(released[k]) = Contents(accepted', quantum)
<1>1. accepted \in SUBSET Done
  BY DEF BarrierInv, TypeOK
<1>6. ASSUME NEW k \in DOMAIN released
      PROVE  /\ Reporters(accepted', first + k - 1) = Nodes
             /\ Sorted(released[k])
             /\ Elements(released[k]) = Contents(accepted', first + k - 1)
  <2>1. /\ first \in Nat /\ current_quantum \in Nat /\ Len(released) \in Nat
        /\ k \in 1 .. Len(released)
    BY DEF BarrierInv, TypeOK
  <2>2. current_quantum = first + Len(released)
    BY DEF BarrierInv, ReleaseIsComplete
  <2>3. first + k - 1 \in Nat /\ first + k - 1 # q
    BY <2>1, <2>2
  <2> QED BY <2>3, OtherQuantaUntouched DEF BarrierInv, ReleaseIsComplete
<1> QED BY <1>1, WithDoneType, StillOnePerNode, <1>6 DEF BarrierInv, ReleaseIsComplete

\* A DONE kept aside for the next quantum.
LEMMA LookaheadKeepsInv ==
    ASSUME BarrierInv, NEW node \in Nat, NEW q \in Nat,
           NEW batch \in Seq(Message), SubmitLookahead(node, q, batch)
    PROVE  BarrierInv'
<1>1. /\ node \in Nodes /\ q = current_quantum + 1 /\ current_quantum \in Nat
      /\ q >= current_quantum /\ q # current_quantum
      /\ accepted \in SUBSET Done
  BY BarrierAssumption DEF SubmitLookahead, Nodes, BarrierInv, TypeOK
<1>3. accepted' = WithDone(accepted, node, q, batch)
  BY DEF SubmitLookahead
<1>4. /\ accepted' \in SUBSET Done
      /\ \A a, b \in accepted' :
            a.node = b.node /\ a.quantum = b.quantum => a = b
      /\ \A k \in DOMAIN released :
            LET quantum == first + k - 1
            IN  /\ Reporters(accepted', quantum) = Nodes
                /\ Sorted(released[k])
                /\ Elements(released[k]) = Contents(accepted', quantum)
    BY <1>1, <1>3, TakingKeepsReleased DEF SubmitLookahead, BarrierInv, BuffersHoldAccepted
<1>6. TypeOK'
  BY <1>1, <1>4, ElementsOfConcat
  DEF TypeOK, BarrierInv, SubmitLookahead, Returns
<1>7. BuffersHoldAccepted'
  <2>3. Elements(next_quantum_buffer \o batch) =
          Elements(next_quantum_buffer) \cup Elements(batch)
    BY ElementsOfConcat DEF BarrierInv, TypeOK
  <2>4. \A d \in accepted' : d.quantum \in first .. current_quantum + 1
    <3> QED BY <1>1, <1>3 DEF WithDone, BarrierInv, BuffersHoldAccepted, ReleaseIsComplete, TypeOK
  <2> QED
      BY <1>1, <1>3, OwnQuantumGrows, OtherQuantaUntouched, <2>3, <2>4 DEF BarrierInv, BuffersHoldAccepted,
          SubmitLookahead
<1> QED BY <1>4, <1>6, <1>7 DEF BarrierInv, ReleaseIsComplete, SubmitLookahead

\* A DONE for the current quantum that leaves other nodes to wait for.
LEMMA PartialKeepsInv ==
    ASSUME BarrierInv, NEW node \in Nat, NEW q \in Nat,
           NEW batch \in Seq(Message), SubmitPartial(node, q, batch)
    PROVE  BarrierInv'
<1>1. /\ node \in Nodes /\ q = current_quantum /\ current_quantum \in Nat
      /\ q >= current_quantum /\ accepted \in SUBSET Done
      /\ node \notin done_nodes /\ done_nodes \in SUBSET Nodes
      /\ done_count = Cardinality(done_nodes)
  BY BarrierAssumption DEF SubmitPartial, Nodes, BarrierInv, TypeOK
<1>3. accepted' = WithDone(accepted, node, q, batch)
  BY DEF SubmitPartial
<1>4. /\ accepted' \in SUBSET Done
      /\ \A a, b \in accepted' :
            a.node = b.node /\ a.quantum = b.quantum => a = b
      /\ \A k \in DOMAIN released :
            LET quantum == first + k - 1
            IN  /\ Reporters(accepted', quantum) = Nodes
                /\ Sorted(released[k])
                /\ Elements(released[k]) = Contents(accepted', quantum)
    BY <1>1, <1>3, TakingKeepsReleased DEF BarrierInv, BuffersHoldAccepted
<1>6. TypeOK'
  <2>1. done_count' = Cardinality(done_nodes')
      BY <1>1, NodesAreFinite, FS_Subset, FS_AddElement, Zenon DEF SubmitPartial
  <2> QED BY <1>1, <1>4, <2>1, ElementsOfConcat DEF TypeOK, BarrierInv, SubmitPartial, Returns
<1>7. BuffersHoldAccepted'
  <2>3. Elements(message_buffer \o batch) =
          Elements(message_buffer) \cup Elements(batch)
    BY ElementsOfConcat DEF BarrierInv, TypeOK
  <2>4. \A d \in accepted' : d.quantum \in first .. current_quantum + 1
    <3> QED BY <1>1, <1>3 DEF WithDone, BarrierInv, BuffersHoldAccepted, ReleaseIsComplete, TypeOK
  <2> QED
      BY <1>1, <1>3, OwnQuantumGrows, OtherQuantaUntouched, <2>3, <2>4 DEF BarrierInv, BuffersHoldAccepted,
          SubmitPartial
<1> QED BY <1>4, <1>6, <1>7 DEF BarrierInv, ReleaseIsComplete, SubmitPartial

\* When done_count reaches n_nodes, every node is flagged.
LEMMA LastNodeCompletes ==
    ASSUME TypeOK, NEW node \in Nodes, node \notin done_nodes, done_count + 1 = N
    PROVE  done_nodes \cup {node} = Nodes
<1>2. done_nodes \in SUBSET Nodes /\ done_count = Cardinality(done_nodes)
  BY DEF TypeOK
<1>6. Cardinality(done_nodes \cup {node}) = Cardinality(Nodes)
    BY NodesAreFinite, <1>2, FS_Subset, FS_AddElement
<1> QED BY NodesAreFinite, <1>2, <1>6, FS_Subset

\* The last DONE of the current quantum returns it and promotes the next.
LEMMA ReleaseKeepsInv ==
    ASSUME BarrierInv, NEW node \in Nat, NEW q \in Nat,
           NEW batch \in Seq(Message), SubmitRelease(node, q, batch)
    PROVE  BarrierInv'
<1> DEFINE all == message_buffer \o batch
<1>1. /\ node \in Nodes /\ q = current_quantum /\ current_quantum \in Nat
      /\ q >= current_quantum /\ accepted \in SUBSET Done
      /\ node \notin done_nodes /\ done_nodes \in SUBSET Nodes
      /\ next_quantum_done_nodes \in SUBSET Nodes
      /\ next_quantum_buffer \in Seq(Message)
      /\ message_buffer \in Seq(Message)
      /\ released \in Seq(Seq(Message))
      /\ first \in Nat
      /\ done_count + 1 = N
      /\ current_quantum = first + Len(released)
  BY BarrierAssumption
  DEF SubmitRelease, Nodes, BarrierInv, TypeOK, ReleaseIsComplete
<1>2. node \notin Reporters(accepted, q)
  BY <1>1 DEF BarrierInv, BuffersHoldAccepted
<1>3. accepted' = WithDone(accepted, node, q, batch)
  BY DEF SubmitRelease
<1>4. /\ accepted' \in SUBSET Done
      /\ \A a, b \in accepted' :
            a.node = b.node /\ a.quantum = b.quantum => a = b
      /\ \A k \in DOMAIN released :
            LET quantum == first + k - 1
            IN  /\ Reporters(accepted', quantum) = Nodes
                /\ Sorted(released[k])
                /\ Elements(released[k]) = Contents(accepted', quantum)
  BY <1>1, <1>2, <1>3, TakingKeepsReleased
<1>5. /\ all \in Seq(Message)
      /\ Elements(all) = Elements(message_buffer) \cup Elements(batch)
  BY <1>1, ElementsOfConcat
<1>6. /\ Sort(all) \in Seq(Message)
      /\ Sorted(Sort(all))
      /\ Elements(Sort(all)) = Elements(all)
  BY <1>5, SortIsSortedRearrangement, Zenon
<1>7. /\ Reporters(accepted', q) = Nodes
      /\ Contents(accepted', q) = Elements(Sort(all))
  <2>1. /\ Reporters(accepted', q) = Reporters(accepted, q) \cup {node}
        /\ Contents(accepted', q) = Contents(accepted, q) \cup Elements(batch)
    BY <1>3, OwnQuantumGrows
  <2> QED BY <1>5, <1>6, <2>1, <1>1, LastNodeCompletes DEF BarrierInv, BuffersHoldAccepted
<1>8. /\ released' = Append(released, Sort(all))
      /\ first' = first
      /\ current_quantum' = current_quantum + 1
  BY DEF SubmitRelease
<1> HIDE DEF all
<1>9. /\ released' \in Seq(Seq(Message))
      /\ Len(released') = Len(released) + 1
      /\ DOMAIN released' = 1 .. Len(released) + 1
      /\ \A k \in DOMAIN released : released'[k] = released[k]
      /\ released'[Len(released) + 1] = Sort(all)
      /\ DOMAIN released = 1 .. Len(released) /\ Len(released) \in Nat
  BY <1>1, <1>6, <1>8, AppendProperties
<1>10. ReleaseIsComplete'
  <2>1. ASSUME NEW k \in DOMAIN released'
        PROVE  /\ Reporters(accepted', first + k - 1) = Nodes
               /\ Sorted(released'[k])
               /\ Elements(released'[k]) = Contents(accepted', first + k - 1)
    <3>1. CASE k \in DOMAIN released
      BY <1>4, <1>9, <3>1
    <3>2. CASE k = Len(released) + 1
      <4> QED BY <1>6, <1>7, <1>1, <1>9, <3>2
    <3> QED  BY <1>9, <3>1, <3>2
  <2>2. current_quantum' = first' + Len(released')
    BY <1>1, <1>8, <1>9
  <2> QED  BY <1>4, <1>8, <2>1, <2>2 DEF ReleaseIsComplete
<1>11. TypeOK'
  BY <1>1, <1>4, <1>8, <1>9 DEF TypeOK, SubmitRelease, Returns
<1>12. BuffersHoldAccepted'
  <2>1. /\ Reporters(accepted', current_quantum + 1) =
             Reporters(accepted, current_quantum + 1)
        /\ Contents(accepted', current_quantum + 1) =
             Contents(accepted, current_quantum + 1)
      BY <1>1, <1>3, OtherQuantaUntouched
  <2>2. \A d \in accepted' : d.quantum \in first .. current_quantum + 1
    <3>1. \A d \in accepted : d.quantum \in first .. current_quantum + 1
      BY DEF BarrierInv, BuffersHoldAccepted
    <3> QED  BY <1>1, <1>3, <1>9, <3>1 DEF WithDone
  <2>4. /\ Reporters(accepted', current_quantum + 1 + 1) = {}
        /\ Contents(accepted', current_quantum + 1 + 1) = {}
      BY <1>1, <2>2 DEF Reporters, Contents, DonesFor
  <2>5. \A d \in accepted' : d.quantum \in first' .. current_quantum' + 1
    BY <1>1, <1>8, <2>2
  <2> QED BY <2>5, <1>8, <2>1, <2>4 DEF BuffersHoldAccepted, BarrierInv, SubmitRelease, Elements
<1> QED  BY <1>10, <1>11, <1>12 DEF BarrierInv

\* Without DONEs there are no reporters and no contents.
LEMMA NoDones == \A q : Reporters({}, q) = {} /\ Contents({}, q) = {}
BY DEF DonesFor, Reporters, Contents

\* set_quantum on a barrier no DONE has reached.
LEMMA SetQuantumKeepsInv ==
    ASSUME BarrierInv, NEW q \in Nat, SetQuantum(q)
    PROVE  BarrierInv'
<1>4. BuffersHoldAccepted'
    BY NoDones, Zenon DEF BarrierInv, BuffersHoldAccepted, SetQuantum
<1> QED BY <1>4 DEF BarrierInv, TypeOK, SetQuantum, ReleaseIsComplete

\* reset forgets everything.
LEMMA ResetKeepsInv ==
    ASSUME BarrierInv, Reset
    PROVE  BarrierInv'
BY FS_EmptySet, NoDones DEF Elements, BarrierInv, TypeOK, Reset, ReleaseIsComplete, BuffersHoldAccepted

\* A whole call of submit_done, whatever its arguments.
LEMMA SubmitDoneKeepsInv ==
    ASSUME BarrierInv, NEW node \in Nat, NEW q \in Nat,
           NEW msgs \in Seq(Message), SubmitDone(node, q, msgs)
    PROVE  BarrierInv'
<1>1. CASE SubmitStale(q)
  BY <1>1, NoEffectKeepsInv DEF SubmitStale, Returns
<1>2. CASE Reject(node, q)
  BY <1>2, NoEffectKeepsInv DEF Reject, Returns
<1> DEFINE batch == Admit(msgs)
<1>3. batch \in Seq(Message)
  BY AdmitType
<1> HIDE DEF batch
<1>4. CASE SubmitLookahead(node, q, batch)
  BY <1>3, <1>4, LookaheadKeepsInv
<1>5. CASE SubmitPartial(node, q, batch)
  BY <1>3, <1>5, PartialKeepsInv
<1>6. CASE SubmitRelease(node, q, batch)
  BY <1>3, <1>6, ReleaseKeepsInv
<1> QED  BY <1>1, <1>2, <1>4, <1>5, <1>6 DEF SubmitDone, batch

-----------------------------------------------------------------------------
\* BarrierInv is inductive.
THEOREM BarrierInvariant == Spec => []BarrierInv
<1>1. Init => BarrierInv
  BY InitBarrierInv
<1>2. BarrierInv /\ [Next]_vars => BarrierInv'
  <2> SUFFICES ASSUME BarrierInv, [Next]_vars
               PROVE  BarrierInv'
    OBVIOUS
  <2>1. ASSUME NEW node \in NodeIds, NEW q \in Quanta, NEW msgs \in Batches,
               SubmitDone(node, q, msgs)
        PROVE  BarrierInv'
      BY BarrierAssumption, <2>1, SubmitDoneKeepsInv
  <2>2. ASSUME NEW q \in Quanta, SetQuantum(q)
        PROVE  BarrierInv'
    BY <2>2, BarrierAssumption, SetQuantumKeepsInv
  <2>3. CASE Reset
    BY <2>3, ResetKeepsInv
  <2>4. CASE UNCHANGED vars
      BY <2>4, NoEffectKeepsInv DEF vars, BarrierInv, TypeOK
  <2> QED  BY <2>1, <2>2, <2>3, <2>4 DEF Next
<1> QED  BY <1>1, <1>2, PTL DEF Spec

\* The variables keep their types, and done_count is the number of nodes that
\* are flagged: the test done_count == n_nodes means what it says.
THEOREM BarrierTypeCorrect == Spec => []TypeOK
<1>1. BarrierInv => TypeOK
  BY DEF BarrierInv
<1> QED  BY <1>1, BarrierInvariant, PTL

\* Whatever the callers do, submit_done returns the quanta of an epoch one by
\* one, each reported once by every node, in canonical order, with exactly the
\* admitted messages.
THEOREM BarrierReleasesComplete == Spec => []ReleaseIsComplete
<1>1. BarrierInv => ReleaseIsComplete
  BY DEF BarrierInv
<1> QED  BY <1>1, BarrierInvariant, PTL

\* Nothing that was taken is lost or misfiled before its quantum is returned.
THEOREM BarrierLosesNothing == Spec => []BuffersHoldAccepted
<1>1. BarrierInv => BuffersHoldAccepted
  BY DEF BarrierInv
<1> QED  BY <1>1, BarrierInvariant, PTL

=============================================================================
