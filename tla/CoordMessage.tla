---------------------------- MODULE CoordMessage ----------------------------
(***************************************************************************)
(* The messages the coordinator carries between nodes, and their canonical *)
(* order (tools/deterministic_coordinator/src/barrier.rs).                 *)
(*                                                                         *)
(* The protocol, the base topic and the payload take part in the order     *)
(* only after every other field, and nothing in the barrier looks inside   *)
(* them: together they are one number, `body', their rank in that tail of  *)
(* the order.                                                              *)
(***************************************************************************)
EXTENDS Integers, Sequences, FiniteSets

Message == [vtime : Nat, src : Nat, dst : Nat, seq : Nat, body : Nat]

-----------------------------------------------------------------------------
\* Plausible slips in the comparison, used to test the properties.

\* The source is left out: messages of two nodes for the same instant stay in
\* the order in which they arrived.
KeyWithoutSource(m) == <<m.vtime, m.dst, m.seq>>

\* Cmp is turned round for the instant, as for a heap that pops its greatest.
KeyLatestFirst(m) == <<0 - m.vtime, m.src, m.dst, m.seq, m.body>>

-----------------------------------------------------------------------------
\* The fields in the order Ord::cmp compares them.
Key(m) == <<m.vtime, m.src, m.dst, m.seq, m.body>>

\* Ord::cmp(a, b) = Less: the first field in which the keys differ decides.
Before(a, b) ==
    \E i \in DOMAIN Key(a) :
        /\ Key(a)[i] < Key(b)[i]
        /\ \A j \in 1 .. i - 1 : Key(a)[j] = Key(b)[j]

\* Position i of s comes before position j in a stable sort of s.
SortsBefore(s, i, j) ==
    \/ Before(s[i], s[j])
    \/ ~Before(s[j], s[i]) /\ i < j

\* Where element i of s ends up: one place after everything that precedes it.
Rank(s, i) == Cardinality({j \in DOMAIN s : SortsBefore(s, j, i)}) + 1

\* Vec::sort, which is stable.
Sort(s) == [k \in DOMAIN s |-> s[CHOOSE i \in DOMAIN s : Rank(s, i) = k]]

\* Vec::truncate.
Truncate(s, n) == IF Len(s) > n THEN SubSeq(s, 1, n) ELSE s

\* The elements of s at the positions P, in their order.
Selected(s, P) ==
    LET upTo[k \in 0 .. Len(s)] ==
            IF k = 0 THEN <<>> ELSE upTo[k - 1] \o (IF k \in P THEN <<s[k]>> ELSE <<>>)
    IN  upTo[Len(s)]

\* The elements of a sequence.
Elements(s) == {s[i] : i \in DOMAIN s}

\* t holds the elements of s, each as often, in some order.
Rearranges(t, s) ==
    /\ DOMAIN t = DOMAIN s
    /\ \E p \in [DOMAIN s -> DOMAIN s] :
          /\ \A i, j \in DOMAIN s : p[i] = p[j] => i = j
          /\ \A i \in DOMAIN s : t[i] = s[p[i]]

\* No element comes before an earlier one.
Sorted(s) == \A i, j \in DOMAIN s : i < j => ~Before(s[j], s[i])

=============================================================================
