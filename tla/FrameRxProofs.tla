---------------------------- MODULE FrameRxProofs ----------------------------
(***************************************************************************)
(* The receive path of netdev and canfd, for every set of frames.          *)
(***************************************************************************)
EXTENDS FrameRx, FiniteSetTheorems, TLAPS

\* The provers of a leaf that names none, and the time they get.
USE SMTT(30), Zenon

-----------------------------------------------------------------------------
\* The frames that leave the heap before f.
EarlierIn(S, f) == {g \in S : Earlier(g, f)}

\* Any two frames have an order, and only one.
LEMMA EarlierIsStrictTotalOrder ==
    ASSUME NEW f \in Frames, NEW g \in Frames, NEW h \in Frames
    PROVE  /\ ~Earlier(f, f)
           /\ Earlier(f, g) /\ Earlier(g, h) => Earlier(f, h)
           /\ f = g \/ Earlier(f, g) \/ Earlier(g, f)
BY FrameAssumption DEF Earlier

\* The position of a frame in the heap is one of 1 .. Cardinality(S).
LEMMA PositionInRange ==
    ASSUME NEW S, S \subseteq Frames, NEW f \in S
    PROVE  /\ IsFiniteSet(EarlierIn(S, f)) /\ Cardinality(EarlierIn(S, f)) \in Nat
           /\ Position(S, f) = Cardinality(EarlierIn(S, f)) + 1
           /\ Position(S, f) \in 1 .. Cardinality(S)
<1>2. IsFiniteSet(S \ {f}) /\ Cardinality(S \ {f}) = Cardinality(S) - 1
    BY FrameAssumption, FS_Subset, FS_CardinalityType, FS_RemoveElement
<1>4. IsFiniteSet(EarlierIn(S, f)) /\ Cardinality(EarlierIn(S, f)) <= Cardinality(S) - 1
    BY <1>2, EarlierIsStrictTotalOrder, FS_Subset DEF EarlierIn
<1> QED BY FrameAssumption, FS_Subset, FS_CardinalityType, <1>4 DEF Position, EarlierIn

\* The earlier frame has the earlier position.
LEMMA PositionMonotonic ==
    ASSUME NEW S, S \subseteq Frames, NEW f \in S, NEW g \in S, Earlier(f, g)
    PROVE  Position(S, f) < Position(S, g)
<1>3. /\ IsFiniteSet(EarlierIn(S, g))
      /\ Cardinality(EarlierIn(S, f)) \in Nat /\ Cardinality(EarlierIn(S, g)) \in Nat
      /\ Position(S, f) = Cardinality(EarlierIn(S, f)) + 1
      /\ Position(S, g) = Cardinality(EarlierIn(S, g)) + 1
  BY PositionInRange
<1> QED BY <1>3, EarlierIsStrictTotalOrder, FS_Subset DEF EarlierIn

\* A frame for every position.
LEMMA PositionTaken ==
    ASSUME NEW S, S \subseteq Frames, NEW k \in 1 .. Cardinality(S)
    PROVE  \E f \in S : Position(S, f) = k
<1> DEFINE n == Cardinality(S)
           p == [f \in S |-> Position(S, f)]
<1>1. IsFiniteSet(S) /\ n \in Nat
  BY FrameAssumption, FS_Subset, FS_CardinalityType
<1>3. ASSUME NEW f \in S, NEW g \in S, Position(S, f) = Position(S, g)
      PROVE  f = g
    BY PositionInRange, <1>3, PositionMonotonic, EarlierIsStrictTotalOrder
<1>4. p \in Injection(S, 1 .. n)
    BY PositionInRange, <1>3 DEF Injection, IsInjective
<1>6. p \in Surjection(S, 1 .. n)
  <2> HIDE DEF p
  <2> QED BY <1>1, <1>4, FS_Interval, FS_Injection
<1>7. \E f \in S : p[f] = k
  <2> HIDE DEF p
  <2> QED  BY <1>6 DEF Surjection
<1> QED  BY <1>7

\* The heap pops every frame once, the earlier ones first.
LEMMA PoppedInOrder ==
    ASSUME NEW S, S \subseteq Frames
    PROVE  /\ Cardinality(S) \in Nat /\ DOMAIN Popped(S) = 1 .. Cardinality(S)
           /\ \A k \in 1 .. Cardinality(S) : Popped(S)[k] \in S
           /\ \A k, l \in 1 .. Cardinality(S) : k < l => Earlier(Popped(S)[k], Popped(S)[l])
<1>3. \A k \in 1 .. Cardinality(S) : Popped(S)[k] \in S /\ Position(S, Popped(S)[k]) = k
    BY PositionTaken DEF Popped
<1>4. ASSUME NEW k \in 1 .. Cardinality(S), NEW l \in 1 .. Cardinality(S), k < l
      PROVE  Earlier(Popped(S)[k], Popped(S)[l])
  <2> DEFINE f == Popped(S)[k]
             g == Popped(S)[l]
  <2> HIDE DEF f, g
  <2> QED BY <1>3, <1>4, PositionMonotonic, EarlierIsStrictTotalOrder DEF f, g
<1> QED BY FrameAssumption, FS_Subset, FS_CardinalityType, <1>3, <1>4 DEF Popped

\* The order of the natural numbers, as a relation.
Smaller == {p \in Nat \X Nat : p[1] < p[2]}

\* The deadline the timer is set to is that of the first frame in the heap.
LEMMA DeadlineOfFrame ==
    ASSUME NEW S, S \subseteq Frames, S # {}
    PROVE  Soonest(S) \in 0 .. MaxTime /\ \A f \in S : Soonest(S) <= f.v
<1> DEFINE T == {f.v : f \in S}
<1>1. T \in SUBSET (0 .. MaxTime) /\ T # {} /\ T \in SUBSET Nat
  BY FrameAssumption
<1> HIDE DEF T
<1>4. PICK x \in T : \A y \in T : ~(<<y, x>> \in Smaller)
    BY <1>1, NatLessThanWellFounded, WFMin, Zenon DEF OpToRel, Smaller
<1>5. \A y \in T : x <= y
  <2> TAKE y \in T
  <2>1. <<y, x>> \in Nat \X Nat /\ x \in Nat /\ y \in Nat
    BY <1>1
  <2> QED BY <2>1, <1>4 DEF Smaller
<1> QED BY <1>1, <1>5 DEF T, Soonest

-----------------------------------------------------------------------------
\* The types of the variables.
RxType ==
    /\ kind \in {"netdev", "canfd"} /\ rust_state \in {"null", "up", "gone"}
    /\ vnow \in 0 .. MaxTime
    /\ onway \subseteq Frames /\ chan \subseteq Frames /\ heap \subseteq Frames
    /\ backlog_count \in Int /\ earliest \in 0 .. Never /\ timer \in 0 .. Never
    /\ arrived \in [Frames -> 0 .. Never]
    /\ out \in Seq([f : Frames, at : 0 .. MaxTime])

\* A frame waits in the channel or in the heap, not in both, and no longer comes.
WaitingInv ==
    /\ \A f \in chan : f \notin heap /\ f \notin onway
    /\ \A f \in heap : f \notin onway
    /\ rust_state # "up" => chan = {} /\ heap = {} /\ backlog_count = 0

\* earliest_vtime may be older than what the timer is set to, but then frames are
\* in the heap, and it never keeps a frame from arming a timer that is not set.
TimerInv ==
    /\ NoFrameForgotten
    /\ rust_state # "gone" =>
          /\ earliest # Never => timer # Never
          /\ \A f \in chan \cup heap : earliest <= f.v
          /\ heap = {} => timer = earliest

\* What the guest has got was due ...
DueInv == \A i \in DOMAIN out : out[i].f \notin onway /\ out[i].f.v <= out[i].at /\ out[i].at <= vnow

\* ... and is earlier than whatever still waits and came in time.
LaterInv == \A i \in DOMAIN out : \A f \in chan \cup heap : arrived[f] < f.v => out[i].f.v < f.v

\* The inductive invariant of the receive path.
RxInv ==
    /\ RxType /\ NoSecondBorrow /\ WaitingInv /\ CountExact /\ TimerInv
    /\ DueInv /\ LaterInv /\ OnTimeInOrder

\* Positions behind the first l, counted from there.
LEMMA ShiftedDown ==
    ASSUME NEW l \in Nat, NEW n \in Nat, NEW i \in l + 1 .. l + n, NEW j \in l + 1 .. l + n, i < j
    PROVE  i - l < j - l /\ i - l \in 1 .. n /\ j - l \in 1 .. n
OBVIOUS

\* The elements of a sequence ...
LEMMA SeqElements ==
    ASSUME NEW S, NEW s \in Seq(S)
    PROVE  Len(s) \in Nat /\ DOMAIN s = 1 .. Len(s) /\ \A i \in DOMAIN s : s[i] \in S
OBVIOUS

\* ... and of one that is made longer.
LEMMA LongerSeq ==
    ASSUME NEW S, NEW s \in Seq(S), NEW n \in Nat, NEW t \in [1 .. n -> S]
    PROVE  /\ s \o t \in Seq(S) /\ DOMAIN (s \o t) = 1 .. Len(s) + n
           /\ \A i \in 1 .. Len(s) : (s \o t)[i] = s[i]
           /\ \A i \in Len(s) + 1 .. Len(s) + n : (s \o t)[i] = t[i - Len(s)]
OBVIOUS

\* What the guest has got is frames, each at a time of the clock.
LEMMA OutType ==
    ASSUME RxType
    PROVE  \A i \in DOMAIN out : /\ out[i] \in [f : Frames, at : 0 .. MaxTime] /\ out[i].f \in Frames
                                 /\ out[i].at \in Nat /\ out[i].f.v \in Nat /\ out[i].f.s \in Nat
<1>2. \A x \in [f : Frames, at : 0 .. MaxTime] : x.f \in Frames /\ x.at \in Nat
  BY FrameAssumption
<1>3. \A f \in Frames : f.v \in Nat /\ f.s \in Nat
  BY FrameAssumption
<1> QED BY SeqElements, <1>2, <1>3, Zenon DEF RxType

\* It holds when the device starts.
LEMMA InitRxInv == FInit => RxInv
<1> SUFFICES ASSUME FInit
             PROVE  RxInv
  OBVIOUS
<1>3. RxType
    BY FrameAssumption DEF FInit, RxType, Never
<1>6. DueInv /\ LaterInv /\ OnTimeInOrder
    BY DEF DueInv, LaterInv, OnTimeInOrder, FInit
<1> QED
    BY <1>3, <1>6 DEF RxInv, FInit, NoSecondBorrow, WaitingInv, TimerInv, NoFrameForgotten, CountExact

\* The device appears, with nothing waiting.
LEMMA AppearKeepsRx == RxInv /\ Appear => RxInv'
<1> SUFFICES ASSUME RxInv, Appear
             PROVE  RxInv'
  OBVIOUS
<1> USE DEF RxInv, Appear
<1>1. chan = {} /\ heap = {} /\ backlog_count = 0 /\ backlog = <<>>
  BY DEF WaitingInv, NoSecondBorrow
<1>4. CountExact'
    BY FS_EmptySet, FrameAssumption, <1>1 DEF CountExact
<1>5. DueInv' /\ LaterInv'
  BY DEF DueInv, LaterInv
<1> QED
    BY <1>1, <1>4, <1>5 DEF RxType, NoSecondBorrow, WaitingInv, TimerInv, NoFrameForgotten, OnTimeInOrder

\* The device goes, and drops what waits.
LEMMA VanishKeepsRx == RxInv /\ Vanish => RxInv'
<1> SUFFICES ASSUME RxInv, Vanish
             PROVE  RxInv'
  OBVIOUS
<1> USE DEF RxInv, Vanish
<1>2. RxType'
    BY FrameAssumption DEF RxType, Never
<1> QED
    BY <1>2 DEF NoSecondBorrow, WaitingInv, TimerInv, NoFrameForgotten, CountExact, DueInv, LaterInv,
        OnTimeInOrder

\* The clock goes on.
LEMMA TickKeepsRx == RxInv /\ Tick => RxInv'
<1> SUFFICES ASSUME RxInv, Tick
             PROVE  RxInv'
  OBVIOUS
<1> USE DEF RxInv, Tick
<1>1. vnow' \in 0 .. MaxTime /\ vnow \in Nat /\ vnow' = vnow + 1
  BY FrameAssumption DEF RxType
<1>2. RxType'
  BY <1>1 DEF RxType, Never
<1>4. DueInv'
    BY OutType, <1>1 DEF DueInv
<1>5. LaterInv' /\ OnTimeInOrder'
  BY DEF LaterInv, OnTimeInOrder
<1> QED
    BY <1>2, <1>4, <1>5 DEF NoSecondBorrow, WaitingInv, TimerInv, NoFrameForgotten, CountExact, Never

\* A frame that has come and is not accepted.
LEMMA RefusedKeepsRx ==
    ASSUME RxInv, NEW f \in onway, onway' = onway \ {f},
           UNCHANGED <<kind, rust_state, vnow, chan, heap, backlog, backlog_count, earliest, timer, crashed,
                       arrived, out>>
    PROVE  RxInv'
BY DEF RxInv, DueInv, LaterInv, RxType, Never, NoSecondBorrow, WaitingInv, TimerInv, NoFrameForgotten,
    CountExact, OnTimeInOrder

\* A frame that is accepted, which netdev counts.
LEMMA AcceptKeepsRx ==
    ASSUME RxInv, NEW f \in onway, onway' = onway \ {f}, rust_state = "up", Accept(f),
           UNCHANGED <<kind, rust_state, vnow, heap, backlog, crashed, out>>,
           \/ kind = "canfd" /\ backlog_count' = backlog_count
           \/ backlog_count < MaxBacklog /\ backlog_count' = backlog_count + 1
    PROVE  RxInv'
<1> USE DEF RxInv
<1>1. /\ f \in Frames /\ f.v \in 0 .. MaxTime /\ MaxTime \in Nat
      /\ Never \in Nat /\ MaxTime < Never
  BY FrameAssumption DEF RxType, Never
<1>2. /\ chan' = chan \cup {f} /\ f \notin chan /\ f \notin heap
      /\ arrived' = [arrived EXCEPT ![f] = vnow]
  BY DEF Accept, WaitingInv
<1>3. /\ earliest' \in 0 .. Never /\ timer' \in 0 .. Never /\ timer' # Never
    BY <1>1 DEF RxType, Accept, ArmFor, TimerInv
<1>5. RxType'
    BY <1>1, <1>2, <1>3 DEF RxType, Never
<1>6. \A g \in chan \cup heap : g.v \in Nat
  BY FrameAssumption DEF RxType
<1>7. TimerInv'
  BY <1>1, <1>2, <1>3, <1>6 DEF RxType, TimerInv, NoFrameForgotten, Never, Accept, ArmFor
<1>8. CountExact'
  <2> SUFFICES ASSUME kind = "netdev"
               PROVE  /\ backlog_count' = Cardinality(chan') + Cardinality(heap) + Len(backlog)
                      /\ backlog_count' <= MaxBacklog
    BY DEF CountExact
  <2>1. backlog_count < MaxBacklog /\ backlog_count' = backlog_count + 1
    OBVIOUS
  <2>3. Cardinality(chan) \in Nat /\ Cardinality(heap) \in Nat
      BY FrameAssumption, FS_Subset, FS_CardinalityType DEF RxType
  <2>4. Cardinality(chan') = Cardinality(chan) + 1
      BY <1>2, FrameAssumption, FS_Subset, FS_AddElement, Zenon DEF RxType
  <2>5. backlog_count = Cardinality(chan) + Cardinality(heap) + Len(backlog) /\ Len(backlog) = 0
    BY DEF CountExact, NoSecondBorrow
  <2> QED  BY <2>1, <2>3, <2>4, <2>5, FrameAssumption DEF RxType
<1>10. \A i \in DOMAIN out : out[i].f # f /\ out[i].f \in Frames
  BY OutType DEF DueInv
<1>11. LaterInv'
  <2> SUFFICES ASSUME NEW i \in DOMAIN out, NEW g \in chan' \cup heap, arrived'[g] < g.v
               PROVE  out[i].f.v < g.v
    BY Zenon DEF LaterInv
  <2>1. CASE g = f
    <3>1. arrived'[g] = vnow
      BY <1>1, <1>2, <2>1 DEF RxType
    <3>3. vnow \in Nat /\ g.v \in Nat
      BY <1>1, <2>1 DEF RxType
    <3> QED BY <3>1, OutType, <3>3 DEF DueInv
  <2>2. CASE g # f
      BY <1>2, <2>2 DEF RxType, LaterInv
  <2> QED  BY <2>1, <2>2
<1>12. OnTimeInOrder'
  <2>1. \A i \in DOMAIN out : arrived'[out[i].f] = arrived[out[i].f]
    BY <1>2, <1>10 DEF RxType
  <2> QED  BY <2>1 DEF OnTimeInOrder
<1> QED BY <1>5, <1>2, <1>7, <1>8, <1>11, <1>12 DEF NoSecondBorrow, WaitingInv, DueInv

\* The callbacks of the two devices.
LEMMA CallbackKeepsRx ==
    ASSUME RxInv, NEW f \in Frames, OnCanFrame(f) \/ OnPacket(f)
    PROVE  RxInv'
<1>1. CASE OnCanFrame(f)
  BY <1>1, AcceptKeepsRx DEF OnCanFrame
<1>2. CASE OnPacket(f)
  <2>1. CASE backlog_count >= MaxBacklog
    BY <1>2, <2>1, RefusedKeepsRx DEF OnPacket
  <2>2. CASE ~(backlog_count >= MaxBacklog)
      BY <2>2, FrameAssumption, <1>2, AcceptKeepsRx DEF RxInv, RxType, OnPacket
  <2> QED  BY <2>1, <2>2
<1> QED  BY <1>1, <1>2

\* What rx_timer_cb moves when the backlog is empty: all that is due.
LEMMA TimerHandsOver ==
    ASSUME RxInv, RxTimer,
           NEW due, due = {f \in heap \cup chan : f.v <= vnow},
           NEW rest, rest = (heap \cup chan) \ due
    PROVE  /\ chan' = {} /\ heap' = rest
           /\ out' = out \o [i \in 1 .. Cardinality(due) |-> [f |-> Popped(due)[i], at |-> vnow]]
           /\ backlog_count' = backlog_count - Uncount(Cardinality(due))
           /\ timer' = IF rest = {} THEN Never ELSE Soonest(rest)
           /\ earliest' = IF rest = {} THEN Never ELSE earliest
           /\ rust_state = "up"
           /\ UNCHANGED <<kind, rust_state, vnow, onway, backlog, crashed, arrived>>
BY Zenon DEF RxInv, NoSecondBorrow, DrainPanics, CanReceive, RxTimer, HandOver, EarliestAfter

\* The frames that are handed over come after those the guest has, in order.
LEMMA HandedInOrder ==
    ASSUME RxInv, NEW due, due \subseteq heap \cup chan, \A f \in due : f.v <= vnow,
           NEW got, got = [i \in 1 .. Cardinality(due) |-> [f |-> Popped(due)[i], at |-> vnow]],
           out' = out \o got, UNCHANGED <<vnow, onway, arrived>>
    PROVE  /\ out' \in Seq([f : Frames, at : 0 .. MaxTime]) /\ DueInv' /\ OnTimeInOrder'
<1> DEFINE n == Cardinality(due)
           R == [f : Frames, at : 0 .. MaxTime]
<1> USE DEF RxInv
<1>1. due \subseteq Frames
  BY DEF RxType
<1>2. n \in Nat /\ \A k \in 1 .. n : Popped(due)[k] \in due
  BY <1>1, PoppedInOrder, ZenonT(60)
<1>3. \A k, l \in 1 .. n : k < l => Earlier(Popped(due)[k], Popped(due)[l])
  BY <1>1, PoppedInOrder
<1>5. got \in [1 .. n -> R]
    BY <1>1, <1>2 DEF RxType
<1>6. out \in Seq(R)
  BY DEF RxType
<1> HIDE DEF n, R
<1>7. Len(out) \in Nat /\ DOMAIN out = 1 .. Len(out)
  BY <1>6, SeqElements
<1>8. n \in Nat
  BY <1>2 DEF n
<1>9. /\ out \o got \in Seq(R) /\ DOMAIN (out \o got) = 1 .. Len(out) + n
      /\ \A i \in 1 .. Len(out) : (out \o got)[i] = out[i]
      /\ \A i \in Len(out) + 1 .. Len(out) + n : (out \o got)[i] = got[i - Len(out)]
  <2>1. \A t \in [1 .. n -> R] :
           /\ out \o t \in Seq(R) /\ DOMAIN (out \o t) = 1 .. Len(out) + n
           /\ \A i \in 1 .. Len(out) : (out \o t)[i] = out[i]
           /\ \A i \in Len(out) + 1 .. Len(out) + n : (out \o t)[i] = t[i - Len(out)]
    BY <1>6, <1>8, LongerSeq
  <2> QED  BY <1>5, <2>1, Zenon
<1>10. /\ out' \in Seq(R) /\ DOMAIN out' = 1 .. Len(out) + n
       /\ \A i \in 1 .. Len(out) : out'[i] = out[i]
       /\ \A i \in Len(out) + 1 .. Len(out) + n : out'[i] = got[i - Len(out)]
  BY <1>9, Zenon
<1>12. ASSUME NEW i \in DOMAIN out'
       PROVE  i \in DOMAIN out \/ i \in Len(out) + 1 .. Len(out) + n
  <2>1. i \in 1 .. Len(out) + n
    BY <1>10, <1>12, ZenonT(60)
  <2> QED  BY <1>7, <1>8, <2>1
<1>13. ASSUME NEW i \in Len(out) + 1 .. Len(out) + n
       PROVE  out'[i].f \in due /\ out'[i].at = vnow /\ out'[i].f = Popped(due)[i - Len(out)]
    BY <1>7, <1>8, <1>10, <1>2, <1>1 DEF n, RxType
<1>14. \A i \in DOMAIN out : out'[i] = out[i]
  BY <1>7, <1>10
<1>15. \A f \in due : f.v <= vnow /\ f \notin onway /\ f.v \in Nat /\ vnow \in Nat /\ vnow <= vnow
  BY <1>1, FrameAssumption DEF RxType, WaitingInv
<1>16. DueInv'
  <2> SUFFICES ASSUME NEW i \in DOMAIN out'
               PROVE  out'[i].f \notin onway /\ out'[i].f.v <= out'[i].at /\ out'[i].at <= vnow
    BY Zenon DEF DueInv
  <2>1. CASE i \in DOMAIN out
    BY <1>14, <2>1 DEF DueInv
  <2>2. CASE i \in Len(out) + 1 .. Len(out) + n
    BY <1>13, <1>15, <2>2, Zenon
  <2> QED  BY <1>12, <2>1, <2>2, ZenonT(60)
<1>17. ASSUME NEW i \in DOMAIN out', NEW j \in DOMAIN out', i < j,
              arrived[out'[i].f] < out'[i].f.v, arrived[out'[j].f] < out'[j].f.v
       PROVE  Earlier(out'[i].f, out'[j].f)
  <2>1. CASE i \in DOMAIN out /\ j \in DOMAIN out
      BY <1>14, <1>17, <2>1 DEF OnTimeInOrder, Earlier
  <2>2. CASE i \in DOMAIN out /\ j \in Len(out) + 1 .. Len(out) + n
      BY <1>13, <2>2, <1>17, <1>14, Zenon DEF LaterInv, Earlier
  <2>3. CASE i \in Len(out) + 1 .. Len(out) + n /\ j \in Len(out) + 1 .. Len(out) + n
      BY <1>7, <1>8, <1>17, <2>3, ShiftedDown, <1>3, <1>13 DEF n
  <2>4. ~(i \in Len(out) + 1 .. Len(out) + n /\ j \in DOMAIN out)
    BY <1>7, <1>8, <1>17
  <2> QED  BY <1>12, <2>1, <2>2, <2>3, <2>4, Zenon
<1>18. OnTimeInOrder'
  <2>2. \A i, j \in DOMAIN out' :
           i < j /\ (\A k \in {i, j} : arrived'[out'[k].f] < out'[k].f.v)
             => Earlier(out'[i].f, out'[j].f)
    BY <1>17, Zenon
  <2> QED
      BY <1>10, SeqElements, FrameAssumption, <1>16, <2>2, Zenon DEF OnTimeInOrder, Earlier, R, DueInv
<1> QED  BY <1>10, <1>16, <1>18, Zenon DEF R

\* The timer: what is left has a timer again, and is later than what was handed over.
LEMMA TimerKeepsRx == RxInv /\ RxTimer => RxInv'
<1> SUFFICES ASSUME RxInv, RxTimer
             PROVE  RxInv'
  OBVIOUS
<1> USE DEF RxInv
<1> DEFINE due == {f \in heap \cup chan : f.v <= vnow}
           rest == (heap \cup chan) \ due
<1>1. /\ chan' = {} /\ heap' = rest
      /\ out' = out \o [i \in 1 .. Cardinality(due) |-> [f |-> Popped(due)[i], at |-> vnow]]
      /\ backlog_count' = backlog_count - Uncount(Cardinality(due))
      /\ timer' = IF rest = {} THEN Never ELSE Soonest(rest)
      /\ earliest' = IF rest = {} THEN Never ELSE earliest
      /\ rust_state = "up"
      /\ UNCHANGED <<kind, rust_state, vnow, onway, backlog, crashed, arrived>>
  BY TimerHandsOver, Zenon
<1>2. /\ due \subseteq heap \cup chan /\ due \cup rest = heap \cup chan /\ due \cap rest = {}
      /\ rest \subseteq heap \cup chan /\ rest \subseteq Frames
      /\ \A f \in due : f.v <= vnow
      /\ \A f \in rest : ~(f.v <= vnow)
  BY DEF RxType
<1> HIDE DEF due, rest
<1>3. /\ out' \in Seq([f : Frames, at : 0 .. MaxTime]) /\ DueInv' /\ OnTimeInOrder'
  BY <1>1, <1>2, HandedInOrder, Zenon
<1>4. Never \in Nat /\ MaxTime \in Nat /\ MaxTime < Never
  BY FrameAssumption DEF Never
<1>6. /\ IsFiniteSet(heap) /\ IsFiniteSet(chan) /\ IsFiniteSet(due) /\ IsFiniteSet(rest)
      /\ Cardinality(due) \in Nat /\ Cardinality(rest) \in Nat
    BY <1>2, FrameAssumption, FS_Subset, FS_CardinalityType DEF RxType
<1>7. RxType'
  <2>1. timer' \in 0 .. Never
      BY <1>1, <1>4, <1>2, DeadlineOfFrame
  <2>3. backlog_count' \in Int
    BY <1>1, <1>6 DEF RxType, Uncount
  <2> QED BY <1>1, <1>2, <1>3, <2>1, <1>4, <2>3 DEF RxType, Never
<1>10. TimerInv'
  <2>2. rest # {} => timer' # Never /\ \A f \in rest : timer' <= f.v
      BY <1>4, <1>1, <1>2, DeadlineOfFrame
  <2> QED BY <1>1, <1>2, <2>2 DEF TimerInv, NoFrameForgotten, Never
<1>11. CountExact'
  <2> SUFFICES ASSUME kind = "netdev"
               PROVE  /\ backlog_count' = Cardinality({}) + Cardinality(rest) + Len(backlog)
                      /\ backlog_count' <= MaxBacklog
    BY <1>1 DEF CountExact
  <2>3. Cardinality(heap \cup chan) = Cardinality(heap) + Cardinality(chan)
    <3>2. Cardinality(heap \cap chan) = 0
        BY FS_EmptySet DEF WaitingInv
    <3>3. Cardinality(heap \cup chan) = Cardinality(heap) + Cardinality(chan) - Cardinality(heap \cap chan)
      BY <1>6, FS_Union
    <3> QED BY <1>6, FS_CardinalityType, <3>2, <3>3
  <2>4. Cardinality(due \cup rest) = Cardinality(due) + Cardinality(rest)
    <3>1. Cardinality(due \cap rest) = 0
      BY <1>2, FS_EmptySet
    <3>2. Cardinality(due \cup rest) = Cardinality(due) + Cardinality(rest) - Cardinality(due \cap rest)
      BY <1>6, FS_Union
    <3> QED  BY <1>6, <3>1, <3>2
  <2>5. Len(backlog) = 0 /\ Cardinality({}) = 0
    BY FS_EmptySet DEF NoSecondBorrow
  <2>7. Cardinality(due) + Cardinality(rest) = Cardinality(heap) + Cardinality(chan)
    BY <1>2, <2>3, <2>4, Zenon
  <2> QED BY <1>6, <1>1, FS_CardinalityType, <2>5, <2>7, FrameAssumption DEF CountExact, Uncount
<1>12. LaterInv'
  <2> SUFFICES ASSUME NEW i \in DOMAIN out', NEW f \in rest
               PROVE  out'[i].f.v < f.v
    BY <1>1, Zenon DEF LaterInv
  <2>1. out'[i].f.v <= out'[i].at /\ out'[i].at <= vnow
    BY <1>1, <1>3, Zenon DEF DueInv
  <2>2. out'[i].f.v \in Nat /\ out'[i].at \in Nat
    <3>2. \A x \in [f : Frames, at : 0 .. MaxTime] : x.f.v \in Nat /\ x.at \in Nat
      BY FrameAssumption
    <3> QED BY <1>3, SeqElements, <3>2, Zenon
  <2> QED BY <2>1, <2>2, <1>2, FrameAssumption DEF RxType
<1> QED BY <1>3, <1>7, <1>1, <1>2, <1>10, <1>11, <1>12 DEF NoSecondBorrow, WaitingInv

-----------------------------------------------------------------------------
\* The invariant of the receive path holds throughout.
THEOREM RxInvariant == FSpec => []RxInv
<1>1. FInit => RxInv
  BY InitRxInv
<1>2. RxInv /\ [FNext]_fvars => RxInv'
  <2> SUFFICES ASSUME RxInv, [FNext]_fvars
               PROVE  RxInv'
    OBVIOUS
  <2>1. CASE NetdevInit \/ CanHostConnect
    BY <2>1, AppearKeepsRx DEF NetdevInit, CanHostConnect
  <2>2. CASE NetdevCleanup \/ CanHostDisconnect
    BY <2>2, VanishKeepsRx DEF NetdevCleanup, CanHostDisconnect
  <2>3. CASE RxTimer
    BY <2>3, TimerKeepsRx
  <2>4. CASE Tick
    BY <2>4, TickKeepsRx
  <2>5. CASE \E f \in Frames : OnCanFrame(f) \/ OnPacket(f)
    BY <2>5, CallbackKeepsRx
  <2>6. CASE UNCHANGED fvars
    <3> USE <2>6 DEF fvars, RxInv
    <3>2. TimerInv' /\ DueInv' /\ LaterInv'
      BY ZenonT(60) DEF TimerInv, NoFrameForgotten, DueInv, LaterInv, Never
    <3> QED BY <3>2 DEF RxType, NoSecondBorrow, WaitingInv, CountExact, Never, OnTimeInOrder
  <2> QED  BY <2>1, <2>2, <2>3, <2>4, <2>5, <2>6 DEF FNext
<1> QED  BY <1>1, <1>2, PTL DEF FSpec

\* Frames that come before their time reach the guest in the order of time and
\* sequence number, and none early, however late or often the timer of rx_timer_cb
\* runs.
THEOREM RxInOrder == FSpec => []OnTimeInOrder
<1>1. RxInv => OnTimeInOrder
  BY DEF RxInv
<1> QED  BY <1>1, RxInvariant, PTL

\* The admission control of netdev counts what waits, exactly, and never above
\* max_backlog.
THEOREM RxCountExact == FSpec => []CountExact
<1>1. RxInv => CountExact
  BY DEF RxInv
<1> QED  BY <1>1, RxInvariant, PTL

\* Whatever waits has a timer, although earliest_vtime is not kept up to date.
THEOREM RxNothingForgotten == FSpec => []NoFrameForgotten
<1>1. RxInv => NoFrameForgotten
  BY DEF RxInv, TimerInv
<1> QED  BY <1>1, RxInvariant, PTL

\* drain_can_backlog and drain_net_backlog never find a frame, so that the second
\* borrow of a BqlGuarded they would make never happens.
THEOREM RxNoSecondBorrow == FSpec => []NoSecondBorrow
<1>1. RxInv => NoSecondBorrow
  BY DEF RxInv
<1> QED  BY <1>1, RxInvariant, PTL
=============================================================================
