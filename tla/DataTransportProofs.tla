--------------------------- MODULE DataTransportProofs ---------------------------
(***************************************************************************)
(* What a guest's payloads meet on their way to a device's callback, for   *)
(* every capacity of the queue, number of payloads, set of topics and way  *)
(* to connect the two devices.                                             *)
(*                                                                         *)
(* The eight queues and hands a payload goes through are seen as one line, *)
(* in the order of publication.  TransInv says so, and every step of the   *)
(* sending and of the receiving process keeps it.                          *)
(***************************************************************************)
EXTENDS DataTransport, TLAPS

\* The provers of a leaf that names none, and the time they get.
USE SMTT(30), Zenon

-----------------------------------------------------------------------------
\* The length of a queue.
LEMMA LenProperties ==
    ASSUME NEW S, NEW s \in Seq(S)
    PROVE  Len(s) \in Nat /\ DOMAIN s = 1 .. Len(s) /\ s \in [1 .. Len(s) -> S]
OBVIOUS

\* An empty queue has none.
LEMMA EmptySeq ==
    ASSUME NEW S
    PROVE  /\ <<>> \in Seq(S) /\ Len(<<>>) = 0
           /\ \A s \in Seq(S) : s # <<>> => Len(s) \in Nat \ {0}
OBVIOUS

\* What one item more, and one queue after another, make of it.
LEMMA AppendProperties ==
    ASSUME NEW S, NEW s \in Seq(S), NEW x \in S
    PROVE  /\ Append(s, x) \in Seq(S) /\ Append(s, x) # <<>>
           /\ Len(Append(s, x)) = Len(s) + 1
           /\ \A i \in 1 .. Len(s) : Append(s, x)[i] = s[i]
           /\ Append(s, x)[Len(s) + 1] = x
OBVIOUS

\* Two queues one after the other.
LEMMA ConcatProperties ==
    ASSUME NEW S, NEW s \in Seq(S), NEW t \in Seq(S)
    PROVE  /\ s \o t \in Seq(S) /\ Len(s \o t) = Len(s) + Len(t)
           /\ \A i \in 1 .. Len(s) + Len(t) :
                 (s \o t)[i] = IF i <= Len(s) THEN s[i] ELSE t[i - Len(s)]
OBVIOUS

-----------------------------------------------------------------------------

\* What is queued, and the queues on its way.
Item == [n : Nat \ {0}, topic : Topics]
Stages == 1 .. 8
IsQueues(P) == \A m \in Stages : P[m] \in Seq(Item)

\* The queues in P, the first one nearest to the callback, hold payloads in the
\* order of publication.
Chain(P) ==
    \A k, l \in Stages : \A i \in 1 .. Len(P[k]), j \in 1 .. Len(P[l]) :
        k < l \/ (k = l /\ i < j) => P[k][i].n < P[l][j].n

\* The first item of queue l goes to the end of queue k, past empty ones.
Moved(P, Q, k, l) ==
    /\ k < l /\ P[l] # <<>> /\ \A m \in Stages : k < m /\ m < l => P[m] = <<>>
    /\ Q[k] = Append(P[k], Head(P[l])) /\ Q[l] = Tail(P[l])
    /\ \A m \in Stages \ {k, l} : Q[m] = P[m]

\* Items are taken away at the front, or a queue is emptied.
Trimmed(P, Q) ==
    \A m \in Stages : Q[m] = P[m] \/ Q[m] = <<>> \/ (P[m] # <<>> /\ Q[m] = Tail(P[m]))

-----------------------------------------------------------------------------
\* Moving the first payload of one queue to the end of the next one keeps the
\* line in order.
LEMMA ChainMove ==
    ASSUME NEW P, NEW Q, IsQueues(P), IsQueues(Q), Chain(P), NEW k \in Stages, NEW l \in Stages,
           Moved(P, Q, k, l)
    PROVE  Chain(Q)
<1> USE DEF Moved
<1>1. \A m \in Stages : P[m] \in Seq(Item) /\ Len(P[m]) \in Nat
    BY LenProperties DEF IsQueues
<1>2. Len(P[l]) # 0
    BY <1>1, EmptySeq
<1>4. /\ Len(Q[k]) = Len(P[k]) + 1 /\ Q[k][Len(P[k]) + 1] = P[l][1]
      /\ \A i \in 1 .. Len(P[k]) : Q[k][i] = P[k][i]
    BY <1>1, <1>2, AppendProperties
<1>5. Len(Q[l]) = Len(P[l]) - 1 /\ \A i \in 1 .. Len(P[l]) - 1 : Q[l][i] = P[l][i + 1]
    BY <1>1, <1>2
<1>6. k # l /\ \A m \in Stages : k < m /\ m < l => m \notin {k, l} /\ Len(P[m]) = 0
    BY EmptySeq DEF Stages
<1> SUFFICES ASSUME NEW a \in Stages, NEW b \in Stages, NEW i \in 1 .. Len(Q[a]), NEW j \in 1 .. Len(Q[b]),
                    a < b \/ (a = b /\ i < j)
             PROVE  Q[a][i].n < Q[b][j].n
    BY DEF Chain
<1> DEFINE a2 == IF a = k /\ i = Len(P[k]) + 1 THEN l ELSE a
           i2 == IF a = k /\ i = Len(P[k]) + 1 THEN 1 ELSE IF a = l THEN i + 1 ELSE i
           b2 == IF b = k /\ j = Len(P[k]) + 1 THEN l ELSE b
           j2 == IF b = k /\ j = Len(P[k]) + 1 THEN 1 ELSE IF b = l THEN j + 1 ELSE j
<1>7. i \in Nat /\ j \in Nat /\ i >= 1 /\ j >= 1
    OBVIOUS
<1>8. a2 \in Stages /\ i2 \in 1 .. Len(P[a2]) /\ Q[a][i] = P[a2][i2]
    <2>1. CASE a = k /\ i = Len(P[k]) + 1
        BY <1>1, <1>2, <1>4, <2>1
    <2>2. CASE a = k /\ i # Len(P[k]) + 1
        <3>1. i \in 1 .. Len(P[k])
            BY <1>1, <1>4, <1>7, <2>2
        <3>2. a2 = k /\ i2 = i
            BY <2>2
        <3> QED BY <1>4, <2>2, <3>1, <3>2
    <2>3. CASE a = l
        <3>0. Len(Q[a]) = Len(P[l]) - 1 /\ Len(P[l]) \in Nat
            BY <1>1, <1>5, <2>3, Zenon
        <3>1. i \in 1 .. Len(P[l]) - 1 /\ i + 1 \in 1 .. Len(P[l])
            BY <1>7, <3>0
        <3> QED BY <1>5, <2>3, <3>1, <1>6, Zenon
    <2>4. CASE a \notin {k, l}
        BY <1>1, <1>7, <2>4
    <2> QED BY <2>1, <2>2, <2>3, <2>4
<1>9. b2 \in Stages /\ j2 \in 1 .. Len(P[b2]) /\ Q[b][j] = P[b2][j2]
    <2>1. CASE b = k /\ j = Len(P[k]) + 1
        BY <1>1, <1>2, <1>4, <2>1
    <2>2. CASE b = k /\ j # Len(P[k]) + 1
        <3>1. j \in 1 .. Len(P[k])
            BY <1>1, <1>4, <1>7, <2>2
        <3>2. b2 = k /\ j2 = j
            BY <2>2
        <3> QED BY <1>4, <2>2, <3>1, <3>2
    <2>3. CASE b = l
        <3>0. Len(Q[b]) = Len(P[l]) - 1 /\ Len(P[l]) \in Nat
            BY <1>1, <1>5, <2>3, Zenon
        <3>1. j \in 1 .. Len(P[l]) - 1 /\ j + 1 \in 1 .. Len(P[l])
            BY <1>7, <3>0
        <3> QED BY <1>5, <2>3, <3>1, <1>6, Zenon
    <2>4. CASE b \notin {k, l}
        BY <1>1, <1>7, <2>4
    <2> QED BY <2>1, <2>2, <2>3, <2>4
<1>10. a2 < b2 \/ (a2 = b2 /\ i2 < j2)
    <2>1. ~(k < b /\ b < l) /\ ~(k < a /\ a < l)
        BY <1>6
    <2>2. Len(P[k]) \in Nat /\ (a = k => i <= Len(P[k]) + 1) /\ (b = k => j <= Len(P[k]) + 1)
        BY <1>1, <1>4, <1>7
    <2> QED BY <1>7, <2>1, <2>2 DEF Stages
<1> HIDE DEF a2, b2, i2, j2
<1> QED BY <1>8, <1>9, <1>10 DEF Chain

\* Losing the first payload of some queues keeps the rest of the line in order.
LEMMA ChainDrop ==
    ASSUME NEW P, NEW Q, IsQueues(P), IsQueues(Q), Chain(P), Trimmed(P, Q)
    PROVE  Chain(Q)
<1> USE DEF Trimmed
<1>2. ASSUME NEW m \in Stages
      PROVE  \E d \in {0, 1} : \A i \in 1 .. Len(Q[m]) : i + d \in 1 .. Len(P[m]) /\ Q[m][i] = P[m][i + d]
    <2>1. CASE Q[m] = P[m]
        BY LenProperties, <2>1 DEF IsQueues
    <2>2. CASE Q[m] = <<>>
        BY <2>2
    <2>3. CASE P[m] # <<>> /\ Q[m] = Tail(P[m])
        BY LenProperties, <2>3 DEF IsQueues
    <2> QED BY <1>2, <2>1, <2>2, <2>3
<1> SUFFICES ASSUME NEW a \in Stages, NEW b \in Stages, NEW i \in 1 .. Len(Q[a]), NEW j \in 1 .. Len(Q[b]),
                    a < b \/ (a = b /\ i < j)
             PROVE  Q[a][i].n < Q[b][j].n
    BY DEF Chain
<1>3. PICK d \in {0, 1} : \A m \in 1 .. Len(Q[a]) : m + d \in 1 .. Len(P[a]) /\ Q[a][m] = P[a][m + d]
    BY <1>2, Zenon
<1>4. CASE a = b /\ i < j
    <2>1. j \in 1 .. Len(Q[a]) /\ i + d < j + d
        BY <1>4
    <2> QED BY <1>3, <1>4, <2>1, Zenon DEF Chain
<1>5. CASE a < b
    <2>1. PICK e \in {0, 1} : \A m \in 1 .. Len(Q[b]) : m + e \in 1 .. Len(P[b]) /\ Q[b][m] = P[b][m + e]
        BY <1>2, Zenon
    <2> QED BY <1>3, <1>5, <2>1, Zenon DEF Chain
<1> QED BY <1>4, <1>5

\* q holds the items of s, and then those of t.
Joined(s, t, q) ==
    /\ Len(q) = Len(s) + Len(t)
    /\ \A i \in 1 .. Len(s) + Len(t) : q[i] = IF i <= Len(s) THEN s[i] ELSE t[i - Len(s)]

\* A concatenation joins its two parts.
LEMMA Concatenated ==
    ASSUME NEW s \in Seq(Item), NEW t \in Seq(Item)
    PROVE  Joined(s, t, s \o t)
BY ConcatProperties DEF Joined

\* Where the items of a concatenation of a queue of n items and another one were.
LEMMA PositionInSecond ==
    ASSUME NEW i \in Nat, NEW m \in Nat, NEW n \in Nat, i \in 1 .. m + n, i > m
    PROVE  i - m \in 1 .. n
OBVIOUS

\* The second queue is emptied into the first.
LEMMA ChainFlush ==
    ASSUME NEW P, NEW Q, IsQueues(P), IsQueues(Q), Chain(P),
           Joined(P[1], P[2], Q[1]), Q[2] = <<>>, \A m \in 3 .. 8 : Q[m] = P[m]
    PROVE  Chain(Q)
<1>1. \A m \in Stages : P[m] \in Seq(Item) /\ Len(P[m]) \in Nat
    BY LenProperties DEF IsQueues
<1>2. Len(P[1]) \in Nat /\ Len(P[2]) \in Nat
    BY <1>1 DEF Stages
<1>3. Len(Q[2]) = 0
    OBVIOUS
<1> SUFFICES ASSUME NEW a \in Stages, NEW b \in Stages, NEW i \in 1 .. Len(Q[a]), NEW j \in 1 .. Len(Q[b]),
                    a < b \/ (a = b /\ i < j)
             PROVE  Q[a][i].n < Q[b][j].n
    BY Zenon DEF Chain
<1>4. i \in Nat /\ j \in Nat /\ i >= 1 /\ j >= 1 /\ a # 2 /\ b # 2
    BY <1>3
<1> DEFINE a2 == IF a = 1 /\ i > Len(P[1]) THEN 2 ELSE a
           i2 == IF a = 1 /\ i > Len(P[1]) THEN i - Len(P[1]) ELSE i
           b2 == IF b = 1 /\ j > Len(P[1]) THEN 2 ELSE b
           j2 == IF b = 1 /\ j > Len(P[1]) THEN j - Len(P[1]) ELSE j
<1>5. a2 \in Stages /\ i2 \in 1 .. Len(P[a2]) /\ Q[a][i] = P[a2][i2]
    <2>1. CASE a = 1
        <3>2. Q[1][i] = IF i <= Len(P[1]) THEN P[1][i] ELSE P[2][i - Len(P[1])]
            BY <1>2, <1>4, <2>1, Zenon DEF Joined
        <3>3. CASE i > Len(P[1])
            <4>1. a2 = 2 /\ i2 = i - Len(P[1]) /\ i2 \in 1 .. Len(P[2])
                BY <2>1, <3>3, <1>2, <1>4, PositionInSecond, Zenon DEF Joined
            <4> HIDE DEF a2, i2
            <4> QED BY <2>1, <4>1, <1>2, <1>4, <3>2, <3>3 DEF Stages
        <3>4. CASE ~(i > Len(P[1]))
            <4>1. a2 = 1 /\ i2 = i /\ i \in 1 .. Len(P[1])
                BY <1>1, <1>4, <2>1, <3>4 DEF Stages
            <4> QED BY <1>1, <1>4, <2>1, <3>2, <3>4, <4>1 DEF Stages
        <3> QED BY <3>3, <3>4
    <2>2. CASE a # 1
        <3>1. a \in 3 .. 8 /\ a2 = a /\ i2 = i
            BY <1>4, <2>2 DEF Stages
        <3> QED BY <1>1, <1>4, <3>1, Zenon
    <2> QED BY <2>1, <2>2
<1>6. b2 \in Stages /\ j2 \in 1 .. Len(P[b2]) /\ Q[b][j] = P[b2][j2]
    <2>1. CASE b = 1
        <3>2. Q[1][j] = IF j <= Len(P[1]) THEN P[1][j] ELSE P[2][j - Len(P[1])]
            BY <1>2, <1>4, <2>1, Zenon DEF Joined
        <3>3. CASE j > Len(P[1])
            <4>1. b2 = 2 /\ j2 = j - Len(P[1]) /\ j2 \in 1 .. Len(P[2])
                BY <2>1, <3>3, <1>2, <1>4, PositionInSecond, Zenon DEF Joined
            <4> HIDE DEF b2, j2
            <4> QED BY <2>1, <4>1, <1>2, <1>4, <3>2, <3>3 DEF Stages
        <3>4. CASE ~(j > Len(P[1]))
            <4>1. b2 = 1 /\ j2 = j /\ j \in 1 .. Len(P[1])
                BY <1>1, <1>4, <2>1, <3>4 DEF Stages
            <4> QED BY <1>1, <1>4, <2>1, <3>2, <3>4, <4>1 DEF Stages
        <3> QED BY <3>3, <3>4
    <2>2. CASE b # 1
        <3>1. b \in 3 .. 8 /\ b2 = b /\ j2 = j
            BY <1>4, <2>2 DEF Stages
        <3> QED BY <1>1, <1>4, <3>1, Zenon
    <2> QED BY <2>1, <2>2
<1>7. a2 < b2 \/ (a2 = b2 /\ i2 < j2)
    <2>1. a \in Stages \ {2} /\ b \in Stages \ {2}
        BY <1>4
    <2> QED BY <1>2, <1>4 DEF Stages
<1> HIDE DEF a2, b2, i2, j2
<1> QED BY <1>5, <1>6, <1>7 DEF Chain

\* The items of q are those of p and, perhaps, z at the end.
Added(p, q, z) ==
    \A i \in 1 .. Len(q) : (i \in 1 .. Len(p) /\ q[i] = p[i]) \/ (i = Len(p) + 1 /\ q[i] = z)

\* Append adds one payload, or the queue stays as it is.
LEMMA Appended ==
    ASSUME NEW p \in Seq(Item), NEW z \in Item
    PROVE  Added(p, p, z) /\ Added(p, Append(p, z), z)
BY AppendProperties DEF Added

\* The last queue holds the next payload to be published: when it is published
\* it joins the one before, or is dropped.
LEMMA ChainPublish ==
    ASSUME NEW P, NEW Q, IsQueues(P), IsQueues(Q), Chain(P), NEW x \in Item, NEW y \in Item, NEW z \in Item,
           P[8] = <<x>>, Q[8] = <<y>>, z.n = x.n, x.n < y.n,
           Added(P[7], Q[7], z), \A m \in 1 .. 6 : Q[m] = P[m]
    PROVE  Chain(Q)
<1>1. \A m \in Stages : P[m] \in Seq(Item) /\ Len(P[m]) \in Nat
    BY LenProperties DEF IsQueues
<1>2. Len(P[8]) = 1 /\ P[8][1] = x /\ Len(Q[8]) = 1 /\ Q[8][1] = y
    OBVIOUS
<1>3. \A a \in 1 .. 7 : \A i \in 1 .. Len(P[a]) : P[a][i].n < x.n
    <2>1. \A a \in 1 .. 7 : a \in Stages /\ 8 \in Stages /\ a < 8
        BY DEF Stages
    <2>2. 1 \in 1 .. Len(P[8])
        BY <1>2
    <2> QED BY <1>2, <2>1, <2>2, Zenon DEF Chain
<1>4. \A a \in 1 .. 7 : \A i \in 1 .. Len(Q[a]) :
          (i \in 1 .. Len(P[a]) /\ Q[a][i] = P[a][i]) \/ (a = 7 /\ i = Len(P[7]) + 1 /\ Q[a][i] = z)
    <2>1. \A a \in 1 .. 7 : a = 7 \/ a \in 1 .. 6
        OBVIOUS
    <2> QED BY <2>1, Zenon DEF Added
<1> SUFFICES ASSUME NEW a \in Stages, NEW b \in Stages, NEW i \in 1 .. Len(Q[a]), NEW j \in 1 .. Len(Q[b]),
                    a < b \/ (a = b /\ i < j)
             PROVE  Q[a][i].n < Q[b][j].n
    BY DEF Chain
<1>5. a \in 1 .. 7
    <2>2. b = 8 => j \in 1 .. 1
        BY <1>2, Zenon
    <2> QED BY <2>2, <1>2 DEF Stages
<1>6. CASE b = 8
    <2>1. Q[b][j] = y
        BY <1>2, <1>6
    <2>2. CASE Q[a][i] = z
        BY <2>1, <2>2
    <2>3. CASE i \in 1 .. Len(P[a]) /\ Q[a][i] = P[a][i]
        <3>1. P[a][i] \in Item
            BY <1>1, <2>3
        <3>3. \A k, l, m \in Nat : k < l /\ l < m => k < m
            OBVIOUS
        <3> QED BY <2>1, <2>3, <1>3, <1>5, <3>3, <3>1, Zenon DEF Item
    <2> QED BY <1>4, <1>5, <2>2, <2>3, Zenon
<1>7. CASE b \in 1 .. 7 /\ j \in 1 .. Len(P[b]) /\ Q[b][j] = P[b][j]
    <2>1. CASE a = 7 /\ i = Len(P[7]) + 1
        <3>1. b = 7 /\ i < j
            BY <1>7, <2>1
        <3> QED BY <2>1, <3>1, <1>1, <1>7 DEF Stages
    <2>2. CASE i \in 1 .. Len(P[a]) /\ Q[a][i] = P[a][i]
        BY <1>7, <2>2 DEF Chain
    <2> QED BY <1>4, <1>5, <2>1, <2>2, Zenon
<1>8. CASE b = 7 /\ j = Len(P[7]) + 1 /\ Q[b][j] = z
    <2>1. ~(a = 7 /\ i = Len(P[7]) + 1)
        BY <1>1, <1>8 DEF Stages
    <2> QED BY <1>3, <1>5, <1>8, <1>4, <2>1, Zenon
<1>9. b = 8 \/ b \in 1 .. 7
    BY DEF Stages
<1> QED BY <1>4, <1>6, <1>7, <1>8, <1>9, Zenon

-----------------------------------------------------------------------------
(* The queues of a state, and the inductive invariant.                     *)

\* The stations, from the callback back to the payload that comes next.
NextItem == [n |-> sent + 1, topic |-> Subscribed]
Pipe ==
    [k \in Stages |-> CASE k = 1 -> called [] k = 2 -> rx [] k = 3 -> One(item)
                        [] k = 4 -> down["receiver"] [] k = 5 -> upstream [] k = 6 -> One(hand)
                        [] k = 7 -> tx [] k = 8 -> <<NextItem>>]

\* The types of the stations.
TransType ==
    /\ kind \in {"zenoh", "unix"} /\ sub \in {"SafeSubscription", "SafeSubscriber"}
    /\ sent \in Nat /\ dropped \in Nat /\ failed \in Nat /\ ignored \in Nat
    /\ tx \in Seq(Item) /\ upstream \in Seq(Item) /\ rx \in Seq(Item) /\ called \in Seq(Item)
    /\ down \in [{"sender", "receiver"} -> Seq(Item)]
    /\ hand \in Item \cup {None} /\ item \in Item \cup {None}
    /\ "receiver" \in clients
    /\ net \in {"read", "check", "send", "kick", "enter", "lock", "leave"}

\* The receive thread holds a payload exactly between reading it and handing it
\* on, each subscription has steps of its own, and a drop begins by clearing
\* is_valid.
Places ==
    /\ item = None <=> net \in {"read", "kick", "leave"}
    /\ net \in {"check", "send", "kick"} => sub = "SafeSubscription"
    /\ net \in {"enter", "lock", "leave"} => sub = "SafeSubscriber"
    /\ sub = "SafeSubscriber" => rx = <<>>
    /\ kind = "zenoh" => upstream = <<>>
    /\ is_valid => main = "alive"

\* The payloads of Conserved, counted on the sender's side, on the wire and on
\* the receiver's side.
Lost == dropped + failed
Sending == Lost + Len(tx) + Len(One(hand))
OnWire == ignored + Len(upstream) + Len(down["receiver"])
Receiving == Len(One(item)) + Len(rx) + Len(called)
Counted == is_valid /\ generation = 0 /\ tx_valid => sent = Sending + OnWire + Receiving

\* The inductive invariant of the transport.
TransInv == TransType /\ Places /\ Chain(Pipe) /\ Counted

-----------------------------------------------------------------------------
\* Empty hands are told from a payload.
LEMMA NoneIsNoItem == None \notin Item /\ Item = [n : Nat \ {0}, topic : Topics]
BY DEF None, Item

\* What a thread has in its hands is a queue of at most one payload.
LEMMA HandQueue ==
    ASSUME NEW p \in Item \cup {None}
    PROVE  /\ One(p) \in Seq(Item) /\ Len(One(p)) \in Nat
           /\ p = None => One(p) = <<>> /\ Len(One(p)) = 0
           /\ p # None => One(p) = <<p>> /\ Len(One(p)) = 1 /\ One(p) # <<>> /\ Head(One(p)) = p
                            /\ Tail(One(p)) = <<>> /\ One(p) = Append(<<>>, p)
BY DEF One

\* The eight queues of a state ...
LEMMA PipeNow ==
    ASSUME TransType
    PROVE  /\ IsQueues(Pipe) /\ NextItem \in Item /\ NextItem.n = sent + 1
           /\ Pipe[1] = called /\ Pipe[2] = rx /\ Pipe[3] = One(item) /\ Pipe[4] = down["receiver"]
           /\ Pipe[5] = upstream /\ Pipe[6] = One(hand) /\ Pipe[7] = tx /\ Pipe[8] = <<NextItem>>
<1>2. <<NextItem>> \in Seq(Item)
    BY TransportAssumption DEF TransType, Item, NextItem
<1>6. \A m \in Stages : Pipe[m] \in Seq(Item)
    <2>1. Stages = {1, 2, 3, 4, 5, 6, 7, 8}
        BY DEF Stages
    <2> QED BY <1>2, HandQueue, <2>1, Zenon DEF TransType, Pipe, Stages
<1> QED BY TransportAssumption, <1>6 DEF IsQueues, Pipe, Stages, TransType, Item, NextItem

\* ... and of the state after a step.
LEMMA PipeNext ==
    ASSUME TransType'
    PROVE  /\ IsQueues(Pipe') /\ NextItem' \in Item /\ NextItem'.n = sent' + 1
           /\ Pipe'[1] = called' /\ Pipe'[2] = rx' /\ Pipe'[3] = One(item)' /\ Pipe'[4] = down["receiver"]'
           /\ Pipe'[5] = upstream' /\ Pipe'[6] = One(hand)' /\ Pipe'[7] = tx' /\ Pipe'[8] = <<NextItem>>'
<1>1. NextItem' \in Item /\ NextItem'.n = sent' + 1
    <2>1. sent' + 1 \in Nat \ {0}
        <3>1. \A k \in Nat : k + 1 \in Nat \ {0}
            OBVIOUS
        <3> QED BY <3>1, Zenon DEF TransType
    <2> QED BY <2>1, TransportAssumption DEF Item, NextItem
<1>2. <<NextItem>>' \in Seq(Item)
    BY <1>1
<1>6. \A m \in Stages : Pipe'[m] \in Seq(Item)
    <2>1. Stages = {1, 2, 3, 4, 5, 6, 7, 8}
        BY DEF Stages
    <2> QED BY <1>2, HandQueue, <2>1, Zenon DEF TransType, Pipe, Stages
<1> QED BY <1>1, <1>6 DEF IsQueues, Pipe, Stages

\* There are eight of them.
LEMMA StageCases ==
    \A m \in Stages : m = 1 \/ m = 2 \/ m = 3 \/ m = 4 \/ m = 5 \/ m = 6 \/ m = 7 \/ m = 8
BY DEF Stages

\* They are queues of payloads before and after a step.
LEMMA BothQueues ==
    ASSUME TransType, TransType'
    PROVE  /\ IsQueues(Pipe) /\ IsQueues(Pipe')
           /\ 1 \in Stages /\ 2 \in Stages /\ 3 \in Stages /\ 4 \in Stages
           /\ 5 \in Stages /\ 6 \in Stages /\ 7 \in Stages
BY PipeNow, PipeNext DEF Stages

\* A variable that a step leaves alone is a queue that it leaves alone.
LEMMA StagesKept ==
    ASSUME TransType, TransType'
    PROVE  /\ called' = called => Pipe'[1] = Pipe[1]
           /\ rx' = rx => Pipe'[2] = Pipe[2]
           /\ item' = item => Pipe'[3] = Pipe[3]
           /\ down'["receiver"] = down["receiver"] => Pipe'[4] = Pipe[4]
           /\ upstream' = upstream => Pipe'[5] = Pipe[5]
           /\ hand' = hand => Pipe'[6] = Pipe[6]
           /\ tx' = tx => Pipe'[7] = Pipe[7]
           /\ sent' = sent => Pipe'[8] = Pipe[8]
BY PipeNow, PipeNext DEF NextItem

\* TransInv holds when the two devices have connected.
LEMMA InitTransInv == DInit => TransInv
<1> SUFFICES ASSUME DInit PROVE TransInv
    OBVIOUS
<1>1. PICK s \in Setups : kind = s[1] /\ sub = s[2]
    BY DEF DInit
<1>3. TransType
    BY <1>1, TransportAssumption DEF DInit, TransType
<1>5. Chain(Pipe)
    <2> DEFINE e == <<>>
    <2>1. down["receiver"] = e /\ One(None) = e /\ Len(e) = 0 /\ Len(<<NextItem>>) = 1
        BY DEF DInit, One
    <2> HIDE DEF e
    <2>3. /\ Pipe[1] = e /\ Pipe[2] = e /\ Pipe[3] = e /\ Pipe[4] = e /\ Pipe[5] = e
          /\ Pipe[6] = e /\ Pipe[7] = e /\ Pipe[8] = <<NextItem>>
        BY <1>3, <2>1, PipeNow DEF DInit
    <2>4. \A k \in Stages : \A i \in 1 .. Len(Pipe[k]) : k = 8 /\ i = 1
        <3>1. \A k \in Stages : k = 8 \/ Len(Pipe[k]) = 0
            BY <2>1, <2>3 DEF Stages
        <3>2. Len(Pipe[8]) = 1
            BY <2>1, <2>3
        <3>3. 1 .. 0 = {} /\ 1 .. 1 = {1}
            OBVIOUS
        <3> QED BY <3>1, <3>2, <3>3, ZenonT(60)
    <2> QED BY <2>4 DEF Chain
<1>6. Counted
    BY <1>3, HandQueue DEF DInit, Counted, Sending, Lost, OnWire, Receiving, TransType
<1> QED BY <1>3, <1>5, <1>6 DEF TransInv, DInit, Places

-----------------------------------------------------------------------------
\* Writing to one client's socket leaves the other one's alone.
LEMMA DownUpdated ==
    ASSUME NEW d \in [{"sender", "receiver"} -> Seq(Item)], NEW c \in {"sender", "receiver"}, NEW q \in Seq(Item)
    PROVE  /\ [d EXCEPT ![c] = q] \in [{"sender", "receiver"} -> Seq(Item)]
           /\ [d EXCEPT ![c] = q][c] = q
           /\ \A x \in {"sender", "receiver"} : x # c => [d EXCEPT ![c] = q][x] = d[x]
OBVIOUS

\* What a queue is without its first item.
LEMMA Shortened ==
    ASSUME NEW q \in Seq(Item), q # <<>>
    PROVE  Head(q) \in Item /\ Tail(q) \in Seq(Item) /\ Len(q) \in Nat /\ Len(q) # 0 /\ Len(Tail(q)) = Len(q) - 1
OBVIOUS

\* What Counted adds up are natural numbers.
LEMMA CountingTypes ==
    ASSUME TransType
    PROVE  /\ sent \in Nat /\ Lost \in Nat /\ ignored \in Nat
           /\ Len(tx) \in Nat /\ Len(upstream) \in Nat /\ Len(down["receiver"]) \in Nat /\ Len(rx) \in Nat
           /\ Len(called) \in Nat /\ Len(One(hand)) \in Nat /\ Len(One(item)) \in Nat
BY HandQueue, LenProperties DEF TransType, Lost

\* What a step may do to the three counts.
LEMMA CountStep ==
    ASSUME TransType, Counted,
           is_valid' /\ generation' = 0 /\ tx_valid' =>
               /\ is_valid /\ generation = 0 /\ tx_valid
               /\ \/ sent' = sent + 1 /\ Sending' = Sending + 1 /\ OnWire' = OnWire /\ Receiving' = Receiving
                  \/ sent' = sent /\ Sending' = Sending /\ OnWire' = OnWire /\ Receiving' = Receiving
                  \/ sent' = sent /\ Sending' = Sending - 1 /\ OnWire' = OnWire + 1 /\ Receiving' = Receiving
                  \/ sent' = sent /\ Sending' = Sending /\ OnWire' = OnWire - 1 /\ Receiving' = Receiving + 1
    PROVE  Counted'
<1>1. \A a, b, c \in Nat : a + b + c \in Nat
    OBVIOUS
<1>2. sent \in Nat /\ Sending \in Nat /\ OnWire \in Nat /\ Receiving \in Nat
    BY <1>1, CountingTypes, Zenon DEF Sending, OnWire, Receiving
<1> SUFFICES ASSUME is_valid' /\ generation' = 0 /\ tx_valid'
             PROVE  sent' = Sending' + OnWire' + Receiving'
    BY DEF Counted
<1> QED BY <1>2 DEF Counted

\* The steps that touch no payload on its way to the receiver.
LEMMA QuietStep ==
    ASSUME TransInv,
           \/ HubRealize \/ SenderRealize \/ HubFinalize \/ SenderFinalize \/ DropPublisher \/ SenderReads
           \/ Kick \/ EnterCallback \/ LeaveCallback \/ NewGeneration \/ BeginDrop \/ UNCHANGED vars
    PROVE  TransInv'
<1> DEFINE Kept ==
               /\ UNCHANGED <<kind, sub, sent, dropped, failed, ignored, tx, upstream, rx, called, hand, item,
                             clients>>
               /\ \/ UNCHANGED down
                  \/ down["sender"] # <<>> /\ down' = [down EXCEPT !["sender"] = Tail(@)]
           Advanced ==
               /\ \/ UNCHANGED net
                  \/ net = "kick" /\ net' = "read"
                  \/ net = "enter" /\ net' = "lock"
                  \/ net = "leave" /\ net' = "read"
               /\ is_valid' => is_valid /\ main' = main
               /\ is_valid' /\ generation' = 0 /\ tx_valid' => is_valid /\ generation = 0 /\ tx_valid
<1>1. Kept /\ Advanced
    <2>1. CASE HubRealize
        BY <2>1 DEF HubRealize, setup, tx_side, wire, rx_side
    <2>2. CASE SenderRealize
        BY <2>2 DEF SenderRealize, setup, tx_side, wire, rx_side
    <2>3. CASE HubFinalize
        BY <2>3 DEF HubFinalize, setup, tx_side, wire, rx_side
    <2>4. CASE SenderFinalize
        BY <2>4 DEF SenderFinalize, setup, tx_side, wire, rx_side
    <2>5. CASE DropPublisher
        BY <2>5 DEF DropPublisher, setup, tx_side, wire, rx_side
    <2>6. CASE SenderReads
        BY <2>6 DEF SenderReads, setup, tx_side, wire, rx_side
    <2>7. CASE Kick
        BY <2>7 DEF Kick, setup, tx_side, wire, rx_side
    <2>8. CASE EnterCallback
        BY <2>8 DEF EnterCallback, setup, tx_side, wire, rx_side
    <2>9. CASE LeaveCallback
        BY <2>9 DEF LeaveCallback, setup, tx_side, wire, rx_side
    <2>10. CASE NewGeneration
        BY <2>10 DEF NewGeneration, setup, tx_side, wire, rx_side
    <2>11. CASE BeginDrop
        BY <2>11 DEF BeginDrop, setup, tx_side, wire, rx_side
    <2>12. CASE UNCHANGED vars
        BY <2>12 DEF vars, setup, tx_side, wire, rx_side
    <2> QED BY <2>1, <2>2, <2>3, <2>4, <2>5, <2>6, <2>7, <2>8, <2>9, <2>10, <2>11, <2>12, Zenon
<1>3. down' \in [{"sender", "receiver"} -> Seq(Item)] /\ down'["receiver"] = down["receiver"]
    <2>2. CASE UNCHANGED down
        BY <2>2 DEF TransInv, TransType
    <2>3. CASE down["sender"] # <<>> /\ down' = [down EXCEPT !["sender"] = Tail(@)]
        BY <2>3, Shortened, DownUpdated DEF TransInv, TransType
    <2> QED BY <1>1, <2>2, <2>3
<1>5. Places'
    BY <1>1 DEF TransInv, Places
<1>6. Chain(Pipe')
    <2>1. Pipe' = Pipe
        BY <1>1, <1>3 DEF Pipe, NextItem
    <2> QED BY <2>1 DEF TransInv
<1>7. Counted'
    BY <1>1, <1>3 DEF Sending, Lost, OnWire, Receiving, TransInv, Counted
<1> QED BY <1>1, <1>3, <1>5, <1>6, <1>7 DEF TransInv, TransType

\* A payload published joins the end of the line, or is dropped and counted.
LEMMA PublishStep ==
    ASSUME TransInv, NEW t \in Topics, Publish(t)
    PROVE  TransInv'
<1> DEFINE x == [n |-> sent + 1, topic |-> t]
<1>1. /\ UNCHANGED <<kind, sub, ignored, upstream, down, rx, called, hand, item, clients, net, is_valid,
                     generation, main, tx_valid>>
      /\ sent' = sent + 1
      /\ \/ dropped' = dropped + 1 /\ failed' = failed /\ tx' = tx
         \/ dropped' = dropped /\ failed' = failed + 1 /\ tx' = tx
         \/ dropped' = dropped /\ failed' = failed /\ tx' = Append(tx, x)
    BY DEF Publish, setup, wire, rx_side
<1>2. sent \in Nat /\ dropped \in Nat /\ failed \in Nat /\ tx \in Seq(Item)
    BY DEF TransInv, TransType
<1>3. x \in Item /\ x.n = sent + 1
    BY <1>2 DEF Item
<1> HIDE DEF x
<1>4. sent' \in Nat /\ dropped' \in Nat /\ failed' \in Nat /\ tx' \in Seq(Item)
    BY <1>1, <1>2, <1>3
<1>5. TransType'
    BY <1>1, <1>4 DEF TransInv, TransType
<1>7. Chain(Pipe')
    <2>1. Added(tx, tx', x)
        BY <1>1, <1>2, <1>3, Appended, Zenon
    <2>3. /\ IsQueues(Pipe') /\ NextItem' \in Item /\ NextItem'.n = sent' + 1
          /\ Pipe'[1] = called /\ Pipe'[2] = rx /\ Pipe'[3] = One(item) /\ Pipe'[4] = down["receiver"]
          /\ Pipe'[5] = upstream /\ Pipe'[6] = One(hand) /\ Pipe'[7] = tx' /\ Pipe'[8] = <<NextItem'>>
        BY <1>1, <1>5, PipeNext
    <2>5. NextItem.n < NextItem'.n /\ x.n = NextItem.n
        BY <1>1, <1>2, <1>3, PipeNow, <2>3 DEF TransInv
    <2> QED BY <1>3, <2>1, PipeNow, <2>3, <2>5, ChainPublish DEF TransInv
<1>8. Counted'
    <2>1. Len(tx) \in Nat /\ (tx' = Append(tx, x) => Len(tx') = Len(tx) + 1)
        BY <1>2, <1>3
    <2>2. Lost' + Len(tx') = Lost + Len(tx) + 1 /\ Lost' \in Nat
        BY <1>1, <1>2, <2>1 DEF Lost
    <2>4. Sending' = Sending + 1
        BY <1>1, <1>2, <2>1, <2>2, <1>4, CountingTypes DEF TransInv, Sending
    <2> QED BY <1>1, <1>5, <2>4, CountStep DEF TransInv, OnWire, Receiving
<1> QED BY <1>5, <1>1, <1>7, <1>8 DEF TransInv, Places

\* The sender thread takes the first payload of its queue into its hands.
LEMMA SenderRecvStep ==
    ASSUME TransInv, SenderRecv
    PROVE  TransInv'
<1>1. /\ UNCHANGED <<kind, sub, sent, dropped, failed, ignored, upstream, down, rx, called, item, clients, net, is_valid,
                     generation, main, tx_valid>>
      /\ hand = None
      /\ \/ tx # <<>> /\ hand' = Head(tx) /\ tx' = Tail(tx)
         \/ hand' = hand /\ tx' = tx
    BY DEF SenderRecv, setup, wire, rx_side
<1>2. tx \in Seq(Item)
    BY DEF TransInv, TransType
<1>3. hand' \in Item \cup {None} /\ tx' \in Seq(Item) /\ (tx # <<>> => Head(tx) \in Item /\ Head(tx) # None)
    BY <1>1, <1>2, Shortened, NoneIsNoItem, Zenon
<1>4. TransType'
    BY <1>1, <1>3 DEF TransInv, TransType
<1>7. CASE tx # <<>> /\ hand' = Head(tx) /\ tx' = Tail(tx)
    <2>1. One(hand) = <<>> /\ Len(One(hand)) = 0 /\ One(hand') = Append(<<>>, hand') /\ Len(One(hand')) = 1
        BY <1>1, <1>3, <1>7, HandQueue
    <2>2. Moved(Pipe, Pipe', 6, 7)
        <3>2. Pipe[7] # <<>> /\ Pipe'[7] = Tail(Pipe[7]) /\ Pipe'[6] = Append(Pipe[6], Head(Pipe[7]))
            BY <1>4, <1>7, <2>1, PipeNow, PipeNext, Zenon DEF TransInv
        <3> QED BY <1>1, <1>4, StagesKept, StageCases, <3>2 DEF Moved, Stages, TransInv
    <2>4. Sending' = Sending
        <3> QED BY <1>1, <2>1, <1>2, <1>7, Shortened DEF Sending, Lost, TransInv, TransType
    <2>6. Counted'
        BY <1>1, <2>4, CountStep DEF TransInv, OnWire, Receiving
    <2> QED BY <1>4, <1>1, <2>2, BothQueues, ChainMove, <2>6 DEF TransInv, Places
<1>8. CASE hand' = hand /\ tx' = tx
    <2>1. Pipe' = Pipe
        BY <1>1, <1>8 DEF Pipe, NextItem
    <2>3. Counted'
        BY <1>1, <1>8, CountStep DEF TransInv, Sending, Lost, OnWire, Receiving
    <2> QED BY <1>4, <1>1, <2>1, <2>3 DEF TransInv, Places
<1> QED BY <1>1, <1>7, <1>8

\* It puts the payload on the wire, which is the router or the receiver itself.
LEMMA SenderPutStep ==
    ASSUME TransInv, SenderPut
    PROVE  TransInv'
<1>1. /\ UNCHANGED <<kind, sub, sent, dropped, failed, tx, rx, called, item, clients, net, is_valid,
                     generation, main, tx_valid>>
      /\ hand # None /\ hand' = None
    BY DEF SenderPut, setup, wire, rx_side
<1>2. \/ ~tx_valid /\ UNCHANGED <<upstream, down, ignored>>
      \/ kind = "unix" /\ upstream' = Append(upstream, hand) /\ UNCHANGED <<down, ignored>>
      \/ /\ kind # "unix" /\ down' = [down EXCEPT !["receiver"] = Append(@, hand)]
         /\ UNCHANGED <<upstream, ignored>>
      \/ kind # "unix" /\ ignored' = ignored + 1 /\ UNCHANGED <<upstream, down>>
    BY DEF SenderPut
<1>3. /\ hand \in Item /\ upstream \in Seq(Item) /\ down \in [{"sender", "receiver"} -> Seq(Item)]
      /\ down["receiver"] \in Seq(Item) /\ ignored \in Nat /\ kind \in {"zenoh", "unix"}
    BY <1>1 DEF TransInv, TransType
<1>4. /\ One(hand) = <<hand>> /\ One(hand) # <<>> /\ Head(One(hand)) = hand /\ Tail(One(hand)) = <<>>
      /\ Len(One(hand)) = 1 /\ One(hand') = <<>> /\ Len(One(hand')) = 0
    BY <1>1, <1>3, HandQueue
<1>5. /\ Append(upstream, hand) \in Seq(Item) /\ Append(down["receiver"], hand) \in Seq(Item)
      /\ Len(Append(upstream, hand)) = Len(upstream) + 1
      /\ Len(Append(down["receiver"], hand)) = Len(down["receiver"]) + 1
      /\ Len(upstream) \in Nat /\ Len(down["receiver"]) \in Nat
    BY <1>3
<1>6. LET new == [down EXCEPT !["receiver"] = Append(@, hand)]
      IN  new \in [{"sender", "receiver"} -> Seq(Item)] /\ new["receiver"] = Append(down["receiver"], hand)
    BY <1>3, <1>5, DownUpdated
<1>7. TransType'
    <2>1. upstream' \in Seq(Item) /\ ignored' \in Nat /\ down' \in [{"sender", "receiver"} -> Seq(Item)]
        <3>5. upstream' \in Seq(Item)
            BY <1>3, <1>5, <1>2, Zenon
        <3>6. down' \in [{"sender", "receiver"} -> Seq(Item)]
            BY <1>3, <1>6, <1>2, Zenon
        <3> QED BY <1>3, <1>2, <3>5, <3>6
    <2> QED BY <1>1, <2>1 DEF TransInv, TransType
<1>8. Places'
    BY <1>2, <1>1 DEF TransInv, Places
<1>9. is_valid' /\ generation' = 0 /\ tx_valid' => is_valid /\ generation = 0 /\ tx_valid
    BY <1>1, Zenon
<1>10. sent' = sent /\ Receiving' = Receiving /\ Sending' = Sending - 1
    <2> QED BY <1>1, <1>4, CountingTypes DEF Receiving, Sending, Lost, TransInv
<1>11. CASE ~tx_valid /\ UNCHANGED <<upstream, down, ignored>>
    <2>1. Trimmed(Pipe, Pipe')
        BY <1>1, <1>4, <1>7, <1>11, PipeNow, PipeNext DEF TransInv, Trimmed, Stages, NextItem
    <2> QED BY <1>7, <1>8, <2>1, BothQueues, ChainDrop, <1>9, <1>11 DEF TransInv, Counted
<1>12. CASE kind = "unix" /\ upstream' = Append(upstream, hand) /\ UNCHANGED <<down, ignored>>
    <2>1. Moved(Pipe, Pipe', 5, 6)
        <3>1. \A m \in Stages \ {5, 6} : Pipe'[m] = Pipe[m]
            BY <1>1, <1>4, <1>7, <1>12, StagesKept, StageCases DEF TransInv
        <3>2. Pipe[6] # <<>> /\ Pipe'[6] = Tail(Pipe[6]) /\ Pipe'[5] = Append(Pipe[5], Head(Pipe[6]))
            <4>1. Pipe[5] = upstream /\ Pipe[6] = One(hand)
                BY PipeNow DEF TransInv
            <4> QED BY <1>1, <1>4, <1>7, <1>12, <4>1, PipeNext
        <3> QED BY <3>1, <3>2 DEF Moved, Stages
    <2>4. Counted'
        BY <1>9, <1>10, <1>3, <1>5, <1>12, CountStep DEF TransInv, OnWire
    <2> QED BY <1>7, <1>8, <2>1, BothQueues, ChainMove, <2>4 DEF TransInv
<1>13. CASE /\ kind # "unix" /\ down' = [down EXCEPT !["receiver"] = Append(@, hand)]
            /\ UNCHANGED <<upstream, ignored>>
    <2>0. upstream = <<>> /\ down'["receiver"] = Append(down["receiver"], hand)
        BY <1>3, <1>6, <1>13 DEF TransInv, Places
    <2>1. Moved(Pipe, Pipe', 4, 6)
        <3>1. \A m \in Stages \ {4, 6} : Pipe'[m] = Pipe[m]
            <4> QED BY <1>1, <1>4, <1>7, <1>13, <2>0, StagesKept, StageCases DEF TransInv
        <3>2. Pipe[6] # <<>> /\ Pipe'[6] = Tail(Pipe[6]) /\ Pipe'[4] = Append(Pipe[4], Head(Pipe[6]))
            <4>1. Pipe[4] = down["receiver"] /\ Pipe[6] = One(hand)
                BY PipeNow DEF TransInv
            <4>2. Pipe'[4] = down'["receiver"] /\ Pipe'[6] = One(hand')
                BY <1>7, PipeNext
            <4> QED BY <1>1, <1>4, <1>7, <1>13, <2>0, <4>1, <4>2
        <3> QED BY <3>1, <3>2, <2>0, PipeNow DEF Moved, Stages, TransInv
    <2>4. Counted'
        BY <1>9, <1>10, <1>3, <1>5, <1>13, <2>0, CountStep DEF TransInv, OnWire
    <2> QED BY <1>7, <1>8, <2>1, BothQueues, ChainMove, <2>4 DEF TransInv
<1>14. CASE kind # "unix" /\ ignored' = ignored + 1 /\ UNCHANGED <<upstream, down>>
    <2>1. Trimmed(Pipe, Pipe')
        BY <1>1, <1>4, <1>7, <1>14, PipeNow, PipeNext DEF TransInv, Trimmed, Stages, NextItem
    <2>4. Counted'
        BY <1>9, <1>10, <1>3, <1>5, <1>14, CountStep DEF TransInv, OnWire
    <2> QED BY <1>7, <1>8, <2>1, BothQueues, ChainDrop, <2>4 DEF TransInv
<1> QED BY <1>2, <1>11, <1>12, <1>13, <1>14

\* A put that fails loses the payload in hand, and over Unix the whole queue.
LEMMA PutFailsStep ==
    ASSUME TransInv, PutFails
    PROVE  TransInv'
<1>1. /\ UNCHANGED <<kind, sub, sent, dropped, ignored, upstream, down, rx, called, item, clients, net, is_valid,
                     generation, main, tx_valid>>
      /\ hand # None /\ hand' = None
      /\ \/ failed' = failed + 1 /\ tx' = tx
         \/ failed' = failed + 1 + Len(tx) /\ tx' = <<>>
    BY DEF PutFails, setup, wire, rx_side
<1>2. /\ hand \in Item /\ failed \in Nat /\ dropped \in Nat
      /\ tx \in Seq(Item) /\ Len(tx) \in Nat
    BY <1>1 DEF TransInv, TransType
<1>3. Len(One(hand)) = 1 /\ One(hand') = <<>> /\ Len(One(hand')) = 0
    BY <1>1, <1>2, HandQueue
<1>4. TransType'
    <2>1. failed' \in Nat
        BY <1>1, <1>2
    <2>2. <<>> \in Seq(Item)
        OBVIOUS
    <2>3. tx' \in Seq(Item)
        BY <1>1, <1>2, <2>2, Zenon
    <2> QED BY <1>1, <2>1, <2>3 DEF TransInv, TransType
<1>5. Trimmed(Pipe, Pipe')
    <2>1. Pipe'[6] = <<>> /\ Pipe'[7] = tx' /\ Pipe[7] = tx
        BY <1>3, <1>4, PipeNow, PipeNext DEF TransInv
    <2> QED BY <1>1, <1>4, <2>1, StagesKept, StageCases DEF Trimmed, TransInv
<1>6. Sending' = Sending
    BY <1>1, <1>2, <1>3 DEF Sending, Lost
<1>7. Counted'
    BY <1>1, <1>6, CountStep DEF TransInv, OnWire, Receiving
<1> QED BY <1>1, <1>4, <1>5, <1>7, BothQueues, ChainDrop DEF TransInv, Places

\* The router hands the first payload on to the clients that are connected.
LEMMA RouterForwardStep ==
    ASSUME TransInv, RouterForward
    PROVE  TransInv'
<1>1. /\ UNCHANGED <<kind, sub, sent, dropped, failed, ignored, tx, hand, rx, called, item, net, is_valid,
                     generation, main, tx_valid>>
      /\ upstream # <<>> /\ upstream' = Tail(upstream)
      /\ down' = [c \in DOMAIN down |->
                     IF c \in clients' THEN Append(down[c], Head(upstream)) ELSE down[c]]
    BY DEF RouterForward, setup, tx_side, rx_side
<1>3. /\ upstream \in Seq(Item) /\ down \in [{"sender", "receiver"} -> Seq(Item)]
      /\ down["receiver"] \in Seq(Item) /\ DOMAIN down = {"sender", "receiver"} /\ ignored \in Nat
    BY DEF TransInv, TransType
<1>4. /\ Head(upstream) \in Item /\ Tail(upstream) \in Seq(Item) /\ Len(upstream) \in Nat
      /\ Len(Tail(upstream)) = Len(upstream) - 1
    BY <1>1, <1>3, Shortened
<1>5. /\ down'["receiver"] = Append(down["receiver"], Head(upstream))
      /\ Len(down["receiver"]) \in Nat /\ Len(down'["receiver"]) = Len(down["receiver"]) + 1
    BY <1>1, <1>3, <1>4 DEF RouterForward, TransInv, TransType
<1>7. TransType'
    BY <1>1, <1>4, <1>3 DEF TransInv, TransType, RouterForward
<1>10. Chain(Pipe')
    <2>1. Moved(Pipe, Pipe', 4, 5)
        <3>1. \A m \in Stages \ {4, 5} : Pipe'[m] = Pipe[m]
            <4>1. sent' = sent /\ called' = called /\ rx' = rx /\ item' = item /\ hand' = hand /\ tx' = tx
                BY <1>1, <1>5, <1>7
            <4> QED BY <4>1, <1>7, StagesKept, StageCases DEF TransInv
        <3>2. Pipe[5] # <<>> /\ Pipe'[5] = Tail(Pipe[5]) /\ Pipe'[4] = Append(Pipe[4], Head(Pipe[5]))
            <4>1. Pipe[4] = down["receiver"] /\ Pipe[5] = upstream
                BY PipeNow DEF TransInv
            <4>2. Pipe'[4] = down'["receiver"] /\ Pipe'[5] = upstream'
                BY <1>7, PipeNext
            <4> QED BY <1>1, <1>5, <1>7, <4>1, <4>2
        <3> QED BY <3>1, <3>2 DEF Moved, Stages
    <2> QED BY <1>7, <2>1, BothQueues, ChainMove DEF TransInv
<1>11. Counted'
    <2>2. OnWire' = OnWire
        <3> QED BY <1>3, <1>4, <1>5, <1>1 DEF OnWire
    <2> QED BY <1>1, <2>2, CountStep DEF TransInv, Sending, Lost, Receiving
<1> QED BY <1>7, <1>1, <1>10, <1>11 DEF TransInv, Places

-----------------------------------------------------------------------------
\* The receive thread reads a payload; one of another topic it leaves aside.
LEMMA ReceiveStep ==
    ASSUME TransInv, Receive
    PROVE  TransInv'
<1> DEFINE p == Head(down["receiver"])
<1>1. /\ UNCHANGED <<kind, sub, sent, dropped, failed, tx, hand, upstream, rx, called, clients, is_valid,
                     generation, main, tx_valid>>
      /\ net = "read" /\ down["receiver"] # <<>>
      /\ down' = [down EXCEPT !["receiver"] = Tail(@)]
      /\ \/ /\ item' = p /\ ignored' = ignored
            /\ net' = IF sub = "SafeSubscription" THEN "check" ELSE "enter"
         \/ ignored' = ignored + 1 /\ item' = item /\ net' = net
    BY DEF Receive, setup, tx_side
<1>2. /\ down \in [{"sender", "receiver"} -> Seq(Item)] /\ down["receiver"] \in Seq(Item)
      /\ ignored \in Nat /\ sub \in {"SafeSubscription", "SafeSubscriber"} /\ item \in Item \cup {None}
    BY DEF TransInv, TransType
<1>3. /\ p \in Item /\ p # None /\ Tail(down["receiver"]) \in Seq(Item) /\ Len(down["receiver"]) \in Nat
      /\ Len(Tail(down["receiver"])) = Len(down["receiver"]) - 1
    BY <1>1, <1>2, Shortened, NoneIsNoItem, Zenon
<1>4. down' \in [{"sender", "receiver"} -> Seq(Item)] /\ down'["receiver"] = Tail(down["receiver"])
    BY <1>1, <1>2, <1>3, DownUpdated
<1>6. TransType'
    <2>1. ignored' \in Nat
        BY <1>1, <1>2
    <2> QED BY <1>1, <1>4, <2>1, <1>2, <1>3 DEF TransInv, TransType
<1>10. Len(upstream) \in Nat /\ Len(rx) \in Nat /\ Len(called) \in Nat
    BY CountingTypes DEF TransInv
<1>11. CASE item' = p /\ ignored' = ignored
    <2>1. /\ One(item) = <<>> /\ Len(One(item)) = 0 /\ One(item') = Append(<<>>, p) /\ Len(One(item')) = 1
        BY <1>3, <1>1, <1>11, HandQueue DEF TransInv, Places
    <2>2. Moved(Pipe, Pipe', 3, 4)
        <3>1. \A m \in Stages \ {3, 4} : Pipe'[m] = Pipe[m]
            <4>1. sent' = sent /\ called' = called /\ rx' = rx /\ upstream' = upstream /\ hand' = hand /\ tx' = tx
                BY <1>1, <1>4, <2>1
            <4> QED BY <4>1, <1>6, StagesKept, StageCases DEF TransInv
        <3>2. Pipe[4] # <<>> /\ Pipe'[4] = Tail(Pipe[4]) /\ Pipe'[3] = Append(Pipe[3], Head(Pipe[4]))
            <4>1. Pipe[3] = One(item) /\ Pipe[4] = down["receiver"]
                BY PipeNow DEF TransInv
            <4> QED BY <1>1, <1>4, <2>1, <4>1, <1>6, PipeNext
        <3> QED BY <3>1, <3>2 DEF Moved, Stages
    <2>3. Chain(Pipe')
        BY <1>6, <2>2, BothQueues, ChainMove DEF TransInv
    <2>4. OnWire' = OnWire - 1
        BY <1>1, <1>2, <1>3, <1>4, <1>10, <1>11 DEF OnWire
    <2>6. Counted'
        BY <1>1, <2>4, <1>10, <2>1, CountStep DEF TransInv, Sending, Lost, Receiving
    <2> QED BY <1>6, <1>1, <1>2, <1>3, <2>3, <2>6 DEF TransInv, Places
<1>12. CASE ignored' = ignored + 1 /\ item' = item /\ net' = net
    <2>1. Trimmed(Pipe, Pipe')
        <3>2. \A m \in Stages \ {4} : Pipe'[m] = Pipe[m]
            BY <1>1, <1>12, <1>6, StagesKept, StageCases, Zenon DEF TransInv
        <3> QED BY <1>1, <1>4, <1>6, PipeNow, PipeNext, <3>2, Zenon DEF Trimmed, TransInv
    <2>2. Chain(Pipe')
        BY <1>6, <2>1, BothQueues, ChainDrop DEF TransInv
    <2>3. OnWire' = OnWire
        BY <1>1, <1>2, <1>3, <1>4, <1>10, <1>12 DEF OnWire
    <2>5. Counted'
        BY <1>1, <2>3, <1>12, CountStep DEF TransInv, Sending, Lost, Receiving
    <2> QED BY <1>6, <1>1, <1>2, <1>3, <2>2, <2>5 DEF TransInv, Places
<1> QED BY <1>1, <1>11, <1>12

\* Once an end is gone nothing is counted.
LEMMA GoneStep ==
    ASSUME TransInv, TransType', Places', Trimmed(Pipe, Pipe'),
           ~(is_valid' /\ generation' = 0 /\ tx_valid')
    PROVE  TransInv'
BY BothQueues, ChainDrop DEF TransInv, Counted

\* The first look at is_valid: a payload of a dropped subscription goes no further.
LEMMA CheckValidStep ==
    ASSUME TransInv, CheckValid
    PROVE  TransInv'
<1>1. /\ UNCHANGED <<kind, sub, sent, dropped, failed, ignored, tx, hand, upstream, down, rx, called, clients, is_valid,
                     generation, main, tx_valid>>
      /\ net = "check"
      /\ \/ item' = item /\ net' = "send"
         \/ ~is_valid /\ item' = None /\ net' = "read"
    BY DEF CheckValid, setup, tx_side, wire
<1>2. TransType'
    BY <1>1 DEF TransInv, TransType
<1>4. CASE item' = item
    <2>1. Pipe' = Pipe
        BY <1>1, <1>4 DEF Pipe, NextItem
    <2>4. Counted'
        BY <1>1, <1>4, CountStep DEF TransInv, Sending, Lost, OnWire, Receiving
    <2> QED BY <1>2, <1>1, <2>1, <2>4 DEF TransInv, Places
<1>5. CASE ~is_valid /\ item' = None
    <2>1. Trimmed(Pipe, Pipe')
        <3>2. Pipe'[3] = <<>>
            BY <1>1, <1>5, <1>2, PipeNext, HandQueue
        <3> QED BY <1>1, <1>5, <1>2, StagesKept, StageCases, <3>2 DEF Trimmed, TransInv
    <2> QED BY <1>2, <1>1, <2>1, <1>5, GoneStep DEF TransInv, Places
<1> QED BY <1>1, <1>4, <1>5

\* A payload joins the end of the subscription's queue.
LEMMA QueuePayloadStep ==
    ASSUME TransInv, QueuePayload
    PROVE  TransInv'
<1>1. /\ UNCHANGED <<kind, sub, sent, dropped, failed, ignored, tx, hand, upstream, down, called, clients, is_valid,
                     generation, main, tx_valid>>
      /\ net = "send" /\ item' = None
      /\ \/ main = "freed" /\ net' = "read" /\ rx' = rx
         \/ net' = "kick" /\ rx' = Append(rx, item)
    BY DEF QueuePayload, setup, tx_side, wire
<1>2. item \in Item /\ item # None /\ rx \in Seq(Item) /\ sub = "SafeSubscription"
    BY <1>1 DEF TransInv, TransType, Places
<1>4. TransType'
    <2>1. rx' \in Seq(Item) /\ item' \in Item \cup {None} /\ net' \in {"read", "kick"}
        BY <1>1, <1>2
    <2> QED BY <1>1, <2>1 DEF TransInv, TransType
<1>6. /\ One(item) # <<>> /\ Head(One(item)) = item /\ Tail(One(item)) = <<>>
      /\ Len(One(item)) = 1 /\ One(item') = <<>> /\ Len(One(item')) = 0
    BY <1>1, <1>2, HandQueue
<1>7. CASE main = "freed" /\ rx' = rx
    <2>1. Trimmed(Pipe, Pipe')
        <3>2. Pipe'[3] = <<>>
            BY <1>1, <1>6, <1>7, <1>4, PipeNext
        <3> QED BY <1>1, <1>6, <1>7, <1>4, StagesKept, StageCases, <3>2 DEF Trimmed, TransInv
    <2> QED BY <1>4, <1>1, <1>2, <2>1, <1>7, GoneStep DEF TransInv, Places
<1>8. CASE rx' = Append(rx, item)
    <2>1. Moved(Pipe, Pipe', 2, 3)
        <3>1. \A m \in Stages \ {2, 3} : Pipe'[m] = Pipe[m]
            <4>1. sent' = sent /\ called' = called /\ down'["receiver"] = down["receiver"] /\ upstream' = upstream /\ hand' = hand /\ tx' = tx
                BY <1>1, <1>6, <1>8
            <4> QED BY <4>1, <1>4, StagesKept, StageCases DEF TransInv
        <3>2. Pipe[3] # <<>> /\ Pipe'[3] = Tail(Pipe[3]) /\ Pipe'[2] = Append(Pipe[2], Head(Pipe[3]))
            <4>1. Pipe[2] = rx /\ Pipe[3] = One(item)
                BY PipeNow DEF TransInv
            <4>2. Pipe'[2] = rx' /\ Pipe'[3] = One(item')
                BY <1>4, PipeNext
            <4> QED BY <1>1, <1>6, <1>8, <4>1, <4>2
        <3> QED BY <3>1, <3>2 DEF Moved, Stages
    <2>4. Receiving' = Receiving
        BY <1>1, <1>2, <1>6, <1>8, CountingTypes DEF Receiving, TransInv
    <2>6. Counted'
        BY <1>1, <2>4, CountStep DEF TransInv, Sending, Lost, OnWire
    <2> QED BY <1>4, <1>1, <1>2, <2>1, BothQueues, ChainMove, <2>6 DEF TransInv, Places
<1> QED BY <1>1, <1>7, <1>8

\* The timer empties the queue into the callback, in order.
LEMMA TimerFiresStep ==
    ASSUME TransInv, TimerFires
    PROVE  TransInv'
<1>1. /\ UNCHANGED <<kind, sub, sent, dropped, failed, ignored, tx, hand, upstream, down, item, net, clients, is_valid,
                     generation, main, tx_valid>>
      /\ \/ rx' = rx /\ called' = called
         \/ rx' = <<>> /\ called' = called \o rx
         \/ rx' = <<>> /\ called' = called /\ ~Current
    BY DEF TimerFires, setup, tx_side, wire
<1>2. rx \in Seq(Item) /\ called \in Seq(Item) /\ called \o rx \in Seq(Item) /\ <<>> \in Seq(Item)
    BY DEF TransInv, TransType
<1>3. TransType'
    <2>1. rx' \in Seq(Item) /\ called' \in Seq(Item)
        BY <1>1, <1>2, Zenon
    <2> QED BY <1>1, <2>1 DEF TransInv, TransType
<1>4. Places'
    BY <1>1 DEF TransInv, Places
<1>7. CASE rx' = rx /\ called' = called
    <2>1. Pipe' = Pipe
        BY <1>1, <1>7 DEF Pipe, NextItem
    <2>3. Counted'
        BY <1>1, <1>7, CountStep DEF TransInv, Sending, Lost, OnWire, Receiving
    <2> QED BY <1>3, <1>4, <2>1, <2>3 DEF TransInv
<1>8. CASE rx' = <<>> /\ called' = called \o rx
    <2>2. \A m \in 3 .. 8 : Pipe'[m] = Pipe[m]
        <3> HIDE DEF Pipe
        <3> QED BY <1>3, <1>1, StagesKept DEF TransInv
    <2>3. Chain(Pipe')
        <3>2. IsQueues(Pipe') /\ Pipe'[1] = called' /\ Pipe'[2] = <<>>
            BY <1>3, <1>8, PipeNext
        <3>3. Joined(Pipe[1], Pipe[2], Pipe'[1])
            BY <1>2, <1>8, Concatenated, PipeNow, <3>2 DEF TransInv
        <3> QED BY <2>2, PipeNow, <3>2, <3>3, ChainFlush DEF TransInv
    <2>4. Receiving' = Receiving
        BY <1>2, <1>8, Concatenated, CountingTypes, <1>1 DEF Joined, TransInv, Receiving
    <2> QED BY <1>3, <1>4, <2>3, <1>1, <2>4, CountStep DEF TransInv, Sending, Lost, OnWire
<1>9. CASE rx' = <<>> /\ called' = called /\ ~Current
    <2>1. Trimmed(Pipe, Pipe')
        <3> QED BY <1>1, <1>9, <1>3, StagesKept, StageCases, PipeNext DEF Trimmed, TransInv
    <2> QED BY <1>3, <1>4, <2>1, <1>1, <1>9, GoneStep DEF Current
<1> QED BY <1>1, <1>7, <1>8, <1>9

\* The subscription without a queue calls back from the receive thread.
LEMMA LockAndCallStep ==
    ASSUME TransInv, LockAndCall
    PROVE  TransInv'
<1>1. /\ UNCHANGED <<kind, sub, sent, dropped, failed, ignored, tx, hand, upstream, down, rx, clients, is_valid,
                     generation, main, tx_valid>>
      /\ net = "lock" /\ item' = None /\ net' = "leave"
      /\ \/ called' = Append(called, item)
         \/ called' = called /\ ~Current
    BY DEF LockAndCall, setup, tx_side, wire
<1>2. item \in Item /\ item # None /\ called \in Seq(Item) /\ sub = "SafeSubscriber" /\ rx = <<>>
    BY <1>1 DEF TransInv, TransType, Places
<1>4. TransType'
    <2>1. called' \in Seq(Item) /\ item' \in Item \cup {None} /\ net' \in {"leave"}
        BY <1>1, <1>2
    <2> QED BY <1>1, <2>1 DEF TransInv, TransType
<1>6. /\ One(item) # <<>> /\ Head(One(item)) = item /\ Tail(One(item)) = <<>>
      /\ Len(One(item)) = 1 /\ One(item') = <<>> /\ Len(One(item')) = 0
    BY <1>1, <1>2, HandQueue
<1>7. CASE called' = Append(called, item)
    <2>1. Moved(Pipe, Pipe', 1, 3)
        <3>1. \A m \in Stages \ {1, 3} : Pipe'[m] = Pipe[m]
            <4>1. sent' = sent /\ rx' = rx /\ down'["receiver"] = down["receiver"] /\ upstream' = upstream /\ hand' = hand /\ tx' = tx
                BY <1>1, <1>6, <1>7
            <4> QED BY <4>1, <1>4, StagesKept, StageCases DEF TransInv
        <3>2. Pipe[3] # <<>> /\ Pipe'[3] = Tail(Pipe[3]) /\ Pipe'[1] = Append(Pipe[1], Head(Pipe[3]))
            <4>2. Pipe'[1] = called' /\ Pipe'[3] = One(item')
                BY <1>4, PipeNext
            <4> QED BY <1>1, <1>6, <1>7, PipeNow, <4>2 DEF TransInv
        <3> QED BY <3>1, <3>2, <1>2, PipeNow DEF Moved, Stages, TransInv
    <2>4. Receiving' = Receiving
        BY <1>1, <1>2, <1>6, <1>7, CountingTypes DEF Receiving, TransInv
    <2>6. Counted'
        BY <1>1, <2>4, CountStep DEF TransInv, Sending, Lost, OnWire
    <2> QED BY <1>4, <1>1, <1>2, <2>1, BothQueues, ChainMove, <2>6 DEF TransInv, Places
<1>8. CASE called' = called /\ ~Current
    <2>1. Trimmed(Pipe, Pipe')
        <3>2. Pipe'[3] = <<>>
            BY <1>1, <1>6, <1>8, <1>4, PipeNext
        <3> QED BY <1>1, <1>6, <1>8, <1>4, StagesKept, StageCases, <3>2 DEF Trimmed, TransInv
    <2> QED BY <1>4, <1>1, <1>2, <2>1, <1>8, GoneStep DEF TransInv, Places, Current
<1> QED BY <1>1, <1>7, <1>8

\* The last step of a drop gives up what is still queued.
LEMMA EndDropStep ==
    ASSUME TransInv, EndDrop
    PROVE  TransInv'
<1>1. /\ UNCHANGED <<kind, sub, sent, dropped, failed, ignored, tx, hand, upstream, down, called, item, net, clients,
                     is_valid, generation, tx_valid>>
      /\ main = "drain" /\ rx' = <<>>
    BY DEF EndDrop, setup, tx_side, wire
<1>3. TransType'
    BY <1>1 DEF TransInv, TransType
<1>5. Trimmed(Pipe, Pipe')
    <2> QED BY <1>1, <1>3, StagesKept, StageCases, PipeNext DEF Trimmed, TransInv
<1> QED BY <1>1, <1>3, <1>5, GoneStep DEF TransInv, Places

\* Every step keeps TransInv ...
LEMMA StepTransInv == TransInv /\ [DNext]_vars => TransInv'
<1> SUFFICES ASSUME TransInv, [DNext]_vars PROVE TransInv'
    OBVIOUS
<1>1. CASE \/ HubRealize \/ SenderRealize \/ HubFinalize \/ SenderFinalize \/ DropPublisher \/ SenderReads
           \/ Kick \/ EnterCallback \/ LeaveCallback \/ NewGeneration \/ BeginDrop \/ UNCHANGED vars
    BY <1>1, QuietStep
<1>2. CASE \E t \in Topics : Publish(t)
    BY <1>2, PublishStep
<1>3. CASE SendStep
    BY <1>3, SenderRecvStep, SenderPutStep, PutFailsStep DEF SendStep
<1>4. CASE RouterForward
    BY <1>4, RouterForwardStep
<1>5. CASE Receive \/ CheckValid \/ QueuePayload \/ LockAndCall
    BY <1>5, ReceiveStep, CheckValidStep, QueuePayloadStep, LockAndCallStep
<1>6. CASE TimerFires \/ EndDrop
    BY <1>6, TimerFiresStep, EndDropStep
<1> QED BY <1>1, <1>2, <1>3, <1>4, <1>5, <1>6 DEF DNext, NetStep

\* ... which therefore always holds.
LEMMA TransportInv == DSpec => []TransInv
BY InitTransInv, StepTransInv, PTL DEF DSpec

-----------------------------------------------------------------------------
\* The callback gets payloads in the order of publication and each at most once,
\* through either transport and either subscription, with queues of any length.
THEOREM TransportInOrder == DSpec => []CalledInOrder
<1>1. TransInv => CalledInOrder
    <2> SUFFICES ASSUME TransInv PROVE CalledInOrder
        OBVIOUS
    <2>1. TransType /\ Chain(Pipe)
        BY Zenon DEF TransInv
    <2>2. Pipe[1] = called
        BY <2>1, PipeNow, Zenon
    <2>3. 1 \in Stages
        BY DEF Stages
    <2>4. called \in Seq(Item)
        BY <2>1, Zenon DEF TransType
    <2> QED BY <2>1, <2>2, <2>3, <2>4 DEF Chain, CalledInOrder
<1> QED BY <1>1, TransportInv, PTL

\* As long as both ends live every payload is in one queue, in one hand, with the
\* callback, counted as dropped, lost to a put that failed, or ignored, for queues
\* of any capacity.
THEOREM TransportConserved == DSpec => []Conserved
<1>1. TransInv => Conserved
    <2> SUFFICES ASSUME TransInv, is_valid /\ generation = 0 /\ tx_valid
                 PROVE  sent = (dropped + failed + Len(tx)) + (ignored + Len(upstream) + Len(down["receiver"]))
                                 + (Len(rx) + Len(called)) + (Len(One(hand)) + Len(One(item)))
        BY Zenon DEF Conserved
    <2> DEFINE A == Lost + Len(tx)
               B == ignored + Len(upstream) + Len(down["receiver"])
               C == Len(rx) + Len(called)
               h == Len(One(hand))
               k == Len(One(item))
    <2>3. A \in Nat /\ B \in Nat /\ C \in Nat /\ h \in Nat /\ k \in Nat
        <3>1. \A x, y \in Nat : x + y \in Nat
            OBVIOUS
        <3> QED BY CountingTypes, <3>1, Zenon DEF TransInv
    <2>4. Sending = A + h /\ OnWire = B /\ Receiving = k + C
        BY CountingTypes DEF Sending, OnWire, Receiving, TransInv
    <2> HIDE DEF A, B, C, h, k
    <2>5. sent = A + B + C + (h + k)
        BY <2>3, <2>4 DEF TransInv, Counted
    <2> QED BY <2>5 DEF A, B, C, h, k, Lost
<1> QED BY <1>1, TransportInv, PTL

\* No payload is stranded in the channel of a SafeSubscription: its timer is armed
\* or about to be.
THEOREM TransportNoStranded == DSpec => []NoStrandedPayload
<1>1. DInit => NoStrandedPayload
    BY DEF DInit, NoStrandedPayload
<1>2. NoStrandedPayload /\ [DNext]_vars => NoStrandedPayload'
    <2> SUFFICES ASSUME NoStrandedPayload, [DNext]_vars PROVE NoStrandedPayload'
        OBVIOUS
    <2> USE DEF NoStrandedPayload
    <2>1. CASE HubRealize \/ SenderRealize \/ HubFinalize \/ SenderFinalize \/ DropPublisher \/ RouterForward
               \/ SenderReads \/ SendStep \/ UNCHANGED vars \/ \E t \in Topics : Publish(t)
        BY <2>1, ZenonT(60) DEF HubRealize, SenderRealize, HubFinalize, SenderFinalize, DropPublisher, RouterForward,
                    SenderReads, SendStep, SenderRecv, SenderPut, PutFails, Publish, vars, rx_side
    <2>2. CASE Receive \/ CheckValid \/ EnterCallback \/ LockAndCall \/ LeaveCallback
        BY <2>2 DEF Receive, CheckValid, EnterCallback, LockAndCall, LeaveCallback
    <2>3. CASE QueuePayload \/ Kick
        BY <2>3 DEF QueuePayload, Kick
    <2>4. CASE TimerFires \/ NewGeneration \/ BeginDrop \/ EndDrop
        BY <2>4 DEF TimerFires, NewGeneration, BeginDrop, EndDrop
    <2> QED BY <2>1, <2>2, <2>3, <2>4 DEF DNext, NetStep
<1> QED BY <1>1, <1>2, PTL DEF DSpec

\* The callback is never called once the drop of its subscription has begun, or in
\* a new generation of the device.
THEOREM TransportNoLateCallback == DSpec => NoLateCallback
<1>1. TransInv /\ [DNext]_vars => [called' # called => main = "alive" /\ generation = 0]_vars
    <2> SUFFICES ASSUME TransInv, DNext, called' # called PROVE main = "alive" /\ generation = 0
        OBVIOUS
    <2>1. TimerFires \/ LockAndCall
        BY Zenon DEF DNext, NetStep, SendStep, HubRealize, SenderRealize, HubFinalize, SenderFinalize, DropPublisher,
               RouterForward, SenderReads, SenderRecv, SenderPut, PutFails, Publish, Receive, CheckValid, QueuePayload,
               Kick, EnterCallback, LeaveCallback, NewGeneration, BeginDrop, EndDrop, rx_side
    <2> QED BY <2>1 DEF Current, TransInv, Places, TimerFires, LockAndCall
<1> QED BY <1>1, TransportInv, PTL DEF DSpec, NoLateCallback
=============================================================================
