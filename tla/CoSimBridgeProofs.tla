------------------------- MODULE CoSimBridgeProofs -------------------------
(***************************************************************************)
(* What the co-simulation bridge promises to its vCPUs, for any number of  *)
(* them, of requests, connections and interrupts, and for both bridges.    *)
(***************************************************************************)
EXTENDS CoSimBridge, FiniteSetTheorems, TLAPS

\* The provers of a leaf that names none, and the time they get.
USE SMTT(30), Zenon

\* The vCPUs that active_vcpu_count counts.
Insiders == {v \in Vcpus : Inside(v)}

\* Where a vCPU can be.
Place == [at : {"check", "wait", "woken", "late"}, on : {"conn", "resp"}]
            \cup {Guest, ToSend, [at |-> "send", on |-> "resp"]}

\* The count of the drain is the number of vCPUs in send_and_wait, nobody gets in
\* once the bridge shuts down, and main is past its wait only when the count is 0.
DrainInv ==
    /\ cpu \in [Vcpus -> Place]
    /\ count = Cardinality(Insiders)
    /\ running => main \in {"new", "failed", "alive"}
    /\ main \in {"join", "free", "freed"} => count = 0

-----------------------------------------------------------------------------
\* The steps of a vCPU that neither enters nor leaves keep the set of insiders.
LEMMA SameInsiders ==
    ASSUME \A v \in Vcpus : cpu'[v].on = "resp" <=> cpu[v].on = "resp"
    PROVE  Insiders' = Insiders
BY DEF Insiders, Inside

\* A condition variable moves a vCPU within its wait.
LEMMA NotifyKeepsPlace ==
    ASSUME cpu \in [Vcpus -> Place], NEW cs
    PROVE  /\ NotifyAll(cs) \in [Vcpus -> Place]
           /\ \A v \in Vcpus : NotifyAll(cs)[v].on = cpu[v].on
BY DEF NotifyAll, Place, Guest, ToSend

\* The number of vCPUs inside.
LEMMA InsidersFinite == IsFiniteSet(Insiders) /\ Cardinality(Insiders) \in Nat
BY BridgeAssumption, FS_Subset, FS_CardinalityType DEF BridgeAssumption, Insiders

\* One more vCPU is inside ...
LEMMA OneEnters ==
    ASSUME NEW v \in Vcpus, v \notin Insiders, Insiders' = Insiders \cup {v}
    PROVE  Cardinality(Insiders') = Cardinality(Insiders) + 1
BY InsidersFinite, FS_AddElement

\* ... or one less.
LEMMA OneLeaves ==
    ASSUME NEW v \in Insiders, Insiders' = Insiders \ {v}
    PROVE  Cardinality(Insiders') = Cardinality(Insiders) - 1
BY InsidersFinite, FS_RemoveElement, Zenon

\* Leaving send_and_wait with the drain guard dropped.
LEMMA LeaveDrain ==
    ASSUME DrainInv, NEW v \in Vcpus, Inside(v), Leave(v), Release, UNCHANGED running
    PROVE  DrainInv'
BY OneLeaves, InsidersFinite, FS_EmptySet DEF DrainInv, Leave, Insiders, Inside, Place, Guest, ToSend,
    Release

\* A step of a vCPU.
LEMMA CpuDrain ==
    ASSUME DrainInv, NEW v \in Vcpus, CpuStep(v)
    PROVE  DrainInv'
<1>1. CASE Relock(v)
    BY <1>1, SameInsiders DEF Relock, DrainInv, Place, Guest, ToSend, inner
<1>2. CASE CheckConnected(v)
    BY <1>2, SameInsiders DEF CheckConnected, DrainInv, Place, Guest, ToSend, inner
<1>3. CASE Refuse(v)
    BY <1>3, SameInsiders DEF Refuse, Leave, DrainInv, Place, Guest, ToSend, inner
<1>4. CASE Clear(v)
    BY <1>4, OneEnters DEF Clear, DrainInv, Place, Guest, ToSend, Insiders, Inside
<1>5. CASE SendRequest(v)
    BY <1>5, SameInsiders, LeaveDrain DEF SendRequest, DrainInv, Place, Guest, ToSend, inner, Inside
<1>6. CASE CheckResponse(v)
    BY <1>6, SameInsiders, LeaveDrain DEF CheckResponse, DrainInv, Place, Guest, ToSend, Inside
<1> QED BY <1>1, <1>2, <1>3, <1>4, <1>5, <1>6 DEF CpuStep

\* A step of the receive thread, or of the main thread.
LEMMA OthersDrain ==
    ASSUME DrainInv, RxStep \/ DropStep \/ Finalize
    PROVE  DrainInv'
<1>1. cpu' = cpu \/ \E cs : cpu' = NotifyAll(cs)
    BY DEF RxStep, ConnectRefused, Handshake, NotifyConnected, ReadResponse, DispatchResponse, ReadIrq,
           SetIrq, Lose, NotifyDisconnected, Exit, DropStep, InterruptRx, WaitForDrain, DrainRelock,
           Join, Free, Finalize
<1>2. cpu' \in [Vcpus -> Place] /\ \A v \in Vcpus : cpu'[v].on = "resp" <=> cpu[v].on = "resp"
    BY <1>1, NotifyKeepsPlace DEF DrainInv
<1>3. Insiders' = Insiders
    BY <1>2, SameInsiders
<1>4. CASE RxStep
    <2>1. UNCHANGED <<count, main, running>>
        BY <1>4 DEF inner, RxStep, ConnectRefused, Handshake, NotifyConnected, ReadResponse,
               DispatchResponse, ReadIrq, SetIrq, Lose, NotifyDisconnected, Exit
    <2> QED BY <1>2, <1>3, <2>1 DEF DrainInv
<1>5. CASE DropStep \/ Finalize
    BY <1>2, <1>3, <1>5 DEF DrainInv, inner, DropStep, InterruptRx, WaitForDrain, DrainRelock,
           Join, Free, Finalize
<1> QED BY <1>4, <1>5

\* DrainInv holds when the bridge is made ...
LEMMA DrainInvInit == BInit => DrainInv
BY FS_EmptySet DEF BInit, Insiders, Inside, Guest, DrainInv, Place

\* ... and every step keeps it.
LEMMA DrainInvStep == DrainInv /\ [BNext]_vars => DrainInv'
<1> SUFFICES ASSUME DrainInv, [BNext]_vars PROVE DrainInv'
    OBVIOUS
<1>1. CASE RxStep \/ DropStep \/ Finalize
    BY <1>1, OthersDrain
<1>2. ASSUME NEW v \in Vcpus, CpuStep(v) PROVE DrainInv'
    BY <1>2, CpuDrain
<1>3. ASSUME NEW v \in Vcpus, Access(v) \/ Timeout(v) PROVE DrainInv'
    BY <1>3, SameInsiders DEF Access, Timeout, DrainInv, Place, Guest, ToSend, inner
<1>4. CASE Realize \/ Connect \/ PeerStep \/ UNCHANGED vars
    <2>1. cpu' = cpu /\ Insiders' = Insiders
        BY <1>4 DEF Realize, Connect, PeerStep, PeerHello, PeerAnswer, PeerIrq, PeerClose, vars,
                    Insiders, Inside
    <2> QED BY <1>4, <2>1 DEF Realize, Connect, PeerStep, PeerHello, PeerAnswer, PeerIrq, PeerClose, vars,
                    DrainInv, inner
<1> QED BY <1>1, <1>2, <1>3, <1>4 DEF BNext, MmioRealize, RpRealize, MmioConnect, RpConnect,
                                      MmioAccess, RpAccess

\* When the bridge is freed no vCPU is inside send_and_wait (CoSimBridge::drop
\* waits in VcpuDrain::wait_for_drain), for any number of vCPUs.
THEOREM BridgeDrainProtects == BSpec => []DrainProtects
<1>1. DrainInv => DrainProtects
    BY InsidersFinite, FS_EmptySet DEF DrainProtects, Insiders, DrainInv
<1> QED BY <1>1, DrainInvInit, DrainInvStep, PTL DEF BSpec

-----------------------------------------------------------------------------
\* What the peer sends, and a connection to it.
Message == [type : {"resp"}, id : Nat] \cup [type : {"irq"}]
Socket == [n : Nat, open : BOOLEAN, hello : {"none", "ok", "mismatch"}, to_peer : Seq(Nat),
           to_rx : Seq(Message), mid : BOOLEAN]

\* The types of what the connection is made of.
LinkType ==
    /\ cpu \in [Vcpus -> Place] /\ sock \in Socket /\ stream \in Nat
    /\ via \in [Vcpus -> Nat] /\ req \in [Vcpus -> Nat] /\ reqs \in Nat
    /\ rx \in {"exited", "top", "hello", "store", "read", "irq", "notify"}

\* The socket: the stream is stored exactly while the receive thread reads from it,
\* and a closed or forgotten one carries nothing.
SocketInv ==
    /\ rx \in {"read", "irq"} => stream = sock.n
    /\ rx \notin {"read", "irq"} => stream = 0
    /\ rx = "irq" => sock.to_rx # <<>> /\ Head(sock.to_rx).type = "irq"
    /\ stream = 0 => sock.to_peer = <<>> /\ sock.to_rx = <<>>
    /\ ~sock.open => sock.to_peer = <<>>

\* A vCPU: what it waits for was sent on one of the connections so far, and none
\* has used the one that is being made.
Uses(v) ==
    /\ via[v] <= sock.n
    /\ rx \in {"hello", "store"} => via[v] < sock.n
    /\ Inside(v) /\ cpu[v].at # "send" => via[v] # 0
    /\ cpu[v] # Guest => req[v] # 0

\* The connection and its users.
LinkInv == LinkType /\ SocketInv /\ \A v \in Vcpus : Uses(v)

\* Whoever waits on a lost connection is about to hear of it; alone in the bridge,
\* nobody takes the news away.
WaitInv ==
    /\ "overlap" \notin doubt => \A v, w \in Vcpus : Inside(v) /\ Inside(w) => v = w
    /\ running /\ "overlap" \notin doubt =>
          \A v \in Vcpus :
              Inside(v) /\ (cpu[v].at = "wait" \/ (cpu[v].at \in {"check", "woken"} /\ ~has_resp))
                  => via[v] = stream \/ rx = "notify"

\* With nothing in doubt there is at most one request or response on its way, and
\* it belongs to the vCPU that is inside.
Replies == {i \in DOMAIN sock.to_rx : sock.to_rx[i].type = "resp"}
\* No request and no reply is on its way; the connection was never in doubt; then at
\* most one request is open, and its reply is the next one.
Quiet == sock.to_peer = <<>> /\ Replies = {}
Clean == doubt = {} /\ ~rx_buf
ReplyInv ==
    Clean =>
        /\ Len(sock.to_peer) <= 1
        /\ Replies # {} => sock.to_peer = <<>>
        /\ \A i, j \in Replies : i = j
        /\ (\A v \in Vcpus : ~Inside(v)) => Quiet
        /\ \A v \in Vcpus : Inside(v) =>
              /\ cpu[v].at = "send" => Quiet /\ ~has_resp /\ current_resp = 0
              /\ sock.to_peer # <<>> => sock.to_peer[1] = req[v]
              /\ \A i \in Replies : sock.to_rx[i].id = req[v]
              /\ current_resp # 0 => Quiet /\ current_resp = req[v]
              /\ cpu[v].at # "send" /\ has_resp /\ current_resp = 0 => via[v] # stream
              /\ ~has_resp => current_resp = 0

-----------------------------------------------------------------------------
\* LinkInv holds when the bridge is made.
LEMMA LinkInvInit == BInit => LinkInv
BY DEF BInit, LinkInv, LinkType, SocketInv, Uses, Place, Socket, Closed, Inside, Guest

\* A step of v changes nothing of the others.
LEMMA OnlyOneMoves ==
    ASSUME LinkInv, LinkType', NEW v \in Vcpus, UNCHANGED <<rx, sock>>,
           \A w \in Vcpus \ {v} : cpu'[w] = cpu[w] /\ via'[w] = via[w] /\ req'[w] = req[w],
           SocketInv', Uses(v)'
    PROVE  LinkInv'
BY DEF LinkInv, LinkType, Uses, Inside

\* A step of a vCPU keeps LinkInv.
LEMMA CpuLink ==
    ASSUME LinkInv, NEW v \in Vcpus, CpuStep(v) \/ Access(v) \/ Timeout(v)
    PROVE  LinkInv'
<1>1. CASE Relock(v)
    <2>1. LinkType' /\ UNCHANGED <<rx, sock, stream, via, req>> /\ \A w \in Vcpus \ {v} : cpu'[w] = cpu[w]
        BY <1>1 DEF Relock, Place, Guest, ToSend, bound, LinkInv, LinkType
    <2>2. cpu[v] # Guest /\ (Inside(v)' => Inside(v) /\ cpu[v].at # "send")
        BY <1>1 DEF Relock, Place, Guest, ToSend, Inside, LinkInv, LinkType
    <2> QED BY <2>1, <2>2, OnlyOneMoves DEF SocketInv, Uses, LinkInv, LinkType
<1>2. CASE CheckConnected(v)
    <2>1. LinkType' /\ UNCHANGED <<rx, sock, stream, via, req>> /\ \A w \in Vcpus \ {v} : cpu'[w] = cpu[w]
        BY <1>2 DEF CheckConnected, Place, Guest, ToSend, bound, LinkInv, LinkType
    <2>2. cpu[v] # Guest /\ ~Inside(v)'
        BY <1>2 DEF CheckConnected, Place, Guest, ToSend, Inside, LinkInv, LinkType
    <2> QED BY <2>1, <2>2, OnlyOneMoves, Zenon DEF SocketInv, Uses, LinkInv, LinkType
<1>3. ASSUME Leave(v), UNCHANGED <<rx, sock, stream, reqs>> PROVE LinkInv'
    <2>1. LinkType' /\ \A w \in Vcpus \ {v} : cpu'[w] = cpu[w] /\ via'[w] = via[w] /\ req'[w] = req[w]
        BY <1>3 DEF Leave, Place, LinkInv, LinkType
    <2>3. Uses(v)'
        BY <1>3 DEF Uses, Inside, Guest, Socket, LinkInv, LinkType, Leave
    <2> QED BY <1>3, <2>1, <2>3, OnlyOneMoves DEF SocketInv, LinkInv, LinkType
<1>4. CASE Clear(v)
    <2>1. LinkType' /\ UNCHANGED <<rx, sock, stream, via, req>> /\ \A w \in Vcpus \ {v} : cpu'[w] = cpu[w]
        BY <1>4 DEF Clear, Place, Guest, ToSend, bound, LinkInv, LinkType
    <2>2. cpu[v] # Guest /\ cpu'[v].at = "send"
        BY <1>4 DEF Clear, Guest, ToSend, LinkInv, LinkType
    <2> QED BY <2>1, <2>2, OnlyOneMoves DEF SocketInv, Uses, LinkInv, LinkType
<1>5. CASE SendRequest(v) /\ stream # 0 /\ sock.open
    <2>1. sock' \in Socket /\ sock'.n = sock.n /\ sock'.to_rx = sock.to_rx /\ sock'.open
        <3>1. Append(sock.to_peer, req[v]) \in Seq(Nat)
            BY DEF Socket, LinkInv, LinkType
        <3> QED BY <1>5, <3>1, Zenon DEF SendRequest, Socket, LinkInv, LinkType
    <2>2. LinkType' /\ \A w \in Vcpus \ {v} : cpu'[w] = cpu[w] /\ via'[w] = via[w]
        <3>1. cpu' \in [Vcpus -> Place] /\ \A w \in Vcpus \ {v} : cpu'[w] = cpu[w]
            <4>1. cpu' = [cpu EXCEPT ![v] = [cpu[v] EXCEPT !.at = "check"]] /\ cpu[v].on = "resp"
                BY <1>5 DEF SendRequest
            <4> QED BY <4>1 DEF Place, Guest, ToSend, LinkInv, LinkType
        <3>2. via' \in [Vcpus -> Nat] /\ \A w \in Vcpus \ {v} : via'[w] = via[w]
            BY <1>5 DEF SendRequest, LinkInv, LinkType
        <3> QED BY <1>5, <2>1, <3>1, <3>2 DEF SendRequest, bound, LinkInv, LinkType
    <2>3. stream = sock.n /\ rx \in {"read", "irq"} /\ via'[v] = stream /\ cpu[v] # Guest
        BY <1>5 DEF SendRequest, SocketInv, Guest, LinkInv, LinkType
    <2>4. UNCHANGED <<rx, req, stream>>
        BY <1>5 DEF SendRequest
    <2>6. \A w \in Vcpus : Uses(w)'
        BY <1>5, <2>1, <2>2, <2>3, <2>4 DEF Uses, Inside, Socket, LinkInv, LinkType
    <2> QED BY <2>2, <1>5, <2>1, <2>4, <2>6 DEF LinkInv, LinkType, SocketInv
<1>6. CASE CheckResponse(v) /\ running /\ ~has_resp /\ cpu[v].at = "check"
    <2>1. LinkType' /\ UNCHANGED <<rx, sock, stream, via, req>> /\ \A w \in Vcpus \ {v} : cpu'[w] = cpu[w]
        BY <1>6 DEF CheckResponse, Place, Guest, ToSend, bound, LinkInv, LinkType
    <2>2. cpu[v] # Guest /\ Inside(v) /\ cpu[v].at # "send"
        BY <1>6 DEF CheckResponse, Guest, Inside
    <2> QED BY <2>1, <2>2, OnlyOneMoves, Zenon DEF SocketInv, Uses, LinkInv, LinkType
<1>7. CASE Access(v)
    <2>1. /\ LinkType' /\ UNCHANGED <<rx, sock, stream, via>>
          /\ \A w \in Vcpus \ {v} : cpu'[w] = cpu[w] /\ req'[w] = req[w]
        BY <1>7 DEF Access, Place, Guest, ToSend, LinkInv, LinkType
    <2>3. SocketInv' /\ Uses(v)'
        BY <2>1, <1>7 DEF SocketInv, Uses, LinkInv, LinkType, Access, Inside
    <2> QED BY <2>1, <2>3, OnlyOneMoves
<1>8. CASE Timeout(v)
    <2>1. LinkType' /\ UNCHANGED <<rx, sock, stream, via, req>> /\ \A w \in Vcpus \ {v} : cpu'[w] = cpu[w]
        BY <1>8 DEF Timeout, Place, Guest, ToSend, bound, LinkInv, LinkType
    <2>2. cpu[v] # Guest /\ (Inside(v)' => Inside(v) /\ cpu[v].at # "send")
        BY <1>8 DEF Timeout, Place, Guest, ToSend, Inside
    <2> QED BY <2>1, <2>2, OnlyOneMoves DEF SocketInv, Uses, LinkInv, LinkType
<1> QED BY <1>1, <1>2, <1>3, <1>4, <1>5, <1>6, <1>7, <1>8
        DEF CpuStep, Refuse, SendRequest, CheckResponse, bound

\* The vCPUs as a condition variable leaves them.
LEMMA NotifyKeepsSides ==
    ASSUME cpu \in [Vcpus -> Place], NEW cs, cpu' = NotifyAll(cs)
    PROVE  /\ cpu' \in [Vcpus -> Place]
           /\ \A v \in Vcpus : /\ Inside(v)' <=> Inside(v)
                               /\ cpu'[v] = Guest <=> cpu[v] = Guest
                               /\ cpu'[v].at = "send" <=> cpu[v].at = "send"
BY DEF NotifyAll, Place, Guest, ToSend, Inside

\* The other threads do not move a vCPU in or out.
LEMMA OthersKeepSides ==
    ASSUME cpu \in [Vcpus -> Place], RxStep \/ Connect \/ PeerStep \/ Finalize \/ DropStep \/ Realize
    PROVE  /\ cpu' \in [Vcpus -> Place]
           /\ UNCHANGED <<via, req>>
           /\ \A v \in Vcpus : /\ Inside(v)' <=> Inside(v)
                               /\ cpu'[v] = Guest <=> cpu[v] = Guest
                               /\ cpu'[v].at = "send" <=> cpu[v].at = "send"
<1>1. UNCHANGED <<via, req>> /\ (cpu' = cpu \/ \E cs : cpu' = NotifyAll(cs))
    BY DEF RxStep, ConnectRefused, Handshake, NotifyConnected, ReadResponse, DispatchResponse, ReadIrq,
           SetIrq, Lose, NotifyDisconnected, Exit, DropStep, InterruptRx, WaitForDrain, DrainRelock,
           Join, Free, Finalize, Connect, PeerStep, PeerHello, PeerAnswer, PeerIrq, PeerClose, Realize
<1> QED BY <1>1, NotifyKeepsSides DEF Inside

\* The length of a queue.
LEMMA LenProperties ==
    ASSUME NEW S, NEW s \in Seq(S)
    PROVE  Len(s) \in Nat /\ DOMAIN s = 1 .. Len(s) /\ s \in [1 .. Len(s) -> S]
OBVIOUS

\* An empty queue has none.
LEMMA EmptySeq ==
    ASSUME NEW S
    PROVE  /\ <<>> \in Seq(S) /\ Len(<<>>) = 0
           /\ \A s \in Seq(S) : s # <<>> => Len(s) \in Nat \ {0}
OBVIOUS

\* A queue with one item more.
LEMMA Appended ==
    ASSUME NEW S, NEW s \in Seq(S), NEW x \in S
    PROVE  /\ Append(s, x) \in Seq(S) /\ Append(s, x) # <<>> /\ Len(Append(s, x)) = Len(s) + 1
           /\ s # <<>> => Head(Append(s, x)) = Head(s)
           /\ \A i \in 1 .. Len(s) : Append(s, x)[i] = s[i]
           /\ Append(s, x)[Len(s) + 1] = x
<1>2. Append(s, x) # <<>>
    BY EmptySeq
<1> QED BY <1>2, EmptySeq

\* The receive thread starts with the device.
Fresh == main = "new" => rx = "exited"

\* Fresh holds when the bridge is made ...
LEMMA FreshInit == BInit => Fresh
BY DEF BInit, Fresh

\* ... and every step keeps it.
LEMMA FreshStep == Fresh /\ [BNext]_vars => Fresh'
BY Zenon DEF Fresh, BNext, vars, MmioRealize, RpRealize, Realize, Finalize, DropStep, MmioConnect, RpConnect, Connect,
    RxStep, ConnectRefused, Handshake, NotifyConnected, ReadResponse, ReadIrq, SetIrq, Lose,
    NotifyDisconnected, Exit, PeerStep, PeerHello, PeerAnswer, PeerIrq, PeerClose, MmioAccess, RpAccess,
    Access, Timeout, CpuStep, Relock, CheckConnected, Refuse, Clear, SendRequest, CheckResponse, Release,
    InterruptRx, WaitForDrain, DrainRelock, Join, Free

\* A step of another thread, or of the peer, keeps LinkInv.
LEMMA OthersLink ==
    ASSUME LinkInv, Fresh, RxStep \/ Connect \/ PeerStep \/ Finalize \/ DropStep \/ Realize
    PROVE  LinkInv'
<1> USE DEF LinkInv
<1>0. /\ cpu' \in [Vcpus -> Place]
      /\ UNCHANGED <<via, req>>
      /\ \A v \in Vcpus : /\ Inside(v)' <=> Inside(v)
                          /\ cpu'[v] = Guest <=> cpu[v] = Guest
                          /\ cpu'[v].at = "send" <=> cpu[v].at = "send"
    BY OthersKeepSides DEF LinkType
<1>a. ASSUME sock'.n = sock.n, rx' \in {"hello", "store"} => rx \in {"hello", "store"}
      PROVE  \A v \in Vcpus : Uses(v)'
    BY <1>0, <1>a DEF Uses
<1>1. CASE ConnectRefused \/ Exit \/ ReadIrq \/ Lose \/ NotifyDisconnected
    <2>1. LinkType' /\ SocketInv'
        BY <1>0, <1>1 DEF ConnectRefused, Exit, ReadIrq, Lose, NotifyDisconnected, LinkType, SocketInv, bound
    <2> QED BY <1>a, <2>1, <1>1 DEF ConnectRefused, Exit, ReadIrq, Lose, NotifyDisconnected
<1>2. CASE Handshake \/ PeerHello
    <2>1. /\ sock' \in Socket /\ sock'.n = sock.n /\ sock'.to_rx = sock.to_rx
          /\ sock'.to_peer = sock.to_peer
        BY <1>2, Zenon DEF Handshake, PeerHello, LinkType, Socket
    <2> QED BY <1>a, <2>1, <1>2, <1>0 DEF Handshake, PeerHello, bound, LinkType, SocketInv
<1>3. CASE NotifyConnected
    BY <1>0, <1>3, <1>a DEF NotifyConnected, LinkType, SocketInv, Socket, bound
<1>4. CASE ReadResponse \/ SetIrq
    <2>2. Tail(sock.to_rx) \in Seq(Message)
        BY <1>4 DEF LinkType, Socket, ReadResponse, SetIrq, SocketInv
    <2>6. LinkType' /\ SocketInv'
        BY <1>0, <1>4, <2>2, Zenon DEF LinkType, SocketInv, ReadResponse, SetIrq, bound, Socket
    <2> QED BY <1>a, <2>2, <1>4, <2>6, Zenon DEF ReadResponse, SetIrq, bound, LinkType, Socket
<1>5. CASE Connect
    <2>1. /\ sock' \in Socket /\ sock'.n = sock.n + 1 /\ sock'.to_rx = <<>> /\ sock'.to_peer = <<>>
          /\ sock.n \in Nat
        <3>3. <<>> \in Seq(Nat) /\ <<>> \in Seq(Message) /\ sock.n + 1 \in Nat
            BY <1>5 DEF Connect, LinkType, Socket
        <3>4. ASSUME NEW p \in Seq(Nat), NEW r \in Seq(Message),
                     sock' = [n |-> sock.n + 1, open |-> TRUE, hello |-> "none", to_peer |-> p,
                              to_rx |-> r, mid |-> FALSE]
              PROVE  sock' \in Socket /\ sock'.n = sock.n + 1 /\ sock'.to_rx = r /\ sock'.to_peer = p
            BY <3>3, <3>4 DEF Socket
        <3> QED BY <1>5, <3>3, <3>4, Zenon DEF Closed, Connect, LinkType, Socket
    <2> QED BY <1>0, <2>1, <1>5 DEF Uses, Connect, bound, LinkType, SocketInv
<1>6. CASE PeerAnswer \/ PeerIrq
    <2>1. sock.to_peer \in Seq(Nat) /\ sock.to_rx \in Seq(Message)
        BY DEF LinkType, Socket
    <2>2. sock.open /\ stream # 0 /\ UNCHANGED <<rx, stream, reqs>>
        BY <1>6 DEF PeerAnswer, PeerIrq, SocketInv, bound
    <2>3. CASE PeerAnswer
        <3>1. Head(sock.to_peer) \in Nat /\ Tail(sock.to_peer) \in Seq(Nat)
            BY <2>1, <2>3 DEF PeerAnswer
        <3> DEFINE m == [type |-> "resp", id |-> Head(sock.to_peer)]
        <3>2. m \in Message
            BY <3>1 DEF Message
        <3> HIDE DEF m
        <3>3. /\ Append(sock.to_rx, m) \in Seq(Message) /\ Append(sock.to_rx, m) # <<>>
              /\ sock.to_rx # <<>> => Head(Append(sock.to_rx, m)) = Head(sock.to_rx)
            BY <2>1, <3>2, Appended
        <3>5. sock' \in Socket /\ sock'.n = sock.n /\ sock'.open /\ sock'.to_rx = Append(sock.to_rx, m)
            BY <2>2, <3>1, <3>3, <2>3, Zenon DEF LinkType, Socket, PeerAnswer, m
        <3> QED BY <1>a, <2>2, <3>5, <1>0, <3>3 DEF LinkType, SocketInv
    <2>4. CASE PeerIrq
        <3> DEFINE m == [type |-> "irq"]
        <3>2. m \in Message
            BY DEF Message
        <3> HIDE DEF m
        <3>3. /\ Append(sock.to_rx, m) \in Seq(Message) /\ Append(sock.to_rx, m) # <<>>
              /\ sock.to_rx # <<>> => Head(Append(sock.to_rx, m)) = Head(sock.to_rx)
            BY <2>1, <3>2, Appended
        <3>5. /\ sock' \in Socket /\ sock'.n = sock.n /\ sock'.open /\ sock'.to_rx = Append(sock.to_rx, m)
              /\ sock'.to_peer = sock.to_peer
            BY <2>2, <3>3, <2>4, Zenon DEF LinkType, Socket, PeerIrq, m
        <3>6. LinkType' /\ SocketInv'
            BY <1>0, <2>2, <3>3, <3>5 DEF LinkType, SocketInv
        <3> QED BY <1>a, <2>2, <3>5, <3>6
    <2> QED BY <1>6, <2>3, <2>4
<1>7. CASE PeerClose \/ InterruptRx
    <2>1. /\ sock' \in Socket /\ sock'.n = sock.n /\ sock'.to_rx = sock.to_rx
          /\ sock'.to_peer = <<>> \/ sock' = sock
        <3>1. <<>> \in Seq(Nat)
            OBVIOUS
        <3>2. \/ sock' = sock
              \/ \E mid \in BOOLEAN : sock' = [sock EXCEPT !.open = FALSE, !.mid = mid, !.to_peer = <<>>]
              \/ sock' = [sock EXCEPT !.open = FALSE, !.to_peer = <<>>]
            BY <1>7, Zenon DEF PeerClose, InterruptRx
        <3> QED BY <3>1, <3>2, Zenon DEF LinkType, Socket
    <2> QED BY <1>a, <2>1, <1>7, <1>0 DEF PeerClose, InterruptRx, bound, LinkType, SocketInv
<1>8. CASE Finalize \/ WaitForDrain \/ DrainRelock \/ Join \/ Free
    <2>1. UNCHANGED <<rx, stream, sock, reqs>>
        BY <1>8 DEF Finalize, WaitForDrain, DrainRelock, Join, Free, bound
    <2> QED BY <1>a, <2>1, <1>0 DEF LinkType, SocketInv
<1>9. CASE Realize
    BY <1>0, <1>9, <1>a DEF LinkType, SocketInv, Realize, Fresh, bound
<1> QED BY <1>1, <1>2, <1>3, <1>4, <1>5, <1>6, <1>7, <1>8, <1>9 DEF RxStep, PeerStep, DropStep

\* LinkInv holds together with Fresh.
LEMMA LinkInvStep == LinkInv /\ Fresh /\ [BNext]_vars => LinkInv'
<1> SUFFICES ASSUME LinkInv, Fresh, [BNext]_vars PROVE LinkInv'
    OBVIOUS
<1>1. CASE UNCHANGED vars
    BY <1>1 DEF vars, LinkInv, LinkType, SocketInv, Uses, Inside, bound
<1>2. CASE RxStep \/ Connect \/ PeerStep \/ Finalize \/ DropStep \/ Realize
    BY <1>2, OthersLink
<1>3. ASSUME NEW v \in Vcpus, CpuStep(v) \/ Access(v) \/ Timeout(v) PROVE LinkInv'
    BY <1>3, CpuLink
<1> QED BY <1>1, <1>2, <1>3 DEF BNext, MmioRealize, RpRealize, MmioConnect, RpConnect, MmioAccess, RpAccess

-----------------------------------------------------------------------------
\* v could sleep through the loss of its connection, unless it hears of it.
Exposed(v) == Inside(v) /\ (cpu[v].at = "wait" \/ (cpu[v].at \in {"check", "woken"} /\ ~has_resp))

\* A step of v: the others are where they were.
LEMMA CpuWait ==
    ASSUME LinkInv, WaitInv, NEW v \in Vcpus, CpuStep(v) \/ Access(v) \/ Timeout(v)
    PROVE  WaitInv'
<1>0. ASSUME UNCHANGED <<running, doubt, has_resp, stream, rx>>,
             \A w \in Vcpus \ {v} : cpu'[w] = cpu[w] /\ via'[w] = via[w],
             Inside(v)' => Inside(v), Exposed(v)' => (Exposed(v) /\ via'[v] = via[v]) \/ via'[v] = stream
      PROVE  WaitInv'
    BY <1>0 DEF Inside, WaitInv, Exposed
<1>1. CASE Relock(v)
    BY <1>1, <1>0 DEF Relock, inner, Exposed, Inside, Place, Guest, ToSend, LinkInv, LinkType
<1>2. CASE CheckConnected(v)
    BY <1>2, <1>0 DEF CheckConnected, inner, LinkInv, LinkType, Inside, ToSend, Exposed
<1>3. ASSUME Leave(v), UNCHANGED <<running, has_resp, stream, rx>>, doubt \subseteq doubt'
      PROVE  WaitInv'
    BY <1>3 DEF Leave, Inside, Guest, LinkInv, LinkType, Exposed, WaitInv
<1>4. CASE Clear(v)
    BY <1>4 DEF Clear, Inside, ToSend, LinkInv, LinkType, WaitInv
<1>5. CASE SendRequest(v) /\ stream # 0 /\ sock.open
    BY <1>5, <1>0 DEF SendRequest, inner, Inside, LinkInv, LinkType
<1>6. CASE CheckResponse(v) /\ running /\ ~has_resp /\ cpu[v].at = "check"
    BY <1>6, <1>0 DEF CheckResponse, Inside, Exposed, LinkInv, LinkType
<1>7. CASE Access(v)
    BY <1>7, <1>0 DEF Access, inner, Inside, LinkInv, LinkType, Exposed
<1>8. CASE Timeout(v)
    BY <1>8, <1>0 DEF Timeout, inner, Exposed, Inside, Place, Guest, ToSend, LinkInv, LinkType
<1>9. CASE Refuse(v) \/ (SendRequest(v) /\ ~(stream # 0 /\ sock.open))
    BY <1>3, <1>9 DEF Refuse, SendRequest, inner
<1>10. CASE CheckResponse(v) /\ ~(running /\ ~has_resp /\ cpu[v].at = "check")
    BY <1>3, <1>10 DEF CheckResponse
<1> QED BY <1>1, <1>2, <1>4, <1>5, <1>6, <1>7, <1>8, <1>9, <1>10, ZenonT(60) DEF CpuStep

\* What notify_all makes of a vCPU that waits for a response.
LEMMA NotifyWakes ==
    ASSUME cpu \in [Vcpus -> Place], NEW cs, cpu' = NotifyAll(cs), NEW v \in Vcpus, Inside(v)
    PROVE  /\ "resp" \in cs => cpu'[v].at # "wait"
           /\ cpu'[v].at = "wait" => cpu[v].at = "wait"
           /\ cpu'[v].at = "check" => cpu[v].at = "check"
           /\ cpu'[v].at = "woken" => cpu[v].at \in {"wait", "woken"}
BY DEF NotifyAll, Place, Guest, ToSend, Inside

\* A step of another thread.
LEMMA OthersWait ==
    ASSUME LinkInv, Fresh, WaitInv, RxStep \/ Connect \/ PeerStep \/ Finalize \/ DropStep \/ Realize
    PROVE  WaitInv'
<1>0. via' = via /\ \A v \in Vcpus : Inside(v)' <=> Inside(v)
    BY OthersKeepSides DEF LinkInv, LinkType
<1>1. CASE RxStep \/ PeerStep \/ DropStep \/ Realize
    <2>1. running' = running /\ ("overlap" \in doubt' <=> "overlap" \in doubt)
        BY <1>1, Zenon DEF RxStep, ConnectRefused, Handshake, NotifyConnected, ReadResponse, ReadIrq, SetIrq, Lose,
            NotifyDisconnected, Exit, PeerStep, PeerHello, PeerAnswer, PeerIrq, PeerClose, DropStep,
            InterruptRx, WaitForDrain, DrainRelock, Join, Free, Realize, inner
    <2> SUFFICES ASSUME running, "overlap" \notin doubt, NEW v \in Vcpus, Exposed(v)'
                 PROVE  via[v] = stream' \/ rx' = "notify"
        BY <1>0, <2>1 DEF WaitInv, Exposed
    <2>2. Inside(v) /\ (Exposed(v) => via[v] = stream \/ rx = "notify")
        BY <1>0 DEF Exposed, WaitInv
    <2>3. CASE NotifyConnected
        BY <2>2, <2>3 DEF NotifyConnected, NotifyAll, Inside, Exposed, SocketInv, Uses, LinkInv, LinkType
    <2>4. CASE ReadResponse
        BY <2>2, <2>4, NotifyWakes DEF ReadResponse, Exposed, Inside, DispatchResponse, LinkInv, LinkType
    <2>5. CASE Lose
        BY <2>5 DEF Lose
    <2>6. CASE NotifyDisconnected
        BY <2>2, <2>6, NotifyWakes DEF NotifyDisconnected, Exposed, LinkInv, LinkType
    <2>7. CASE ConnectRefused \/ Handshake \/ ReadIrq \/ SetIrq \/ Exit \/ PeerStep \/ DropStep \/ Realize
        <3>1. \/ UNCHANGED <<cpu, has_resp, stream>> /\ rx # "notify"
              \/ UNCHANGED <<cpu, has_resp, stream, rx>>
              \/ Realize /\ UNCHANGED <<cpu, has_resp, stream>>
            BY <2>7, Zenon DEF ConnectRefused, Handshake, ReadIrq, SetIrq, Exit, PeerStep, PeerHello, PeerAnswer,
                PeerIrq, PeerClose, DropStep, InterruptRx, WaitForDrain, DrainRelock, Join, Free, Realize, inner
        <3> QED BY <2>2, <3>1 DEF Realize, Fresh, Exposed, Inside, Uses, LinkInv, LinkType
    <2> QED BY <1>1, <2>3, <2>4, <2>5, <2>6, <2>7 DEF RxStep
<1>2. CASE Finalize
    BY <1>0, <1>2, Zenon DEF Finalize, WaitInv
<1>3. CASE Connect
    BY <1>3, <1>0 DEF Connect, inner, WaitInv, Inside
<1> QED BY <1>1, <1>2, <1>3

\* WaitInv is inductive, next to LinkInv.
LEMMA WaitInvStep == LinkInv /\ Fresh /\ WaitInv /\ [BNext]_vars => WaitInv'
<1> SUFFICES ASSUME LinkInv, Fresh, WaitInv, [BNext]_vars PROVE WaitInv'
    OBVIOUS
<1>1. CASE UNCHANGED vars
    BY <1>1 DEF vars, WaitInv, Inside, inner
<1>2. CASE RxStep \/ Connect \/ PeerStep \/ Finalize \/ DropStep \/ Realize
    BY <1>2, OthersWait
<1>3. ASSUME NEW v \in Vcpus, CpuStep(v) \/ Access(v) \/ Timeout(v) PROVE WaitInv'
    BY <1>3, CpuWait
<1> QED BY <1>1, <1>2, <1>3 DEF BNext, MmioRealize, RpRealize, MmioConnect, RpConnect, MmioAccess, RpAccess

\* A vCPU that is alone in the bridge does not wait for the response of a lost
\* connection (notify_disconnected reaches it), however often it is lost and
\* made again.
THEOREM BridgeNoOrphanWait == BSpec => []NoOrphanWait
<1>1. BInit => WaitInv
    BY DEF BInit, WaitInv, Inside, Guest
<1>2. WaitInv => NoOrphanWait
    BY DEF WaitInv, NoOrphanWait, Inside
<1> QED BY <1>1, <1>2, FreshInit, FreshStep, LinkInvInit, LinkInvStep, WaitInvStep, PTL DEF BSpec

-----------------------------------------------------------------------------
\* What ReplyInv says of the vCPU that is inside.
Served(v) ==
    /\ cpu[v].at = "send" => Quiet /\ ~has_resp /\ current_resp = 0
    /\ sock.to_peer # <<>> => sock.to_peer[1] = req[v]
    /\ \A i \in Replies : sock.to_rx[i].id = req[v]
    /\ current_resp # 0 => Quiet /\ current_resp = req[v]
    /\ cpu[v].at # "send" /\ has_resp /\ current_resp = 0 => via[v] # stream
    /\ ~has_resp => current_resp = 0

\* ReplyInv after a step, from its parts.
LEMMA ReplyParts ==
    ASSUME Len(sock'.to_peer) <= 1, Replies' # {} => sock'.to_peer = <<>>,
           \A i, j \in Replies' : i = j,
           (\A v \in Vcpus : ~Inside(v)') => Quiet',
           \A v \in Vcpus : Inside(v)' => Served(v)'
    PROVE  ReplyInv'
BY Zenon DEF ReplyInv, Served

\* Without a stored stream nothing is under way.
LEMMA NoStreamIsQuiet ==
    ASSUME LinkInv, stream = 0
    PROVE  Quiet
<1>1. sock.to_peer = <<>> /\ sock.to_rx = <<>>
    BY DEF LinkInv, SocketInv
<1>2. DOMAIN sock.to_rx = {}
    BY <1>1
<1> QED BY <1>1, <1>2, Zenon DEF Quiet, Replies

\* A step that leaves the queues of the socket as they are.
LEMMA SameQueues ==
    ASSUME sock'.to_peer = sock.to_peer, sock'.to_rx = sock.to_rx
    PROVE  Replies' = Replies /\ Quiet' = Quiet
BY DEF Replies, Quiet

\* A step of v.
LEMMA CpuReply ==
    ASSUME LinkInv, WaitInv, ReplyInv, NEW v \in Vcpus, CpuStep(v) \/ Access(v) \/ Timeout(v)
    PROVE  ReplyInv'
<1>0. ASSUME UNCHANGED <<sock, doubt, rx_buf, has_resp, current_resp, stream>>,
             \A w \in Vcpus \ {v} : cpu'[w] = cpu[w] /\ via'[w] = via[w] /\ req'[w] = req[w],
             Inside(v)' <=> Inside(v),
             Inside(v) => via'[v] = via[v] /\ req'[v] = req[v] /\ (cpu'[v].at = "send" <=> cpu[v].at = "send")
      PROVE  ReplyInv'
    BY <1>0, SameQueues DEF Inside, Served, ReplyInv, Clean
<1>1. CASE Relock(v)
    BY <1>1, <1>0 DEF Relock, inner, Inside, Place, Guest, ToSend, LinkInv, LinkType
<1>2. CASE CheckConnected(v) \/ Access(v)
    BY <1>2, <1>0 DEF CheckConnected, Access, inner, LinkInv, LinkType, Inside, ToSend, Guest
<1>3. CASE Timeout(v)
    BY <1>3, <1>0 DEF Timeout, inner, Inside, Place, Guest, ToSend
<1>4. CASE Refuse(v)
    BY <1>4, <1>0 DEF Refuse, Leave, inner, Inside, ToSend, Guest
<1>5. CASE Clear(v)
    <2> SUFFICES ASSUME Clean' PROVE ReplyInv'
        BY DEF ReplyInv
    <2>2. Quiet /\ sock' = sock
        BY <1>5 DEF ReplyInv, Clear, Clean, Inside, ToSend
    <2>3. Quiet' /\ Replies' = {} /\ sock'.to_peer = <<>>
        BY <2>2, SameQueues DEF Quiet
    <2>5. \A w \in Vcpus : Inside(w)' => w = v
        BY <1>5 DEF Clear, Inside, Clean, ToSend
    <2>6. ASSUME NEW w \in Vcpus, Inside(w)'
          PROVE  Served(w)'
        BY <1>5, <2>5, <2>6, <2>3 DEF Served, Clear, LinkInv, LinkType
    <2>7. Len(sock'.to_peer) <= 1
        BY <2>3, EmptySeq
    <2> QED BY <2>3, <2>6, <2>7, ReplyParts, Zenon
<1>6. CASE SendRequest(v) /\ stream # 0 /\ sock.open
    <2> SUFFICES ASSUME Clean' PROVE ReplyInv'
        BY DEF ReplyInv
    <2>2. Quiet /\ ~has_resp /\ current_resp = 0
        BY <1>6 DEF ReplyInv, SendRequest, Clean, Inside, WaitInv
    <2>3. sock' = [sock EXCEPT !.to_peer = Append(<<>>, req[v])]
        BY <1>6, <2>2 DEF SendRequest, Quiet
    <2>5. Replies' = {} /\ Len(sock'.to_peer) = 1 /\ sock'.to_peer[1] = req[v] /\ sock'.to_peer # <<>>
        BY <2>2, <2>3 DEF Replies, Quiet, Socket
    <2>6. \A w \in Vcpus : Inside(w)' <=> w = v
        BY <1>6 DEF SendRequest, Inside, LinkInv, LinkType, Clean, WaitInv
    <2>7. UNCHANGED <<has_resp, current_resp, req>> /\ cpu'[v].at = "check"
        BY <1>6 DEF SendRequest, inner, LinkInv, LinkType
    <2>8. Served(v)'
        BY <2>2, <2>5, <2>7 DEF Served
    <2>9. Len(sock'.to_peer) <= 1
        BY <2>5
    <2> QED BY <2>5, <2>6, <2>8, <2>9, ReplyParts, Zenon
<1>7. CASE CheckResponse(v) /\ running /\ ~has_resp /\ cpu[v].at = "check"
    BY <1>7, <1>0 DEF CheckResponse, Inside, LinkInv, LinkType
<1>8. ASSUME Inside(v), Leave(v), UNCHANGED <<sock, rx_buf>>, doubt \subseteq doubt',
             Clean' => Quiet
      PROVE  ReplyInv'
    BY <1>8, SameQueues DEF ReplyInv, Clean, WaitInv, Leave, Inside, Guest, LinkInv, LinkType, Quiet
<1>9. CASE SendRequest(v) /\ ~(stream # 0 /\ sock.open)
    BY <1>9, <1>8 DEF SendRequest, Inside, Clean, ReplyInv
<1>10. CASE CheckResponse(v) /\ ~(running /\ ~has_resp /\ cpu[v].at = "check")
    <2>2. stream = 0 => Quiet
        BY NoStreamIsQuiet
    <2>3. Clean' => Quiet
        BY <1>10, <2>2 DEF Clean, ReplyInv, CheckResponse, Inside
    <2> QED BY <1>8, <1>10, <2>3 DEF CheckResponse, Inside
<1> QED BY <1>1, <1>2, <1>3, <1>4, <1>5, <1>6, <1>7, <1>9, <1>10 DEF CpuStep

\* A step of another thread.
LEMMA OthersReply ==
    ASSUME LinkInv, WaitInv, ReplyInv, RxStep \/ Connect \/ PeerStep \/ Finalize \/ DropStep \/ Realize
    PROVE  ReplyInv'
<1>0. /\ UNCHANGED <<via, req>>
      /\ \A v \in Vcpus : (Inside(v)' <=> Inside(v)) /\ (cpu'[v].at = "send" <=> cpu[v].at = "send")
    BY OthersKeepSides DEF LinkInv, LinkType
<1>q. sock.to_peer \in Seq(Nat) /\ sock.to_rx \in Seq(Message) /\ Len(sock.to_rx) \in Nat
      /\ DOMAIN sock.to_rx = 1 .. Len(sock.to_rx)
    BY LenProperties DEF Socket, LinkInv, LinkType
\* Steps that do not touch the queues, the response or the doubts.
<1>a. ASSUME sock'.to_rx = sock.to_rx, sock'.to_peer = sock.to_peer,
             UNCHANGED <<rx_buf, doubt, has_resp, current_resp, stream>>
      PROVE  ReplyInv'
    <2>1. Replies' = Replies /\ Quiet' = Quiet
        BY <1>a, SameQueues
    <2>2. \A v \in Vcpus : Inside(v) /\ Served(v) => Served(v)'
        BY <1>0, <1>a, <2>1, Zenon DEF Served
    <2> QED BY <1>0, <1>a, <2>1, <2>2 DEF ReplyInv, Clean, Served
<1>1. CASE ConnectRefused \/ Exit \/ ReadIrq \/ Finalize \/ Realize \/ WaitForDrain \/ DrainRelock \/ Join \/ Free
    BY <1>1, <1>a, Zenon DEF ConnectRefused, Exit, ReadIrq, Finalize, Realize, WaitForDrain, DrainRelock, Join, Free,
                      inner
<1>2. CASE Handshake \/ PeerHello
    <2>1. sock'.to_rx = sock.to_rx /\ sock'.to_peer = sock.to_peer
        BY <1>2, Zenon DEF Handshake, PeerHello, Socket, LinkInv, LinkType
    <2> QED BY <1>2, <1>a, <2>1 DEF Handshake, PeerHello, inner
<1>3. CASE NotifyConnected
    <2>1. Replies' = Replies /\ Quiet' = Quiet
        BY <1>3, SameQueues DEF NotifyConnected
    <2>2. /\ UNCHANGED <<sock, rx_buf, doubt, has_resp, current_resp>> /\ stream' = sock.n
          /\ \A v \in Vcpus : via[v] # stream'
        <3>1. \A v \in Vcpus : via[v] < sock.n
            BY <1>3 DEF NotifyConnected, Uses, LinkInv, LinkType
        <3> QED BY <1>3, <3>1 DEF NotifyConnected, Socket, LinkInv, LinkType
    <2>3. \A v \in Vcpus : Inside(v) /\ Served(v) => Served(v)'
        BY <1>0, <2>1, <2>2, Zenon DEF Served
    <2> QED BY <1>0, <2>1, <2>2, <2>3, Zenon DEF ReplyInv, Clean, Served
<1>4. CASE Lose
    <2>1. Replies' = Replies /\ Quiet' = Quiet
        BY <1>4, SameQueues DEF Lose
    <2>2. UNCHANGED <<sock, doubt, has_resp, current_resp>> /\ stream' = 0 /\ (rx_buf => rx_buf')
        BY <1>4, Zenon DEF Lose, inner
    <2>3. \A v \in Vcpus : Inside(v) /\ cpu[v].at # "send" => via[v] # 0
        BY DEF Uses, LinkInv, LinkType
    <2>4. \A v \in Vcpus : Inside(v) /\ Served(v) => Served(v)'
        BY <1>0, <2>1, <2>2, <2>3, Zenon DEF Served
    <2> QED BY <1>0, <2>1, <2>2, <2>4, Zenon DEF ReplyInv, Clean, Served
<1>5. CASE NotifyDisconnected
    <2>1. Replies' = Replies /\ Quiet' = Quiet
        BY <1>5, SameQueues, Zenon DEF NotifyDisconnected
    <2>2. /\ UNCHANGED <<sock, rx_buf, stream>> /\ has_resp' /\ current_resp' = 0 /\ doubt \subseteq doubt'
          /\ stream = 0
          /\ doubt' = {} => \A v \in Vcpus : Inside(v) => cpu[v].at # "send"
        BY <1>5, Zenon DEF NotifyDisconnected, SocketInv, LinkInv, LinkType
    <2>3. \A v \in Vcpus : Inside(v) /\ cpu[v].at # "send" => via[v] # 0
        BY DEF Uses, LinkInv, LinkType
    <2>4. doubt' = {} => \A v \in Vcpus : Inside(v) /\ Served(v) => Served(v)'
        BY <1>0, <2>1, <2>2, <2>3, Zenon DEF Served
    <2> QED BY <1>0, <2>1, <2>2, <2>4, Zenon DEF ReplyInv, Clean, Served
<1>6. CASE Connect
    <2>1. sock'.to_rx = <<>> /\ sock'.to_peer = <<>>
        BY <1>6 DEF Connect, Closed
    <2>2. Quiet' /\ Replies' = {} /\ Len(sock'.to_peer) <= 1
        BY <2>1 DEF Quiet, Replies
    <2>3. /\ UNCHANGED <<rx_buf, has_resp, current_resp, stream>>
          /\ doubt' = doubt \/ \A v \in Vcpus : ~Inside(v)
        BY <1>6 DEF Connect, inner
    <2>4. \A v \in Vcpus : Inside(v) /\ Served(v) => Served(v)'
        BY <1>0, <2>1, <2>2, <2>3, ZenonT(60) DEF Served
    <2> QED BY <1>0, <2>1, <2>2, <2>3, <2>4, Zenon DEF ReplyInv, Clean, Served
<1>7. CASE PeerClose \/ InterruptRx
    <2>1. sock'.to_rx = sock.to_rx /\ (sock'.to_peer = <<>> \/ sock'.to_peer = sock.to_peer)
        BY <1>7, Zenon DEF PeerClose, InterruptRx, Socket, LinkInv, LinkType
    <2>2. UNCHANGED <<rx_buf, doubt, has_resp, current_resp, stream>>
        BY <1>7 DEF PeerClose, InterruptRx, inner
    <2>3. Replies' = Replies /\ (Quiet => Quiet')
        BY <2>1 DEF Replies, Quiet
    <2>4. \A v \in Vcpus : Inside(v) /\ Served(v) => Served(v)'
        BY <1>0, <2>1, <2>2, <2>3, Zenon DEF Served
    <2>5. Len(<<>>) <= 1
        OBVIOUS
    <2>6. Len(sock.to_peer) <= 1 => Len(sock'.to_peer) <= 1
        BY <2>1, <2>5, Zenon
    <2>7. sock.to_peer = <<>> => sock'.to_peer = <<>>
        BY <2>1, Zenon
    <2> QED BY <1>0, <2>2, <2>3, <2>4, <2>6, <2>7, ZenonT(60) DEF ReplyInv, Clean, Served
<1>8. CASE PeerIrq
    <2> DEFINE m == [type |-> "irq"]
    <2>1. m \in Message /\ m.type # "resp"
        BY DEF Message
    <2>2. sock' = [sock EXCEPT !.to_rx = Append(sock.to_rx, m)] /\ UNCHANGED <<rx_buf, doubt, inner, stream>>
        BY <1>8 DEF PeerIrq
    <2> HIDE DEF m
    <2>3. sock'.to_rx = Append(sock.to_rx, m) /\ sock'.to_peer = sock.to_peer
        BY <2>2 DEF Socket
    <2>4. /\ Append(sock.to_rx, m) \in Seq(Message) /\ Len(Append(sock.to_rx, m)) = Len(sock.to_rx) + 1
          /\ \A i \in 1 .. Len(sock.to_rx) : Append(sock.to_rx, m)[i] = sock.to_rx[i]
          /\ Append(sock.to_rx, m)[Len(sock.to_rx) + 1] = m
        BY <1>q, <2>1, Appended
    <2>5. DOMAIN sock'.to_rx = 1 .. Len(sock.to_rx) + 1
        BY <2>3, <2>4, LenProperties
    <2>6. Replies' = Replies /\ \A i \in Replies : sock'.to_rx[i] = sock.to_rx[i]
        BY <1>q, <2>1, <2>3, <2>4, <2>5 DEF Replies
    <2>7. Quiet' = Quiet
        BY <2>3, <2>6 DEF Quiet
    <2>8. \A v \in Vcpus : Inside(v) /\ Served(v) => Served(v)'
        BY <1>0, <2>2, <2>3, <2>6, <2>7, Zenon DEF Served, inner
    <2> QED BY <1>0, <2>2, <2>3, <2>6, <2>7, <2>8, Zenon DEF ReplyInv, Clean, Served
<1>9. CASE PeerAnswer
    <2> SUFFICES ASSUME Clean' PROVE ReplyInv'
        BY Zenon DEF ReplyInv
    <2> DEFINE m == [type |-> "resp", id |-> Head(sock.to_peer)]
    <2>1. /\ sock.to_peer # <<>> /\ UNCHANGED <<rx_buf, doubt, inner, stream>>
          /\ sock' = [sock EXCEPT !.to_peer = Tail(sock.to_peer), !.to_rx = Append(sock.to_rx, m)]
        BY <1>9 DEF PeerAnswer
    <2>2. Clean /\ Len(sock.to_peer) = 1 /\ Replies = {} /\ ~Quiet
        <3>1. Clean /\ Len(sock.to_peer) <= 1 /\ Replies = {} /\ ~Quiet
            BY <2>1 DEF Clean, ReplyInv, Quiet
        <3>2. Len(sock.to_peer) \in Nat /\ Len(sock.to_peer) # 0
            BY <1>q, <2>1, EmptySeq, LenProperties
        <3>3. \A n \in Nat : n <= 1 /\ n # 0 => n = 1
            OBVIOUS
        <3> QED BY <3>1, <3>2, <3>3, Zenon
    <2>3. Tail(sock.to_peer) = <<>> /\ Head(sock.to_peer) = sock.to_peer[1] /\ Head(sock.to_peer) \in Nat
        <3>1. /\ Tail(sock.to_peer) \in Seq(Nat) /\ Len(Tail(sock.to_peer)) = 0
              /\ Head(sock.to_peer) = sock.to_peer[1] /\ Head(sock.to_peer) \in Nat
            BY <1>q, <2>1, <2>2
        <3> QED BY <3>1, EmptySeq, Zenon
    <2>4. m \in Message /\ m.type = "resp" /\ m.id = sock.to_peer[1]
        BY <2>3 DEF Message
    <2> HIDE DEF m
    <2>5. sock'.to_rx = Append(sock.to_rx, m) /\ sock'.to_peer = <<>>
        BY <2>1, <2>3 DEF Socket
    <2>6. /\ Append(sock.to_rx, m) \in Seq(Message) /\ Len(Append(sock.to_rx, m)) = Len(sock.to_rx) + 1
          /\ \A i \in 1 .. Len(sock.to_rx) : Append(sock.to_rx, m)[i] = sock.to_rx[i]
          /\ Append(sock.to_rx, m)[Len(sock.to_rx) + 1] = m
        BY <1>q, <2>4, Appended
    <2>7. DOMAIN sock'.to_rx = 1 .. Len(sock.to_rx) + 1
        BY <2>5, <2>6, LenProperties
    <2>8. Replies' = {Len(sock.to_rx) + 1} /\ sock'.to_rx[Len(sock.to_rx) + 1] = m
        BY <1>q, <2>2, <2>4, <2>5, <2>6, <2>7 DEF Replies
    <2>9. Len(sock'.to_peer) <= 1
        BY <2>5
    <2>10. \E v \in Vcpus : Inside(v)
        BY <2>2 DEF ReplyInv
    <2>11. ASSUME NEW v \in Vcpus, Inside(v) PROVE Served(v)'
        <3>1. /\ Served(v) /\ sock.to_peer[1] = req[v] /\ cpu[v].at # "send" /\ current_resp = 0
            BY <2>1, <2>2, <2>11 DEF ReplyInv, Served
        <3> QED BY <1>0, <2>1, <2>4, <2>5, <2>8, <2>11, <3>1 DEF Served, inner
    <2> QED BY <1>0, <2>5, <2>8, <2>9, <2>10, <2>11, Zenon DEF ReplyInv, Served
<1>10. ASSUME sock.to_rx # <<>>, sock' = [sock EXCEPT !.to_rx = Tail(sock.to_rx)]
       PROVE  /\ sock'.to_peer = sock.to_peer
              /\ \A i \in Replies' : i + 1 \in Replies /\ sock'.to_rx[i] = sock.to_rx[i + 1] /\ i \in Nat \ {0}
              /\ Quiet => Quiet'
    <2>1. sock'.to_rx = Tail(sock.to_rx) /\ sock'.to_peer = sock.to_peer
        BY <1>10 DEF Socket
    <2>2. /\ Len(Tail(sock.to_rx)) = Len(sock.to_rx) - 1 /\ DOMAIN Tail(sock.to_rx) = 1 .. Len(sock.to_rx) - 1
          /\ \A i \in 1 .. Len(sock.to_rx) - 1 : Tail(sock.to_rx)[i] = sock.to_rx[i + 1]
        BY <1>q, <1>10
    <2>3. \A i \in Replies' : i + 1 \in Replies /\ sock'.to_rx[i] = sock.to_rx[i + 1] /\ i \in Nat \ {0}
        BY <1>q, <2>1, <2>2 DEF Replies
    <2> QED BY <2>1, <2>3, Zenon DEF Quiet
<1>11. CASE SetIrq
    <2> SUFFICES ASSUME Clean' PROVE ReplyInv'
        BY Zenon DEF ReplyInv
    <2>1. /\ sock.to_rx # <<>> /\ sock' = [sock EXCEPT !.to_rx = Tail(sock.to_rx)]
          /\ UNCHANGED <<rx_buf, doubt, inner, stream>>
        BY <1>11 DEF SetIrq, SocketInv, LinkInv, LinkType
    <2>2. Clean /\ sock'.to_peer = sock.to_peer /\ (Quiet => Quiet')
        BY <1>10, <2>1 DEF Clean
    <2>3. \A v \in Vcpus : Inside(v) /\ Served(v) => Served(v)'
        <3> SUFFICES ASSUME NEW v \in Vcpus, Served(v) PROVE Served(v)'
            OBVIOUS
        <3>1. \A i \in Replies' : sock'.to_rx[i].id = req[v]
            BY <1>10, <2>1, Zenon DEF Served
        <3> QED BY <1>0, <2>1, <2>2, <3>1, Zenon DEF Served, inner
    <2>4. Replies' # {} => sock.to_peer = <<>>
        BY <1>10, <2>1, <2>2 DEF ReplyInv
    <2>5. \A i, j \in Replies' : i = j
        <3> SUFFICES ASSUME NEW i \in Replies', NEW j \in Replies' PROVE i = j
            OBVIOUS
        <3>1. i + 1 \in Replies /\ j + 1 \in Replies /\ i \in Nat /\ j \in Nat
            BY <1>10, <2>1
        <3>2. i + 1 = j + 1
            BY <2>2, <3>1, Zenon DEF ReplyInv
        <3> QED BY <3>1, <3>2
    <2>6. Len(sock'.to_peer) <= 1 /\ \A v \in Vcpus : Inside(v) => Served(v)
        BY <2>2 DEF ReplyInv, Served
    <2>7. (\A v \in Vcpus : ~Inside(v)') => Quiet'
        BY <1>0, <2>2, Zenon DEF ReplyInv
    <2> QED BY <1>0, <2>2, <2>3, <2>4, <2>5, <2>6, <2>7, Zenon DEF ReplyInv, Served
<1>12. CASE ReadResponse
    <2> SUFFICES ASSUME Clean' PROVE ReplyInv'
        BY Zenon DEF ReplyInv
    <2>1. /\ sock.to_rx # <<>> /\ sock' = [sock EXCEPT !.to_rx = Tail(sock.to_rx)]
          /\ UNCHANGED <<rx_buf, doubt, stream>>
        BY <1>12 DEF ReadResponse
    <2>2. Clean /\ has_resp' /\ current_resp' = Head(sock.to_rx).id /\ Head(sock.to_rx).type = "resp"
        BY <1>12, <2>1 DEF ReadResponse, DispatchResponse, Clean
    <2>3. 1 \in Replies /\ Head(sock.to_rx) = sock.to_rx[1]
        BY <1>q, <2>1, <2>2, EmptySeq DEF Replies
    <2>4. sock.to_peer = <<>> /\ \A i \in Replies : i = 1
        BY <2>2, <2>3, Zenon DEF ReplyInv
    <2>5. Replies' = {} /\ sock'.to_peer = <<>>
        <3>1. ASSUME NEW i \in Replies' PROVE FALSE
            BY <1>10, <2>1, <2>4, <3>1
        <3> QED BY <1>10, <2>1, <2>4, <3>1
    <2>6. Quiet' /\ Len(sock'.to_peer) <= 1
        BY <2>5, EmptySeq DEF Quiet
    <2>7. ASSUME NEW v \in Vcpus, Inside(v) PROVE Served(v)'
        <3>1. current_resp' = req[v] /\ cpu[v].at # "send"
            BY <2>2, <2>3, <2>7 DEF ReplyInv, Quiet
        <3>2. req[v] # 0
            BY <2>7 DEF Uses, Inside, Guest, LinkInv, LinkType
        <3> QED BY <1>0, <2>2, <2>5, <2>6, <3>1, <3>2, Zenon DEF Served
    <2> QED BY <1>0, <2>5, <2>6, <2>7, Zenon DEF ReplyInv, Served
<1> QED BY <1>1, <1>2, <1>3, <1>4, <1>5, <1>6, <1>7, <1>8, <1>9, <1>11, <1>12 DEF RxStep, PeerStep, DropStep

\* ReplyInv is inductive, next to LinkInv and WaitInv.
LEMMA ReplyInvStep == LinkInv /\ WaitInv /\ ReplyInv /\ [BNext]_vars => ReplyInv'
<1> SUFFICES ASSUME LinkInv, WaitInv, ReplyInv, [BNext]_vars PROVE ReplyInv'
    OBVIOUS
<1>1. CASE UNCHANGED vars
    BY <1>1, Zenon DEF vars, ReplyInv, Clean, Quiet, Replies, Inside, inner
<1>2. CASE RxStep \/ Connect \/ PeerStep \/ Finalize \/ DropStep \/ Realize
    BY <1>2, OthersReply
<1>3. ASSUME NEW v \in Vcpus, CpuStep(v) \/ Access(v) \/ Timeout(v) PROVE ReplyInv'
    BY <1>3, CpuReply
<1> QED BY <1>1, <1>2, <1>3 DEF BNext, MmioRealize, RpRealize, MmioConnect, RpConnect, MmioAccess, RpAccess

\* A vCPU about which nothing is in doubt gets the response to its own request
\* from send_and_wait, and misses it only by a timeout, a shutdown or the loss of
\* its connection.
THEOREM BridgeAnswersOwnRequest == BSpec => AnswersOwnRequest
<1> DEFINE Answer ==
        \A v \in Vcpus :
          Inside(v) /\ cpu'[v] = Guest /\ doubt = {} /\ ~rx_buf =>
              \/ current_resp = req[v]
              \/ /\ current_resp = 0
                 /\ cpu[v].at \in {"send", "late"} \/ ~running \/ via[v] # stream
<1>1. BInit => ReplyInv
    BY DEF BInit, ReplyInv, Inside, Guest, Closed, Quiet, Replies
<1>2. BInit => WaitInv
    BY DEF BInit, WaitInv, Inside, Guest
<1>3. LinkInv /\ ReplyInv /\ [BNext]_vars => [Answer]_vars
    <2> SUFFICES ASSUME LinkInv, ReplyInv, BNext, NEW v \in Vcpus, Inside(v), cpu'[v] = Guest, Clean
                 PROVE  \/ current_resp = req[v]
                        \/ /\ current_resp = 0
                           /\ cpu[v].at \in {"send", "late"} \/ ~running \/ via[v] # stream
        BY DEF Clean
    <2>1. Served(v) /\ cpu[v] # Guest /\ cpu \in [Vcpus -> Place]
        BY DEF ReplyInv, Served, Inside, Guest, LinkInv, LinkType
    <2>3. PICK w \in Vcpus : CpuStep(w) \/ Access(w) \/ Timeout(w)
        BY <2>1, OthersKeepSides DEF BNext, MmioRealize, RpRealize, MmioConnect, RpConnect, MmioAccess,
            RpAccess
    <2>4. w = v
        BY <2>1, <2>3 DEF CpuStep, Access, Timeout, Relock, CheckConnected, Refuse, Leave, Clear, SendRequest,
                          CheckResponse
    <2>5. SendRequest(v) \/ (CheckResponse(v) /\ ~(running /\ ~has_resp /\ cpu[v].at = "check"))
        BY <2>1, <2>3, <2>4 DEF CpuStep, Access, Timeout, Relock, CheckConnected, Refuse, Clear,
                          CheckResponse, Inside, Guest, ToSend
    <2>6. CASE SendRequest(v)
        BY <2>1, <2>6 DEF SendRequest, Served
    <2>7. CASE CheckResponse(v) /\ ~(running /\ ~has_resp /\ cpu[v].at = "check")
        BY <2>1, <2>7 DEF CheckResponse, Served
    <2> QED BY <2>5, <2>6, <2>7, Zenon
<1>4. QED
    BY <1>1, <1>2, <1>3, FreshInit, FreshStep, LinkInvInit, LinkInvStep, WaitInvStep, ReplyInvStep, PTL
       DEF BSpec, AnswersOwnRequest
=============================================================================
