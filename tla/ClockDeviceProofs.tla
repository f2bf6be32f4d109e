------------------------- MODULE ClockDeviceProofs --------------------------
(***************************************************************************)
(* The handshake of the clock device with the time authority, for every    *)
(* choice of quanta.                                                       *)
(***************************************************************************)
EXTENDS ClockDevice, TLAPS

\* The provers of a leaf that names none, and the time they get.
USE SMTT(30), Zenon

\* How the harness drives a node: QEMU is started frozen, synchronised with a
\* quantum of 0 ns, continued, and asked for more than nothing ever after.
Harnessed == FrozenBoot /\ FirstDeltas = {0} /\ 0 \notin Deltas

\* The vCPU has stopped for a grant, and takes the next one it sees.
Parked == vcpu \in {"wait", "sleep"} \/ (is_yielding /\ vcpu \in {"guest", "enter"})

\* A grant is out which the vCPU has not yet taken, and may take.
Loadable == state = "Executing" /\ (Parked \/ vcpu = "load")

\* The worker holds an answer and is on its way to the time authority.
Answering == worker \in {"swap", "reply", "parked", "respond"}

\* The worker lives, and the time authority has seen no stall and is not about
\* to see one.
NoStall ==
    /\ ~shutdown /\ worker # "exited" /\ reply.error = "OK"
    /\ worker \in {"reply", "parked", "respond"} => w_error = "OK"

\* All that was asked for: with icount exactly, without it at least.
Meets(t) == t >= granted /\ (icount => t = granted)

\* Where the threads are, and what they know there.
Placed ==
    /\ main # "alive" => shutdown
    /\ vcpu # "guest" \/ is_yielding => now >= next_quantum_ns /\ (icount => now = next_quantum_ns)
    /\ vcpu \in {"flip", "wait", "sleep", "load"} =>
          /\ vtime_ns = h_now
          /\ next_quantum_ns <= h_now /\ h_now <= now
    /\ is_yielding /\ icount => vtime_ns = now
    /\ vcpu = "load" => state = "Executing"
    /\ worker \in {"ready", "execute"} \/ Answering => request = <<w_delta>>
    /\ worker \in {"ready", "execute"} => delta_ns = w_delta
    /\ worker = "execute" => w_delta # 0
    /\ request # <<>> => reply.error = "OK"
    /\ worker # "exited" => consecutive_timeouts <= watchdog_threshold

\* The frozen boot: nothing moves before the first, empty quantum is answered.
Frozen ==
    /\ requests = 0 => ~continued /\ request = <<>>
    /\ request = <<0>> => ~continued
    /\ ~continued =>
          /\ requests <= 1 /\ request \in {<<>>, <<0>>}
          /\ vcpu = "guest" /\ ~is_yielding
          /\ now = 0 /\ next_quantum_ns = 0 /\ vtime_ns = 0
          /\ ~shutdown /\ Answering => state = "Executing"
          /\ ~shutdown /\ worker = "recv" /\ request = <<>> /\ requests > 0
                => state = "Executing"

\* Nothing may be taken once more while the worker is between two grants, and
\* with icount what may be taken has been asked for.
Causal ==
    /\ icount => now <= next_quantum_ns /\ next_quantum_ns <= granted
    /\ icount /\ Loadable => next_quantum_ns + delta_ns <= granted
    /\ icount /\ worker = "ready" => next_quantum_ns + w_delta <= granted
    /\ worker = "ready" => ~Loadable
    /\ worker = "recv" /\ reply.error = "OK" /\ ~shutdown => ~Loadable
    /\ Answering /\ w_error = "OK" /\ ~shutdown => ~Loadable

\* Without a stall the vCPU waits whenever it is said to, and the books balance.
Exact ==
    /\ NoStall /\ ~pending_stall /\ continued /\ state = "Waiting" => Parked
    /\ worker = "recv" /\ request # <<>> /\ ~shutdown =>
          Meets(next_quantum_ns + request[1])
    /\ worker = "ready" /\ ~shutdown => Meets(next_quantum_ns + w_delta)
    /\ worker = "execute" /\ ~shutdown /\ ~pending_stall =>
          IF Loadable THEN Meets(next_quantum_ns + delta_ns)
          ELSE Meets(next_quantum_ns) /\ (state = "Waiting" => Meets(vtime_ns))
    /\ worker = "swap" /\ w_error = "OK" /\ ~shutdown /\ ~pending_stall =>
          Meets(next_quantum_ns) /\ Meets(vtime_ns)
    /\ worker = "reply" /\ w_error = "OK" /\ ~shutdown =>
          Meets(next_quantum_ns) /\ Meets(vtime_ns)
    /\ worker \in {"parked", "respond"} /\ w_error = "OK" /\ ~shutdown =>
          Meets(next_quantum_ns) /\ Meets(w_vtime)
    /\ worker \in {"recv", "exited"} /\ request = <<>> /\ reply.error = "OK" /\ ~shutdown =>
          (worker = "recv" => Meets(next_quantum_ns)) /\ Meets(reply.vtime)

\* The inductive invariant of the clock device.
ClockInv == KTypeOK /\ Placed /\ Frozen /\ Causal /\ Exact
-----------------------------------------------------------------------------
\* A node that has just been realized satisfies ClockInv.
LEMMA InitEstablishesInv == ASSUME KInit PROVE ClockInv
<1> USE ClockAssumption DEF KInit
<1>1. KTypeOK
  <2>1. /\ is_yielding \in BOOLEAN /\ pending_stall \in BOOLEAN /\ is_first_quantum \in BOOLEAN
        /\ shutdown \in BOOLEAN /\ aborted \in BOOLEAN /\ continued \in BOOLEAN
    BY Zenon
  <2> QED BY <2>1 DEF KTypeOK
<1>3. Causal /\ Exact
  BY DEF Causal, Exact, Answering, Loadable, Parked, NoStall, Meets
<1> QED BY <1>1, <1>3 DEF ClockInv, Placed, Frozen, Answering

\* ClockInv is inductive: every step of every thread keeps it.
LEMMA StepKeepsInv == ASSUME Harnessed, ClockInv, [KNext]_kvars PROVE ClockInv'
<1> USE ClockAssumption DEF Harnessed, setup, vcpuVars, workerVars, taVars
<1>1. ASSUME RunBlock PROVE ClockInv'
    BY <1>1 DEF RunBlock, ClockInv, KTypeOK, Placed, Answering, Frozen, Causal, Exact, Loadable, Parked,
        NoStall, Meets
<1>2. ASSUME HookEnter PROVE ClockInv'
    BY <1>2 DEF HookEnter, ClockInv, KTypeOK, Placed, Causal, Answering, Frozen, Exact, Loadable, Parked,
        NoStall, Meets
<1>3. ASSUME HookBegin PROVE ClockInv'
    BY <1>3 DEF HookBegin, ClockInv, KTypeOK, Placed, Answering, Frozen, Causal, Exact, Loadable, Parked,
        NoStall, Meets
<1>4. ASSUME HookFlip PROVE ClockInv'
    BY <1>4 DEF HookFlip, ClockInv, KTypeOK, Placed, Answering, Frozen, Causal, Exact, Loadable, Parked,
        NoStall, Meets
<1>5. ASSUME HookWait PROVE ClockInv'
  <2> USE <1>5 DEF HookWait, HookReturn
  <2>1. KTypeOK'
    <3>2. is_yielding' \in BOOLEAN
      BY Zenon DEF ClockInv, KTypeOK
    <3> QED BY <3>2 DEF ClockInv, KTypeOK
  <2>4. Causal'
    BY DEF ClockInv, KTypeOK, Placed, Frozen, Causal, Exact, Answering, Loadable, Parked
  <2>5. Exact'
    BY DEF ClockInv, KTypeOK, Placed, Frozen, Causal, Exact, Answering, Loadable, Parked, NoStall, Meets
  <2> QED BY <2>1, <2>4, <2>5 DEF ClockInv, KTypeOK, Placed, Answering, Frozen
<1>6. ASSUME HookWake PROVE ClockInv'
    BY <1>6 DEF HookWake, ClockInv, KTypeOK, Placed, Answering, Frozen, Causal, Exact, Loadable, Parked,
        NoStall, Meets
<1>7. ASSUME HookStall PROVE ClockInv'
  <2> USE <1>7 DEF HookStall, HookReturn
  <2>1. KTypeOK'
    <3>2. is_yielding' \in BOOLEAN /\ pending_stall' \in BOOLEAN
      BY Zenon DEF ClockInv, KTypeOK
    <3> QED BY <3>2 DEF ClockInv, KTypeOK
  <2>4. Causal'
    BY DEF ClockInv, KTypeOK, Placed, Frozen, Causal, Exact, Answering, Loadable, Parked
  <2>5. Exact'
    BY DEF ClockInv, KTypeOK, Placed, Frozen, Causal, Exact, Answering, Loadable, Parked, NoStall, Meets
  <2> QED BY <2>1, <2>4, <2>5 DEF ClockInv, KTypeOK, Placed, Answering, Frozen
<1>8. ASSUME HookLoad PROVE ClockInv'
  <2> USE <1>8 DEF HookLoad, HookReturn
  <2>1. KTypeOK'
    <3>2. is_yielding' \in BOOLEAN
      BY Zenon DEF ClockInv, KTypeOK
    <3> QED BY <3>2 DEF ClockInv, KTypeOK
  <2>4. Causal'
    BY DEF ClockInv, KTypeOK, Placed, Frozen, Causal, Exact, Answering, Loadable, Parked
  <2>5. Exact'
    BY DEF ClockInv, KTypeOK, Placed, Frozen, Causal, Exact, Answering, Loadable, Parked, NoStall, Meets
  <2> QED BY <2>1, <2>4, <2>5 DEF ClockInv, KTypeOK, Placed, Answering, Frozen
<1>9. ASSUME WorkerRecv PROVE ClockInv'
    BY <1>9 DEF WorkerRecv, ClockInv, KTypeOK, Placed, Answering, Frozen, Causal, Exact, Loadable, Parked,
        NoStall, Meets
<1>10. ASSUME WorkerMiss PROVE ClockInv'
  <2> USE <1>10 DEF WorkerMiss
  <2>2. Placed'
    <3>2. ~aborted' => ~(consecutive_timeouts + 1 > watchdog_threshold)
      BY Zenon
    <3> QED BY <3>2 DEF ClockInv, KTypeOK, Placed, Answering
  <2>4. Causal'
    BY DEF ClockInv, KTypeOK, Placed, Frozen, Causal, Exact, Answering, Loadable, Parked
  <2>5. Exact'
    BY DEF ClockInv, KTypeOK, Placed, Frozen, Causal, Exact, Answering, Loadable, Parked, NoStall, Meets
  <2> QED BY <2>2, <2>4, <2>5 DEF ClockInv, KTypeOK, Placed, Frozen, Answering
<1>11. ASSUME WorkerExit PROVE ClockInv'
    BY <1>11 DEF WorkerExit, ClockInv, KTypeOK, Placed, Answering, Frozen, Causal, Exact, Loadable, Parked,
        NoStall, Meets
<1>12. ASSUME WorkerGiveUp PROVE ClockInv'
    BY <1>12 DEF WorkerGiveUp, ClockInv, KTypeOK, Placed, Answering, Frozen, Causal, Exact, Loadable,
        Parked, NoStall, Meets
<1>13. ASSUME WorkerGrant PROVE ClockInv'
  <2> USE <1>13 DEF WorkerGrant
  <2>1. KTypeOK'
    <3>1. is_first_quantum' \in BOOLEAN
      BY Zenon DEF ClockInv, KTypeOK
    <3> QED BY <3>1 DEF ClockInv, KTypeOK
  <2>4. Causal'
    <3>1. request = <<w_delta>> /\ delta_ns = w_delta
      BY DEF ClockInv, Placed
    <3>2. CASE w_delta = 0
      BY <3>1, <3>2 DEF ClockInv, KTypeOK, Frozen, Causal, Answering, Loadable, Parked
    <3>3. CASE w_delta # 0
      BY <3>1, <3>3 DEF ClockInv, KTypeOK, Causal, Answering, Loadable, Parked
    <3> QED
      BY <3>2, <3>3
  <2>5. Exact'
    <3>1. request = <<w_delta>> /\ reply.error = "OK" /\ delta_ns = w_delta
      BY DEF ClockInv, Placed
    <3>3. CASE w_delta = 0
        BY <3>1, <3>3 DEF ClockInv, Frozen, KTypeOK, Exact, NoStall, Meets
    <3>4. CASE w_delta # 0
        BY <3>4, <3>1 DEF ClockInv, KTypeOK, Frozen, Exact, NoStall, Meets, Loadable, Parked
    <3> QED
      BY <3>3, <3>4
  <2> QED BY <2>1, <2>4, <2>5 DEF ClockInv, KTypeOK, Placed, Answering, Frozen
<1>14. ASSUME WorkerFinish PROVE ClockInv'
  <2> USE <1>14 DEF WorkerFinish
  <2>1. KTypeOK'
    <3>1. is_first_quantum' \in BOOLEAN
      BY Zenon DEF ClockInv, KTypeOK
    <3> QED
      BY <3>1 DEF ClockInv, KTypeOK
  <2>3. Frozen'
      BY DEF ClockInv, Placed, Frozen
  <2>4. Causal'
    BY DEF ClockInv, KTypeOK, Placed, Frozen, Causal, Exact, Answering, Loadable, Parked
  <2>5. Exact'
    BY DEF ClockInv, KTypeOK, Placed, Frozen, Causal, Exact, Answering, Loadable, Parked, NoStall, Meets
  <2> QED BY <2>1, <2>3, <2>4, <2>5 DEF ClockInv, KTypeOK, Placed, Answering
<1>15. ASSUME WorkerSwap PROVE ClockInv'
  <2> USE <1>15 DEF WorkerSwap
  <2>1. KTypeOK'
    <3>1. pending_stall' \in BOOLEAN
      BY ZenonT(60) DEF ClockInv, KTypeOK
    <3> QED BY <3>1 DEF ClockInv, KTypeOK
  <2>4. Causal'
    BY DEF ClockInv, KTypeOK, Placed, Frozen, Causal, Exact, Answering, Loadable, Parked
  <2>5. Exact'
    BY DEF ClockInv, KTypeOK, Placed, Frozen, Causal, Exact, Answering, Loadable, Parked, NoStall, Meets
  <2> QED BY <2>1, <2>4, <2>5 DEF ClockInv, KTypeOK, Placed, Answering, Frozen
<1>16. ASSUME WorkerPark PROVE ClockInv'
    BY <1>16 DEF WorkerPark, ClockInv, KTypeOK, Placed, Answering, Frozen, Causal, Exact, Loadable, Parked,
        NoStall, Meets
<1>17. ASSUME StartSignal PROVE ClockInv'
    BY <1>17 DEF StartSignal, ClockInv, KTypeOK, Placed, Answering, Frozen, Causal, Exact, Loadable,
        Parked, NoStall, Meets
<1>18. ASSUME WorkerReply PROVE ClockInv'
  <2> USE <1>18 DEF WorkerReply
  <2>4. Causal'
    BY DEF ClockInv, KTypeOK, Placed, Frozen, Causal, Exact, Answering, Loadable, Parked
  <2>5. Exact'
      BY DEF NoStall, Meets, ClockInv, Placed, Answering, Exact, Parked
  <2> QED BY <2>4, <2>5 DEF ClockInv, KTypeOK, Placed, Answering, Frozen
<1>19. ASSUME Finalize PROVE ClockInv'
    BY <1>19 DEF Finalize, ClockInv, KTypeOK, Placed, Answering, Frozen, Causal, Exact, Loadable, Parked,
        NoStall, Meets
<1>20. ASSUME Drain PROVE ClockInv'
    BY <1>20 DEF Drain, ClockInv, KTypeOK, Placed, Answering, Frozen, Causal, Exact, Loadable, Parked,
        NoStall, Meets
<1>21. ASSUME Join PROVE ClockInv'
    BY <1>21 DEF Join, ClockInv, KTypeOK, Placed, Answering, Frozen, Causal, Exact, Loadable, Parked,
        NoStall, Meets
<1>22. ASSUME Request PROVE ClockInv'
  <2> USE <1>22 DEF Request
  <2>4. Causal'
    BY DEF ClockInv, KTypeOK, Placed, Frozen, Causal, Exact, Answering, Loadable, Parked
  <2>5. Exact'
    BY DEF ClockInv, KTypeOK, Placed, Frozen, Causal, Exact, Answering, Loadable, Parked, NoStall, Meets
  <2> QED BY <2>4, <2>5 DEF ClockInv, KTypeOK, Placed, Answering, Frozen
<1>23. ASSUME Continue PROVE ClockInv'
    BY <1>23 DEF Continue, ClockInv, KTypeOK, Placed, Answering, Frozen, Causal, Exact, Loadable, Parked,
        NoStall, Meets
<1>24. ASSUME Flow PROVE ClockInv'
    BY <1>24 DEF Flow, ClockInv, KTypeOK, Placed, Answering, Frozen, Causal, Exact, Loadable, Parked,
        NoStall, Meets
<1>25. ASSUME UNCHANGED kvars PROVE ClockInv'
  <2> USE <1>25 DEF kvars, setup, vcpuVars, workerVars, taVars
  <2>5. Exact'
    BY DEF ClockInv, Exact, Answering, Loadable, Parked, NoStall, Meets
  <2> QED BY <2>5 DEF ClockInv, KTypeOK, Placed, Answering, Frozen, Causal, Loadable, Parked
<1> QED
  BY <1>1, <1>2, <1>3, <1>4, <1>5, <1>6, <1>7, <1>8, <1>9, <1>10, <1>11, <1>12, <1>13, <1>14, <1>15, <1>16, <1>17, <1>18, <1>19, <1>20, <1>21, <1>22, <1>23, <1>24, <1>25 DEF KNext

\* The invariant holds of every node that is driven as the harness does it.
THEOREM ClockInvariant == ASSUME Harnessed PROVE KSpec => []ClockInv
<1>1. KInit => ClockInv
  BY InitEstablishesInv
<1>2. ClockInv /\ [KNext]_kvars => ClockInv'
  BY StepKeepsInv
<1> QED
  BY <1>1, <1>2, PTL DEF KSpec

\* The threads' shared state keeps its types (KTypeOK).
THEOREM ClockTypeCorrect == ASSUME Harnessed PROVE KSpec => []KTypeOK
<1>1. ClockInv => KTypeOK
  BY DEF ClockInv
<1> QED
  BY <1>1, ClockInvariant, PTL

\* Whatever the quanta, the guest never runs past what was asked for: no grant
\* is taken twice and none is taken with the length of another.
THEOREM ClockNeverAhead == ASSUME Harnessed PROVE KSpec => []NeverAhead
<1>1. ClockInv => NeverAhead
  BY DEF ClockInv, KTypeOK, Causal, NeverAhead
<1> QED
  BY <1>1, ClockInvariant, PTL

\* Whatever the quanta and wherever a stall strikes, a node that replies OK has
\* executed all that was asked for.
THEOREM ClockOkMeansExecuted == ASSUME Harnessed PROVE KSpec => []OkMeansExecuted
<1>1. ClockInv => OkMeansExecuted
  BY DEF ClockInv, KTypeOK, Placed, Exact, Meets, OkMeansExecuted, Answering
<1> QED
  BY <1>1, ClockInvariant, PTL

-----------------------------------------------------------------------------
\* ClockManager::drop frees the backend behind both threads: a hook that was
\* active is waited for, a later one finds no pointer.
Teardown ==
    /\ main \in {"alive", "drain", "join", "freed"}
    /\ main \in {"join", "freed"} => vcpu = "guest"
    /\ main = "freed" => worker = "exited"

\* However the node is driven, the backend is not freed under a thread.
THEOREM ClockNoUseAfterFree == KSpec => []NoUseAfterFree
<1>1. KInit => Teardown
  BY DEF KInit, Teardown
<1>2. Teardown /\ [KNext]_kvars => Teardown'
  <2> SUFFICES ASSUME Teardown, [KNext]_kvars PROVE Teardown'
    OBVIOUS
  <2> USE DEF Teardown, setup, vcpuVars, workerVars, taVars
  <2>1. ASSUME \/ RunBlock \/ Flow \/ HookEnter \/ HookBegin \/ HookFlip \/ HookWait \/ HookWake
               \/ HookStall \/ HookLoad
        PROVE Teardown'
    BY <2>1, Zenon DEF RunBlock, Flow, HookEnter, HookBegin, HookFlip, HookWait, HookWake, HookStall,
       HookLoad, HookReturn
  <2>2. ASSUME \/ WorkerRecv \/ WorkerMiss \/ WorkerExit \/ WorkerGiveUp \/ WorkerGrant
               \/ WorkerFinish \/ WorkerSwap \/ WorkerPark \/ StartSignal \/ WorkerReply
        PROVE Teardown'
    BY <2>2, Zenon DEF WorkerRecv, WorkerMiss, WorkerExit, WorkerGiveUp, WorkerGrant, WorkerFinish,
       WorkerSwap, WorkerPark, StartSignal, WorkerReply
  <2>3. ASSUME Finalize \/ Drain \/ Join \/ Request \/ Continue PROVE Teardown'
    BY <2>3 DEF Finalize, Drain, Join, Request, Continue
  <2>4. ASSUME UNCHANGED kvars PROVE Teardown'
    BY <2>4 DEF kvars
  <2> QED
    BY <2>1, <2>2, <2>3, <2>4 DEF KNext
<1>3. Teardown => NoUseAfterFree
  BY DEF Teardown, NoUseAfterFree
<1> QED
  BY <1>1, <1>2, <1>3, PTL DEF KSpec

=============================================================================
