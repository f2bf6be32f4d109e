---------------------------- MODULE ClockDevice ----------------------------
(***************************************************************************)
(* The virtmcu-clock device of one node (hw/rust/backbone/clock/src/lib.rs): *)
(* the vCPU thread, which calls the quantum hook at the end of every       *)
(* translation block, the worker thread, which answers the time authority, *)
(* and the main thread, which finalizes the device.                        *)
(*                                                                         *)
(* The threads share atomics.  A step of a thread is at most one access to *)
(* a shared variable that another thread writes.  The condition variable   *)
(* only shortens polling waits with timeouts, so a waiting thread looks at *)
(* the state again at any time.  Wall-clock timeouts may strike whenever   *)
(* the code looks at them.                                                 *)
(*                                                                         *)
(* Virtual time is counted in abstract units.  With icount it is driven by *)
(* the guest: a translation block takes one unit, and the quantum timer    *)
(* ends the last block at the boundary.  Without icount (slaved-suspend)   *)
(* it flows by itself, while a hook waits too, and may pass the boundary.  *)
(***************************************************************************)
EXTENDS Integers

CONSTANTS
    FirstDeltas,        \* the delta_ns values the time authority begins with
    Deltas,             \* the delta_ns values it asks for later
    FrozenBoot,         \* QEMU is spawned with -S and continued only after the
                        \* first reply, as the Simulation harness does it
    MaxRequests,        \* bound: requests of the time authority
    MaxDrift,           \* bound: how far the clock flows beyond what was granted
    watchdog_threshold

ASSUME ClockAssumption ==
    /\ FirstDeltas \subseteq Nat /\ Deltas \subseteq Nat
    /\ FrozenBoot \in BOOLEAN
    /\ MaxRequests \in Nat /\ MaxDrift \in Nat
    /\ watchdog_threshold \in Nat

VARIABLES
    \* set when QEMU and the device are started
    icount,         \* icount_enabled()
    is_coordinated,
    \* VirtmcuClock and the QEMU virtual clock: the vCPU thread
    now, next_quantum_ns, is_yielding,
    h_now,          \* the time at which the hook was entered
    vcpu,           \* "guest", or where it is in the hook: "enter" (pointer
                    \* not yet read), "flip", "wait", "sleep", "load"
    \* VirtmcuClockBackend: shared
    state, delta_ns, vtime_ns, pending_stall, is_first_quantum, shutdown,
    \* the worker thread
    worker,         \* "recv", "ready", "execute", "swap", "reply", "parked" in
                    \* start_rx.recv(), "respond", "exited"
    w_delta, w_error, w_vtime, consecutive_timeouts, aborted,
    \* the main thread
    main,           \* "alive", "drain", "join", "freed"
    \* the time authority
    continued,      \* QEMU runs its vCPU
    request,        \* <<delta>> while a request is unanswered
    reply,          \* the last reply
    requests,       \* how many requests it has made
    granted         \* history: the sum of the deltas it has asked for

setup == <<icount, is_coordinated>>
vcpuVars == <<now, h_now, next_quantum_ns, is_yielding, vcpu>>
workerVars == <<worker, w_delta, w_error, w_vtime, consecutive_timeouts, aborted, is_first_quantum>>
taVars == <<continued, request, reply, requests, granted>>
kvars == <<setup, vcpuVars, state, delta_ns, vtime_ns, pending_stall, shutdown, workerVars, main, taVars>>

\* The types of the shared state and of the threads' program counters.
KTypeOK ==
    /\ icount \in BOOLEAN /\ is_coordinated \in BOOLEAN
    /\ now \in Nat /\ h_now \in Nat /\ next_quantum_ns \in Nat /\ is_yielding \in BOOLEAN
    /\ vcpu \in {"guest", "enter", "flip", "wait", "sleep", "load"}
    /\ state \in {"Executing", "Waiting"}
    /\ delta_ns \in Nat /\ vtime_ns \in Nat
    /\ pending_stall \in BOOLEAN /\ is_first_quantum \in BOOLEAN /\ shutdown \in BOOLEAN
    /\ worker \in {"recv", "ready", "execute", "swap", "reply", "parked", "respond", "exited"}
    /\ w_delta \in Nat /\ w_error \in {"OK", "STALL"} /\ w_vtime \in Nat
    /\ consecutive_timeouts \in 0 .. watchdog_threshold + 1 /\ aborted \in BOOLEAN
    /\ main \in {"alive", "drain", "join", "freed"}
    /\ request \in {<<>>} \cup {<<d>> : d \in FirstDeltas \cup Deltas}
    /\ reply \in [vtime : Nat, error : {"OK", "STALL"}]
    /\ continued \in BOOLEAN /\ requests \in 0 .. MaxRequests /\ granted \in Nat

\* clock_realize and clock_init_with_transport.
KInit ==
    /\ icount \in BOOLEAN /\ is_coordinated \in BOOLEAN
    /\ now = 0 /\ h_now = 0 /\ next_quantum_ns = 0 /\ is_yielding = FALSE /\ vcpu = "guest"
    /\ state = "Waiting" /\ delta_ns = 0 /\ vtime_ns = 0
    /\ pending_stall = FALSE /\ is_first_quantum = TRUE /\ shutdown = FALSE
    /\ worker = "recv" /\ w_delta = 0 /\ w_error = "OK" /\ w_vtime = 0
    /\ consecutive_timeouts = 0 /\ aborted = FALSE
    /\ main = "alive"
    /\ continued = FALSE
    /\ request = <<>> /\ reply = [vtime |-> 0, error |-> "OK"]
    /\ requests = 0 /\ granted = 0

-----------------------------------------------------------------------------
(* The vCPU thread.                                                        *)

\* A translation block runs, with icount.  Once the device is gone nothing stops
\* the guest, and its clock is of no interest.
RunBlock ==
    /\ icount
    /\ vcpu = "guest" /\ main = "alive"
    /\ now < next_quantum_ns
    /\ now' = now + 1
    /\ UNCHANGED <<h_now, next_quantum_ns, is_yielding, vcpu, state, delta_ns, vtime_ns,
                   pending_stall, shutdown, workerVars, main, setup, taVars>>

\* The clock flows, without icount, unless QEMU is stopped.
Flow ==
    /\ ~icount /\ continued /\ main = "alive"
    /\ now < granted + MaxDrift
    /\ now' = now + 1
    /\ UNCHANGED <<h_now, next_quantum_ns, is_yielding, vcpu, state, delta_ns, vtime_ns,
                   pending_stall, shutdown, workerVars, main, setup, taVars>>

\* clock_cpu_halt_cb counts itself in before it reads the pointer ...  (The
\* hooks are unset when finalize begins.)
HookEnter ==
    /\ vcpu = "guest" /\ main = "alive" /\ continued
    /\ now >= next_quantum_ns
    /\ vcpu' = "enter"
    /\ UNCHANGED <<now, h_now, next_quantum_ns, is_yielding, state, delta_ns, vtime_ns,
                   pending_stall, shutdown, workerVars, main, setup, taVars>>

\* ... which is null once finalize has begun; else the wait begins with the
\* time the guest has reached, and a yielding hook goes on with its wait.
HookBegin ==
    /\ vcpu = "enter"
    /\ IF main = "alive"
       THEN /\ h_now' = now /\ vtime_ns' = now
            /\ vcpu' = IF is_yielding THEN "wait" ELSE "flip"
       ELSE vcpu' = "guest" /\ UNCHANGED <<h_now, vtime_ns>>
    /\ UNCHANGED <<now, next_quantum_ns, is_yielding, state, delta_ns,
                   pending_stall, shutdown, workerVars, main, setup, taVars>>

\* The quantum is over: Executing -> Waiting.  Nobody else leaves Executing,
\* so the compare_exchange succeeds.
HookFlip ==
    /\ vcpu = "flip"
    /\ state' = "Waiting"
    /\ vcpu' = "wait"
    /\ UNCHANGED <<now, h_now, next_quantum_ns, is_yielding, delta_ns, vtime_ns,
                   pending_stall, shutdown, workerVars, main, setup, taVars>>

\* The end of clock_cpu_halt_cb_internal: the guest may run for delta from where
\* it entered.  The clock is advanced there at once when the vCPU is halted or
\* icount is off, and the next boundary is never in the past.
HookReturn(delta, yielding) ==
    LET target == h_now + delta
    IN  /\ \E halted \in BOOLEAN :
              now' = IF (~icount \/ halted) /\ target > now THEN target ELSE now
        /\ next_quantum_ns' = IF target < now' THEN now' ELSE target
        /\ is_yielding' = yielding
        /\ vcpu' = "guest"
        /\ UNCHANGED h_now

\* (A plausible slip: the shutdown flag is not looked at while waiting.)
HookWaitDeaf ==
    /\ vcpu = "wait"
    /\ \/ vcpu' = "load" /\ state = "Executing" /\ UNCHANGED <<now, h_now, next_quantum_ns, is_yielding>>
       \/ vcpu' = "sleep" /\ state = "Waiting" /\ UNCHANGED <<now, h_now, next_quantum_ns, is_yielding>>
    /\ UNCHANGED <<state, delta_ns, vtime_ns, pending_stall, shutdown, workerVars, main, setup, taVars>>

\* One look at the state: granted, shut down, asked to yield, or sleep.
HookWait ==
    /\ vcpu = "wait"
    /\ \/ /\ state = "Executing"
          /\ vcpu' = "load"
          /\ UNCHANGED <<now, h_now, next_quantum_ns, is_yielding>>
       \/ state = "Waiting" /\ shutdown /\ HookReturn(0, FALSE)
       \/ state = "Waiting" /\ ~shutdown /\ HookReturn(0, TRUE)
       \/ /\ state = "Waiting" /\ ~shutdown
          /\ vcpu' = "sleep"
          /\ UNCHANGED <<now, h_now, next_quantum_ns, is_yielding>>
    /\ UNCHANGED <<state, delta_ns, vtime_ns, pending_stall, shutdown, workerVars, main, setup, taVars>>

\* Woken up, notified or not: look again.
HookWake ==
    /\ vcpu = "sleep"
    /\ vcpu' = "wait"
    /\ UNCHANGED <<now, h_now, next_quantum_ns, is_yielding, state, delta_ns, vtime_ns,
                   pending_stall, shutdown, workerVars, main, setup, taVars>>

\* The stall timeout is over: give up, without another look at the state.
HookStall ==
    /\ vcpu = "sleep"
    /\ pending_stall' = TRUE
    /\ HookReturn(0, FALSE)
    /\ UNCHANGED <<state, delta_ns, vtime_ns, shutdown, workerVars, main, setup, taVars>>

\* The grant was seen: read how far it goes.
HookLoad ==
    /\ vcpu = "load"
    /\ HookReturn(delta_ns, FALSE)
    /\ UNCHANGED <<state, delta_ns, vtime_ns, pending_stall, shutdown, workerVars, main, setup, taVars>>


-----------------------------------------------------------------------------
(* The worker thread: clock_worker_loop and wait_for_ready_and_execute.    *)

\* A request arrives: its delta is published before the grant.
WorkerRecv ==
    /\ worker = "recv" /\ ~shutdown
    /\ request # <<>>
    /\ consecutive_timeouts' = 0
    /\ w_delta' = request[1]
    /\ delta_ns' = request[1]
    /\ worker' = "ready"
    /\ UNCHANGED <<vcpuVars, w_vtime, state, vtime_ns, pending_stall, shutdown, w_error,
                   aborted, is_first_quantum, main, setup, taVars>>

\* (A plausible slip: the watchdog counts and never acts.)
WorkerMissForever ==
    /\ worker = "recv" /\ ~shutdown
    /\ request = <<>>
    /\ ~is_first_quantum
    /\ consecutive_timeouts' = consecutive_timeouts + 1
    /\ UNCHANGED <<vcpuVars, w_vtime, state, delta_ns, vtime_ns, pending_stall, shutdown, worker,
                   w_delta, w_error, aborted, is_first_quantum, main, setup, taVars>>

\* No request for a whole timeout; after the first quantum the watchdog counts
\* and in the end calls abort_fn, which exits the process.
WorkerMiss ==
    /\ worker = "recv" /\ ~shutdown
    /\ request = <<>>
    /\ ~is_first_quantum
    /\ consecutive_timeouts' = consecutive_timeouts + 1
    /\ aborted' = (consecutive_timeouts + 1 > watchdog_threshold)
    /\ worker' = IF aborted' THEN "exited" ELSE "recv"
    /\ UNCHANGED <<vcpuVars, w_vtime, state, delta_ns, vtime_ns, pending_stall, shutdown,
                   w_delta, w_error, is_first_quantum, main, setup, taVars>>

WorkerExit ==
    /\ worker = "recv" /\ shutdown
    /\ worker' = "exited"
    /\ UNCHANGED <<vcpuVars, w_vtime, state, delta_ns, vtime_ns, pending_stall, shutdown,
                   w_delta, w_error, consecutive_timeouts, aborted,
                   is_first_quantum, main, setup, taVars>>

\* (A plausible slip: the waits of the worker have no timeout.)
WorkerGiveUpOnShutdown ==
    /\ worker \in {"ready", "execute"}
    /\ shutdown /\ w_error' = "OK"
    /\ worker' = "swap"
    /\ UNCHANGED <<vcpuVars, w_vtime, state, delta_ns, vtime_ns, pending_stall, shutdown,
                   w_delta, consecutive_timeouts, aborted, is_first_quantum,
                   main, setup, taVars>>

\* wait_for_ready_and_execute gives up, on shutdown or on a timeout.
WorkerGiveUp ==
    /\ worker \in {"ready", "execute"}
    /\ \/ shutdown /\ w_error' = "OK"
       \/ ~shutdown /\ state = "Executing" /\ w_error' = "STALL"
    /\ worker' = "swap"
    /\ UNCHANGED <<vcpuVars, w_vtime, state, delta_ns, vtime_ns, pending_stall, shutdown,
                   w_delta, consecutive_timeouts, aborted, is_first_quantum,
                   main, setup, taVars>>

\* (A plausible slip: the worker does not wait for the quantum to be over.)
WorkerGrantAndGo ==
    /\ worker = "ready" /\ ~shutdown
    /\ state = "Waiting"
    /\ state' = "Executing"
    /\ worker' = "swap"
    /\ w_error' = "OK" /\ is_first_quantum' = FALSE
    /\ UNCHANGED <<vcpuVars, w_vtime, delta_ns, vtime_ns, pending_stall, shutdown,
                   w_delta, consecutive_timeouts, aborted, main, setup, taVars>>

\* The vCPU waits: grant the quantum.  A grant of nothing is not waited for.
WorkerGrant ==
    /\ worker = "ready" /\ ~shutdown
    /\ state = "Waiting"
    /\ state' = "Executing"
    /\ IF w_delta > 0
       THEN worker' = "execute" /\ UNCHANGED <<w_error, is_first_quantum>>
       ELSE worker' = "swap" /\ w_error' = "OK" /\ is_first_quantum' = FALSE
    /\ UNCHANGED <<vcpuVars, w_vtime, delta_ns, vtime_ns, pending_stall, shutdown,
                   w_delta, consecutive_timeouts, aborted, main, setup, taVars>>

\* The vCPU waits again: the quantum is over.
WorkerFinish ==
    /\ worker = "execute" /\ ~shutdown
    /\ state = "Waiting"
    /\ worker' = "swap"
    /\ w_error' = "OK" /\ is_first_quantum' = FALSE
    /\ UNCHANGED <<vcpuVars, w_vtime, state, delta_ns, vtime_ns, pending_stall, shutdown,
                   w_delta, consecutive_timeouts, aborted, main, setup, taVars>>

\* (A plausible slip: the vCPU's stall is not looked at.)
WorkerSwapBlind ==
    /\ worker = "swap"
    /\ worker' = "reply"
    /\ UNCHANGED <<vcpuVars, w_vtime, state, delta_ns, vtime_ns, pending_stall, shutdown, w_error,
                   w_delta, consecutive_timeouts, aborted, is_first_quantum,
                   main, setup, taVars>>

\* pending_stall.swap(false): a stall the vCPU has met goes into this reply.
WorkerSwap ==
    /\ worker = "swap"
    /\ pending_stall' = FALSE
    /\ w_error' = IF pending_stall THEN "STALL" ELSE w_error
    /\ worker' = "reply"
    /\ UNCHANGED <<vcpuVars, w_vtime, state, delta_ns, vtime_ns, shutdown, w_delta,
                   consecutive_timeouts, aborted, is_first_quantum, main, setup, taVars>>

\* The reply carries the time the vCPU has stored last.  send_ready of a
\* coordinated node publishes the DONE of the quantum and waits for the
\* coordinator, without a timeout and without a look at shutdown.
WorkerPark ==
    /\ worker = "reply"
    /\ w_vtime' = vtime_ns
    /\ worker' = IF is_coordinated THEN "parked" ELSE "respond"
    /\ UNCHANGED <<vcpuVars, state, delta_ns, vtime_ns, pending_stall, shutdown,
                   w_delta, w_error, consecutive_timeouts, aborted,
                   is_first_quantum, main, setup, taVars>>

\* The coordinator's start token arrives.  A SafeSubscription hands it over from
\* a timer of the main loop, which stands still while the main thread is in
\* ClockManager::drop.
StartSignal ==
    /\ worker = "parked"
    /\ main = "alive"
    /\ worker' = "respond"
    /\ UNCHANGED <<vcpuVars, state, delta_ns, vtime_ns, pending_stall, shutdown,
                   w_delta, w_error, w_vtime, consecutive_timeouts, aborted,
                   is_first_quantum, main, setup, taVars>>

\* The reply goes to the time authority.
WorkerReply ==
    /\ worker = "respond"
    /\ reply' = [vtime |-> w_vtime, error |-> w_error]
    /\ request' = <<>>
    /\ worker' = "recv"
    /\ UNCHANGED <<vcpuVars, state, delta_ns, vtime_ns, pending_stall, shutdown,
                   w_delta, w_error, w_vtime, consecutive_timeouts, aborted,
                   is_first_quantum, main, setup, continued, requests, granted>>

Worker ==
    \/ WorkerRecv \/ WorkerMiss \/ WorkerExit \/ WorkerGiveUp \/ WorkerGrant
    \/ WorkerFinish \/ WorkerSwap \/ WorkerPark \/ WorkerReply

-----------------------------------------------------------------------------
(* The main thread and the time authority.                                 *)

\* clock_instance_finalize: the pointer is cleared, ClockManager::drop begins.
Finalize ==
    /\ main = "alive"
    /\ main' = "drain"
    /\ shutdown' = TRUE
    /\ UNCHANGED <<vcpuVars, state, delta_ns, vtime_ns, pending_stall, workerVars, setup, taVars>>

\* (A plausible slip: the active hooks are not waited for.)
DrainHastily ==
    /\ main = "drain"
    /\ main' = "join"
    /\ UNCHANGED <<vcpuVars, state, delta_ns, vtime_ns, pending_stall, shutdown,
                   workerVars, setup, taVars>>

\* ClockManager::drop waits until no hook is active ...
Drain ==
    /\ main = "drain"
    /\ vcpu = "guest"
    /\ main' = "join"
    /\ UNCHANGED <<vcpuVars, state, delta_ns, vtime_ns, pending_stall, shutdown,
                   workerVars, setup, taVars>>

\* ... then for the worker, and the backend is freed.
Join ==
    /\ main = "join"
    /\ worker = "exited"
    /\ main' = "freed"
    /\ UNCHANGED <<vcpuVars, state, delta_ns, vtime_ns, pending_stall, shutdown,
                   workerVars, setup, taVars>>

\* The time authority asks for the next quantum when the last one went well;
\* it raises an error on a stall.
Request ==
    /\ request = <<>> /\ reply.error = "OK"
    /\ requests < MaxRequests
    /\ \E d \in IF requests = 0 THEN FirstDeltas ELSE Deltas :
          request' = <<d>> /\ granted' = granted + d
    /\ FrozenBoot /\ requests > 0 => continued
    /\ requests' = requests + 1
    /\ UNCHANGED <<vcpuVars, state, delta_ns, vtime_ns, pending_stall, shutdown,
                   workerVars, main, setup, continued, reply>>

\* The harness issues `cont'.
Continue ==
    /\ ~continued
    /\ FrozenBoot => requests > 0 /\ request = <<>>
    /\ continued' = TRUE
    /\ UNCHANGED <<vcpuVars, state, delta_ns, vtime_ns, pending_stall, shutdown,
                   workerVars, main, setup, request, reply, requests, granted>>

KNext ==
    \/ RunBlock \/ Flow \/ HookEnter \/ HookBegin \/ HookFlip \/ HookWait \/ HookWake
    \/ HookStall \/ HookLoad
    \/ WorkerRecv \/ WorkerMiss \/ WorkerExit \/ WorkerGiveUp \/ WorkerGrant
    \/ WorkerFinish \/ WorkerSwap \/ WorkerPark \/ StartSignal \/ WorkerReply
    \/ Finalize \/ Drain \/ Join
    \/ Request \/ Continue

\* The worker and the main thread are scheduled, and so is the vCPU thread once
\* it is inside the hook; whether the guest runs is not assumed, it may be
\* stopped or never continued.  The worker's waits end with their timeout, but
\* for the start token: nothing is assumed about the other nodes, which have to
\* finish the quantum before the coordinator sends it.
KFairness ==
    /\ WF_kvars(HookBegin \/ HookFlip \/ HookWait \/ HookWake \/ HookStall \/ HookLoad)
    /\ WF_kvars(Worker)
    /\ WF_kvars(Drain \/ Join)

KSpec == KInit /\ [][KNext]_kvars /\ KFairness

-----------------------------------------------------------------------------
\* With icount the node pauses at every quantum boundary until it is granted
\* more: its virtual time never exceeds what the time authority has asked for.
NeverAhead == icount => now <= granted

\* An OK reply means that the quantum was executed to its end: the time it
\* carries is not less than all that was asked for, and with icount exactly
\* that.  A stall of either thread, at whatever point of the handshake, turns
\* the reply into a STALL.
OkMeansExecuted ==
    request = <<>> /\ reply.error = "OK" /\ ~shutdown =>
        /\ reply.vtime >= granted
        /\ icount => reply.vtime = granted

\* Once the backend is freed neither thread is inside it.
NoUseAfterFree == main = "freed" => vcpu = "guest" /\ worker = "exited"

\* A coordinated worker waits for its start token.
AwaitsStart == worker = "parked"

\* A request is answered, with OK or STALL, unless the device goes away: whatever
\* the vCPU does, the one place where it can stay is the wait for the start
\* token, which depends on the other nodes.
EveryRequestAnswered ==
    (request # <<>>) ~> (request = <<>> \/ shutdown \/ aborted \/ AwaitsStart)

\* Finalizing the device terminates, wherever the vCPU and the worker are, with
\* one exception: a coordinated worker that has a reply to send waits for a
\* token which can no longer come, and the join waits for the worker.
DropTerminates == shutdown ~> (main = "freed" \/ AwaitsStart)
=============================================================================
