------------------------------ MODULE Telemetry ------------------------------
(***************************************************************************)
(* The telemetry device, whose hook runs in the vCPU threads and hands     *)
(* events to a worker through a bounded channel, and the logger, which     *)
(* any thread feeds the same way.  Neither ever blocks its callers: what   *)
(* does not fit is dropped, and the logger counts it.                      *)
(***************************************************************************)
EXTENDS Integers, Sequences, FiniteSets, SequencesExt

CONSTANTS
    Cpus,                   \* vCPU threads; they trace, and they log
    TraceChan, LogChan,     \* capacities (10000 and 4096 in the code)
    MaxHalts, MaxLogs       \* bounds: calls of the hook; messages logged

VARIABLES
    telemetry,              \* rust_state: "null", "up", "freed"
    last_halted,            \* last_halted[c]
    hook,                   \* hook[c]: <<>>, <<"swap", h>> or <<"send", h>>
    trace_chan, tworker,    \* events and Stop; the worker runs
    traced, refused,        \* history: events published; vCPUs that lost an event
    halts,
    log_chan, dropped_logs, \* messages: 0, or n for the warning that n were dropped
    counting,               \* threads between the failed send and the count
    logger,                 \* <<>>, <<"got", m>>, <<"warn", m, n>>, <<"print", m>>
    printed, failures,      \* history: messages printed; sends that failed
    unsaid,                 \* history: sum of the warnings that were dropped themselves
    logs

tracevars == <<telemetry, last_halted, hook, trace_chan, tworker, traced, refused, halts>>
logvars == <<log_chan, dropped_logs, counting, logger, printed, failures, unsaid, logs>>
yvars == <<tracevars, logvars>>

Stop == [c |-> "none", h |-> FALSE] \* None, the last item of the channel

YInit ==
    /\ telemetry = "null" /\ last_halted = [c \in Cpus |-> FALSE] /\ hook = [c \in Cpus |-> <<>>]
    /\ trace_chan = <<>> /\ tworker = FALSE /\ traced = <<>> /\ refused = {} /\ halts = 0
    /\ log_chan = <<>> /\ dropped_logs = 0 /\ counting = {} /\ logger = <<>>
    /\ printed = <<>> /\ failures = 0 /\ unsaid = 0 /\ logs = 0

-----------------------------------------------------------------------------
\* Plausible slips, used to test the properties.

\* The state is compared before and stored after the event is sent.
SwapNever(c, h) == UNCHANGED last_halted

\* The count is read and not reset.
TakeDroppedKeeping == UNCHANGED dropped_logs

-----------------------------------------------------------------------------
\* telemetry_init, telemetry_realize, which needs a transport from the hub; the
\* GPIO lines are discovered and left alone.
Realize ==
    /\ telemetry = "null" /\ telemetry' = "up" /\ tworker' = TRUE
    /\ UNCHANGED <<last_halted, hook, trace_chan, traced, refused, halts, logvars>>

\* telemetry_unrealize: the backend is freed once the channel has room for the
\* stop; the hook and the pointer to the device stay, and what a hook does that
\* is still under way is not followed further.
Unrealize ==
    /\ telemetry = "up" /\ Len(trace_chan) < TraceChan
    /\ telemetry' = "freed" /\ trace_chan' = Append(trace_chan, Stop)
    /\ UNCHANGED <<last_halted, hook, tworker, traced, refused, halts, logvars>>

\* telemetry_cpu_halt_cb: a vCPU halts or wakes up; the hook is called for every
\* boundary, so with the same state again.
Halt(c, h) ==
    /\ telemetry = "up" /\ hook[c] = <<>> /\ halts < MaxHalts
    /\ hook' = [hook EXCEPT ![c] = <<"swap", h>>] /\ halts' = halts + 1
    /\ UNCHANGED <<telemetry, last_halted, trace_chan, tworker, traced, refused, logvars>>

\* telemetry_trace_cpu_internal.
Swap(c, h) == last_halted' = [last_halted EXCEPT ![c] = h]
TraceSwap(c) ==
    /\ telemetry = "up" /\ hook[c] # <<>> /\ hook[c][1] = "swap"
    /\ LET h == hook[c][2]
       IN  /\ Swap(c, h)
           /\ hook' = [hook EXCEPT ![c] = IF last_halted[c] = h THEN <<>> ELSE <<"send", h>>]
    /\ UNCHANGED <<telemetry, trace_chan, tworker, traced, refused, halts, logvars>>
TraceSend(c) ==
    /\ telemetry = "up" /\ hook[c] # <<>> /\ hook[c][1] = "send"
    /\ IF Len(trace_chan) < TraceChan
       THEN trace_chan' = Append(trace_chan, [c |-> c, h |-> hook[c][2]]) /\ UNCHANGED refused
       ELSE refused' = refused \cup {c} /\ UNCHANGED trace_chan
    /\ hook' = [hook EXCEPT ![c] = <<>>]
    /\ UNCHANGED <<telemetry, last_halted, tworker, traced, halts, logvars>>

\* telemetry_worker.
TraceWorker ==
    /\ tworker /\ trace_chan # <<>>
    /\ trace_chan' = Tail(trace_chan)
    /\ IF Head(trace_chan) = Stop
       THEN tworker' = FALSE /\ UNCHANGED traced
       ELSE traced' = Append(traced, Head(trace_chan)) /\ UNCHANGED tworker
    /\ UNCHANGED <<telemetry, last_halted, hook, refused, halts, logvars>>

\* sim_log, from any thread.
Log(t) ==
    /\ t \notin counting /\ logs < MaxLogs
    /\ logs' = logs + 1
    /\ IF Len(log_chan) < LogChan
       THEN log_chan' = Append(log_chan, 0) /\ UNCHANGED <<counting, failures>>
       ELSE counting' = counting \cup {t} /\ failures' = failures + 1 /\ UNCHANGED log_chan
    /\ UNCHANGED <<tracevars, dropped_logs, logger, printed, unsaid>>
CountDropped(t) ==
    /\ t \in counting
    /\ counting' = counting \ {t} /\ dropped_logs' = dropped_logs + 1
    /\ UNCHANGED <<tracevars, log_chan, logger, printed, failures, unsaid, logs>>

\* The thread of init_logger_thread: each message is taken, preceded by a look at
\* the count, whose warning goes through the same channel, and printed.
LoggerRecv ==
    /\ logger = <<>> /\ log_chan # <<>>
    /\ logger' = <<"got", Head(log_chan)>> /\ log_chan' = Tail(log_chan)
    /\ UNCHANGED <<tracevars, dropped_logs, counting, printed, failures, unsaid, logs>>
TakeDropped == dropped_logs' = 0
LoggerSwap ==
    /\ logger # <<>> /\ logger[1] = "got"
    /\ logger' = IF dropped_logs > 0 THEN <<"warn", logger[2], dropped_logs>> ELSE <<"print", logger[2]>>
    /\ TakeDropped
    /\ UNCHANGED <<tracevars, log_chan, counting, printed, failures, unsaid, logs>>
LoggerWarn ==
    /\ logger # <<>> /\ logger[1] = "warn"
    /\ IF Len(log_chan) < LogChan
       THEN log_chan' = Append(log_chan, logger[3]) /\ UNCHANGED <<counting, failures, unsaid>>
       ELSE /\ counting' = counting \cup {"logger"} /\ failures' = failures + 1
            /\ unsaid' = unsaid + logger[3] /\ UNCHANGED log_chan
    /\ logger' = <<"print", logger[2]>>
    /\ UNCHANGED <<tracevars, dropped_logs, printed, logs>>
LoggerPrint ==
    /\ logger # <<>> /\ logger[1] = "print" /\ "logger" \notin counting
    /\ printed' = Append(printed, logger[2]) /\ logger' = <<>>
    /\ UNCHANGED <<tracevars, log_chan, dropped_logs, counting, failures, unsaid, logs>>

TraceNext ==
    \/ Realize \/ Unrealize \/ TraceWorker
    \/ \E c \in Cpus : TraceSwap(c) \/ TraceSend(c) \/ \E h \in BOOLEAN : Halt(c, h)
LogNext ==
    \/ \E c \in Cpus : Log(c)
    \/ \E t \in Cpus \cup {"logger"} : CountDropped(t)
    \/ LoggerRecv \/ LoggerSwap \/ LoggerWarn \/ LoggerPrint

YSpec == YInit /\ [][TraceNext \/ LogNext]_yvars

-----------------------------------------------------------------------------
\* The trace of a vCPU alternates between halted and running, and its last entry
\* is the state of the vCPU, however often the hook repeats a state, as long as
\* no event of that vCPU was dropped.
TraceAlternates ==
    \A c \in Cpus \ refused :
        LET ofC(e) == e.c = c
            trace == SelectSeq(traced \o trace_chan, ofC)
        IN  /\ \A i \in DOMAIN trace : trace[i].h = (i % 2 = 1)
            /\ hook[c] = <<>> => last_halted[c] = (Len(trace) % 2 = 1)

\* Every message that did not fit is counted once: in the counter, by a thread
\* about to add to it, in a warning that waits or was printed, or in one that
\* was itself dropped, of which only the one message is left.
Reported(s) == FoldSeq(LAMBDA m, n : m + n, 0, s)
DropsAccounted ==
    failures = dropped_logs + Cardinality(counting) + unsaid + Reported(log_chan) + Reported(printed)
                 + (CASE logger = <<>> -> 0
                      [] logger # <<>> /\ logger[1] = "warn" -> logger[2] + logger[3]
                      [] OTHER -> logger[2])
=============================================================================
