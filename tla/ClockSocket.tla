----------------------------- MODULE ClockSocket -----------------------------
(***************************************************************************)
(* The Unix-socket transport of the clock (UnixSocketClockTransport in     *)
(* virtmcu-api): the time authority listens, the clock's worker connects,  *)
(* reads requests of a fixed size with a timeout and writes the answers.   *)
(* A socket is a stream: a request may arrive in pieces.                   *)
(***************************************************************************)
EXTENDS Integers, Sequences, SequencesExt

CONSTANTS
    Pieces,     \* a request arrives in pieces 1 .. Pieces
    MaxAdvances \* bound: requests of the time authority

VARIABLES
    stream,     \* Option<UnixStream> of the worker: "none", "up"
    authority,  \* "listening", "gone"
    inflight,   \* pieces on their way to the worker: <<request, piece>>
    unsent,     \* pieces of the last request that the authority has not written
    buf,        \* what read_exact has read so far
    reading,    \* recv_advance is in read_exact
    asked, got, \* history: requests made; requests returned by recv_advance
    replies,    \* answers written
    torn        \* history: a timeout struck within a request

wvars == <<stream, authority, inflight, unsent, buf, reading, asked, got, replies, torn>>

WInit ==
    /\ stream = "none" /\ authority = "listening" /\ inflight = <<>> /\ unsent = <<>>
    /\ buf = <<>> /\ reading = FALSE /\ asked = 0 /\ got = <<>> /\ replies = 0 /\ torn = FALSE

-----------------------------------------------------------------------------
\* A plausible slip, used to test the properties: what was read before a timeout
\* is taken for a request.
WholeEnough(b) == b # <<>>

-----------------------------------------------------------------------------
\* The time authority: asks when the last answer has come, in pieces, or goes.
Ask ==
    /\ authority = "listening" /\ stream = "up" /\ unsent = <<>> /\ asked = replies /\ asked < MaxAdvances
    /\ asked' = asked + 1 /\ unsent' = [p \in 1 .. Pieces |-> <<asked + 1, p>>]
    /\ UNCHANGED <<stream, authority, inflight, buf, reading, got, replies, torn>>
WritePiece ==
    /\ authority = "listening" /\ unsent # <<>>
    /\ inflight' = Append(inflight, Head(unsent)) /\ unsent' = Tail(unsent)
    /\ UNCHANGED <<stream, authority, buf, reading, asked, got, replies, torn>>
AuthorityGone ==
    /\ authority = "listening" /\ authority' = "gone" /\ unsent' = <<>>
    /\ UNCHANGED <<stream, inflight, buf, reading, asked, got, replies, torn>>

\* recv_advance: connects when there is no stream; once there is one it is kept.
RecvBegin ==
    /\ ~reading
    /\ IF stream = "up" \/ authority = "listening"
       THEN stream' = "up" /\ reading' = TRUE
       ELSE UNCHANGED <<stream, reading>> \* connect fails
    /\ buf' = <<>>
    /\ UNCHANGED <<authority, inflight, unsent, asked, got, replies, torn>>

\* read_exact: a piece; the whole request; a timeout or the end of the stream,
\* after which what was read is gone.
ReadPiece ==
    /\ reading /\ inflight # <<>> /\ Len(buf) < Pieces
    /\ buf' = Append(buf, Head(inflight)) /\ inflight' = Tail(inflight)
    /\ UNCHANGED <<stream, authority, unsent, reading, asked, got, replies, torn>>
Whole(b) == Len(b) = Pieces
RecvReturns ==
    /\ reading /\ Whole(buf)
    /\ got' = Append(got, buf) /\ reading' = FALSE /\ buf' = <<>>
    /\ UNCHANGED <<stream, authority, inflight, unsent, asked, replies, torn>>
RecvFails ==
    /\ reading /\ inflight = <<>> /\ ~Whole(buf)
    /\ torn' = (torn \/ buf # <<>>) /\ reading' = FALSE /\ buf' = <<>>
    /\ UNCHANGED <<stream, authority, inflight, unsent, asked, got, replies>>

\* UnixSocketResponder::send_ready, before the next recv_advance.
SendReady ==
    /\ ~reading /\ replies < Len(got)
    /\ replies' = replies + 1
    /\ UNCHANGED <<stream, authority, inflight, unsent, buf, reading, asked, got, torn>>

WNext ==
    Ask \/ WritePiece \/ AuthorityGone \/ RecvBegin \/ ReadPiece \/ RecvReturns \/ RecvFails \/ SendReady

WSpec == WInit /\ [][WNext]_wvars

-----------------------------------------------------------------------------
\* The requests that recv_advance returns are those of the time authority, whole,
\* each once and in order, however they were cut into pieces, as long as no
\* timeout struck within one; and no answer comes before its request.
RequestsWhole ==
    /\ ~torn => got = [i \in 1 .. Len(got) |-> [p \in 1 .. Pieces |-> <<i, p>>]]
    /\ replies <= asked
=============================================================================
