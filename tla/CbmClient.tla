----------------------------- MODULE CbmClient ------------------------------
(***************************************************************************)
(* The JSON-RPC client of the codebase-memory-mcp subprocess.  A request   *)
(* is one line on the child's stdin; a reader thread forwards the child's  *)
(* stdout, line by line, into a channel, and the caller collects lines     *)
(* until they parse.  The id of a response is never compared with the id   *)
(* of the request.  A call has one retry, every attempt counts in the      *)
(* circuit breaker, a timeout kills the child and nothing starts it again. *)
(*                                                                         *)
(* The child (external) answers its requests in order, each with one JSON  *)
(* message of at most MaxLines lines, no proper part of which is JSON.     *)
(***************************************************************************)
EXTENDS Naturals, Sequences

CONSTANTS
    NoCall, Eof,
    MaxFailures,    \* max_consecutive_failures
    MaxLines,       \* bound: lines of a response
    MaxCalls        \* bound: calls of call_tool and call_tool_raw

VARIABLES
    child,      \* "alive", "killed" (its pipes are still open) or "gone"
    stdin,      \* the pipe: calls whose request the child has not read
    writing,    \* the response the child is writing
    channel,    \* stdout_rx: lines [of, first, last, huge, body], then Eof
    call,       \* the call the caller is in: [n, pc, raw, retried, buf]
    failures, unhealthy, opened,    \* consecutive_failures, status Degraded, degraded_since
    calls,      \* calls made
    outcome,    \* what the last call returned, and of which request it is
    late        \* history: an attempt gave up and a whole answer is still to come

clientVars == <<child, stdin, writing, channel, call, failures, unhealthy,
                opened, calls, outcome, late>>

NoOutcome == [call |-> 0, of |-> 0, body |-> "lost"]

\* try_launch
ClientInit ==
    /\ child = "alive" /\ stdin = <<>> /\ writing = NoCall /\ channel = <<>>
    /\ call = NoCall /\ failures = 0 /\ unhealthy = FALSE /\ opened = FALSE
    /\ calls = 0 /\ outcome = NoOutcome /\ late = FALSE

-----------------------------------------------------------------------------
(* The child and the reader thread *)

Bodies == {"result", "rpc", "internal", "tool"}
Messages == [of : Nat, body : Bodies, lines : Nat, heavy : SUBSET Nat, done : Nat]
Lines == [of : Nat, first : BOOLEAN, last : BOOLEAN, huge : BOOLEAN, body : Bodies]
CallStates == [n : Nat, pc : {"send", "receive", "kill"}, raw : BOOLEAN, retried : BOOLEAN,
               buf : Seq(Lines)]

\* The absent message, the absent call and the end of the channel are none of these.
ASSUME SentinelAssumption ==
    NoCall \notin Messages /\ NoCall \notin CallStates /\ Eof \notin Lines

pipeVars == <<child, stdin, writing, channel, late>>
callerVars == <<call, failures, unhealthy, opened, calls, outcome>>

\* A request is read and its answer chosen: a result, a JSON-RPC error, an
\* internal error or a result with isError; of some number of lines, any of
\* which may bring what was collected over MAX_RESPONSE_BYTES.
Receive ==
    /\ child = "alive" /\ writing = NoCall /\ stdin # <<>>
    /\ \E body \in Bodies, lines \in 1..MaxLines : \E heavy \in SUBSET (1..lines) :
          writing' = [of |-> Head(stdin), body |-> body, lines |-> lines,
                      heavy |-> heavy, done |-> 0]
    /\ stdin' = Tail(stdin)
    /\ UNCHANGED <<child, channel, late>> /\ UNCHANGED callerVars

\* The reader thread forwards a line.
Line ==
    /\ child = "alive" /\ writing # NoCall
    /\ LET i == writing.done + 1 IN
       /\ channel' = Append(channel, [of |-> writing.of, first |-> i = 1,
                                      last |-> i = writing.lines,
                                      huge |-> i \in writing.heavy, body |-> writing.body])
       /\ writing' = IF i = writing.lines THEN NoCall ELSE [writing EXCEPT !.done = i]
    /\ UNCHANGED <<child, stdin, late>> /\ UNCHANGED callerVars

\* The child crashes, or the kill takes effect: its pipes close and the
\* reader thread sends "CBM exited".
Exit ==
    /\ child # "gone"
    /\ child' = "gone" /\ stdin' = <<>> /\ writing' = NoCall
    /\ channel' = Append(channel, Eof)
    /\ UNCHANGED late /\ UNCHANGED callerVars

-----------------------------------------------------------------------------
(* The circuit breaker *)

\* record_success
RecordSuccess == failures' = 0 /\ opened' = FALSE /\ unhealthy' = FALSE

\* record_failure, after an attempt that left the status at s
RecordFailure(s) ==
    /\ failures' = failures + 1
    /\ unhealthy' = (s \/ failures + 1 >= MaxFailures)
    /\ opened' = (opened \/ failures + 1 >= MaxFailures)

-----------------------------------------------------------------------------
(* call_tool and call_tool_raw *)

\* circuit_allows: the cooldown of an open circuit may have elapsed.
Call(raw) ==
    /\ call = NoCall /\ calls < MaxCalls
    /\ calls' = calls + 1
    /\ \/ /\ failures < MaxFailures
          /\ UNCHANGED <<failures, unhealthy, opened>>
       \/ /\ failures >= MaxFailures /\ opened
          /\ failures' = 0 /\ opened' = FALSE /\ unhealthy' = FALSE
    /\ call' = [n |-> calls + 1, pc |-> "send", raw |-> raw, retried |-> FALSE, buf |-> <<>>]
    /\ UNCHANGED outcome /\ UNCHANGED pipeVars

Refuse ==
    /\ call = NoCall /\ calls < MaxCalls /\ failures >= MaxFailures
    /\ calls' = calls + 1
    /\ outcome' = [call |-> calls + 1, of |-> 0, body |-> "open"]
    /\ UNCHANGED <<call, failures, unhealthy, opened>> /\ UNCHANGED pipeVars

IsRetryable(error) == error \in {"lost", "timeout", "internal"}

\* An attempt ends: the call returns, or is made once more after the backoff.
\* s says whether the transport set the status to Degraded.
Attempted(of, body, s) ==
    LET ok    == body = "result" \/ (call.raw /\ body \in {"rpc", "internal", "tool"})
        again == ~ok /\ IsRetryable(body) /\ ~call.retried
    IN  /\ IF ok THEN RecordSuccess ELSE RecordFailure(unhealthy \/ s)
        /\ call' = IF again THEN [call EXCEPT !.pc = "send", !.retried = TRUE, !.buf = <<>>]
                   ELSE NoCall
        /\ outcome' = IF again THEN outcome
                      ELSE [call |-> call.n, of |-> of, body |-> body]
        /\ UNCHANGED calls

\* The request line is written and flushed.
Send ==
    /\ call # NoCall /\ call.pc = "send" /\ child # "gone"
    /\ stdin' = Append(stdin, call.n)
    /\ call' = [call EXCEPT !.pc = "receive"]
    /\ UNCHANGED <<child, writing, channel, late, failures, unhealthy, opened, calls, outcome>>

SendFails ==
    /\ call # NoCall /\ call.pc = "send" /\ child = "gone"
    /\ Attempted(0, "lost", TRUE)
    /\ UNCHANGED pipeVars

Outstanding == channel # <<>> \/ writing # NoCall \/ stdin # <<>>

\* The collected lines are one JSON message.
Parses(buf) ==
    /\ buf[1].first /\ buf[Len(buf)].last
    /\ \A i \in 1..Len(buf) : buf[i].first => i = 1

\* Something arrives before the deadline.  Eof stays: the channel is
\* disconnected after it.  An answer over the limit is given up where it stands:
\* at its last line, a later answer is next.
Collect ==
    /\ call # NoCall /\ call.pc = "receive" /\ channel # <<>> /\ Head(channel) # Eof
    /\ channel' = Tail(channel)
    /\ LET line == Head(channel)
           buf  == Append(call.buf, line)
       IN  IF line.huge THEN Attempted(0, "lost", TRUE)
           ELSE IF Parses(buf) THEN Attempted(line.of, line.body, FALSE)
           ELSE /\ call' = [call EXCEPT !.buf = buf]
                /\ UNCHANGED <<failures, unhealthy, opened, calls, outcome>>
    /\ UNCHANGED <<child, stdin, writing>>
    /\ late' = (late \/ (Head(channel).huge /\ Head(channel).last /\ Outstanding'))

Disconnected ==
    /\ call # NoCall /\ call.pc = "receive" /\ channel # <<>> /\ Head(channel) = Eof
    /\ Attempted(0, "lost", TRUE)
    /\ UNCHANGED pipeVars

\* Mutant: the child is left running.
KilledChildSpared == child

KilledChild == IF child = "gone" THEN child ELSE "killed"

\* The deadline passes while nothing is in the channel, or right after a line
\* that completed nothing.
Deadline ==
    /\ call # NoCall /\ call.pc = "receive" /\ (channel = <<>> \/ call.buf # <<>>)
    /\ call' = [call EXCEPT !.pc = "kill"]
    /\ UNCHANGED <<failures, unhealthy, opened, calls, outcome>> /\ UNCHANGED pipeVars

\* Then the child is killed.
Kill ==
    /\ call # NoCall /\ call.pc = "kill"
    /\ child' = KilledChild
    /\ Attempted(0, "timeout", TRUE)
    /\ late' = (late \/ channel # <<>>)
    /\ UNCHANGED <<stdin, writing, channel>>

ClientNext ==
    \/ Receive \/ Line \/ Exit
    \/ (\E raw \in BOOLEAN : Call(raw)) \/ Refuse
    \/ Send \/ SendFails \/ Collect \/ Disconnected
    \/ Deadline \/ Kill

ClientSpec == ClientInit /\ [][ClientNext]_clientVars

-----------------------------------------------------------------------------
(* Properties *)

\* Whatever answer a call returns is the child's answer to a request of that
\* call, though ids are never compared, attempts are retried and late or
\* oversized answers are abandoned; but for an answer that reaches the channel
\* between the deadline and the kill, and for one that is due when an answer of
\* twice the limit is given up again at its last line (send_and_receive_raw).
AnswersMatch == ~late /\ outcome.body \in Bodies => outcome.of = outcome.call
=============================================================================
