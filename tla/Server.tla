------------------------------- MODULE Server -------------------------------
(***************************************************************************)
(* server::run: the reader thread takes one line of stdin after another,   *)
(* answers what it cannot hand on, spawns the rest on the dispatcher, and  *)
(* drops the dispatcher at end of input.  The reader is the only submitter *)
(* of the Dispatcher it is composed with; requests are named by their line.*)
(***************************************************************************)
EXTENDS Dispatcher

CONSTANTS Reader,   \* the thread of server::run
          NumLines  \* bound: lines on stdin

ASSUME ReaderAssumption ==
    Submitters = {Reader} /\ NumLines \in Nat \ {0} /\ Requests = 1 .. NumLines

VARIABLES
    input,    \* input[n]: what line n holds
    lastEnd,  \* whether the last line ends in a newline or at end of file
    pos,      \* the line read_request_line reads next
    rdr,      \* the reader: reading, inside spawn, or out of the loop
    reply     \* reply[n]: the error the reader itself answered line n with

serverVars == <<input, lastEnd, pos, rdr, reply>>
allVars == <<vars, serverVars>>

\* A request, bytes that are not JSON, nothing, more than MAX_LINE_BYTES, and
\* bytes that are not UTF-8.
Kinds == {"request", "malformed", "empty", "oversize", "unreadable"}

ServerInit ==
    /\ Init
    /\ input \in [Requests -> Kinds]
    /\ lastEnd \in {"newline", "eof"}
    /\ lastEnd = "eof" => input[NumLines] # "empty"
    /\ pos = 1
    /\ rdr = "read"
    /\ reply = [n \in Requests |-> "none"]

Unterminated(n) == n = NumLines /\ lastEnd = "eof"

\* Mutant: an oversize line is skipped instead of rejected.
LineReadSkipsOversize(n) ==
    IF n > NumLines \/ input[n] = "unreadable" THEN "none"
    ELSE IF Unterminated(n) \/ input[n] = "oversize" THEN "empty"
    ELSE input[n]

\* read_request_line (None is "none"): a read error counts as end of input, the cap is tested
\* before the terminator, and an unterminated line is cleared by the iteration
\* that then sees end of file.
LineRead(n) ==
    IF n > NumLines \/ input[n] = "unreadable" THEN "none"
    ELSE IF Unterminated(n) /\ input[n] # "oversize" THEN "empty"
    ELSE input[n]

Reading(kinds) ==
    /\ rdr = "read"
    /\ LineRead(pos) \in kinds
    /\ pos' = pos + 1

\* if line.is_empty() { continue; }
SkipEmpty ==
    /\ Reading({"empty"})
    /\ UNCHANGED <<vars, input, lastEnd, rdr, reply>>

\* -32600 and -32700
Reject ==
    /\ Reading({"oversize", "malformed"})
    /\ reply' = [reply EXCEPT ![pos] = LineRead(pos)]
    /\ UNCHANGED <<vars, input, lastEnd, rdr>>

\* A parsed request enters dispatcher.spawn.
BeginSpawn ==
    /\ Reading({"request"})
    /\ SelectWorker(Reader, pos)
    /\ rdr' = "spawn"
    /\ UNCHANGED <<input, lastEnd, reply>>

\* Mutant: the error branch is taken whenever spawn returns.
SpawnStepReplies ==
    /\ rdr = "spawn"
    /\ Spawn(Reader)
    /\ rdr' = IF spc'[Reader] = "idle" THEN "read" ELSE "spawn"
    /\ reply' = IF spc'[Reader] = "idle"
                THEN [reply EXCEPT ![req[Reader]] = "queueFull"]
                ELSE reply
    /\ UNCHANGED <<input, lastEnd, pos>>

\* spawn runs; whatever error it returns is answered -32603 "queue full".
SpawnStep ==
    /\ rdr = "spawn"
    /\ Spawn(Reader)
    /\ rdr' = IF spc'[Reader] = "idle" THEN "read" ELSE "spawn"
    /\ reply' = IF status'[req[Reader]] \in Refused
                THEN [reply EXCEPT ![req[Reader]] = "queueFull"]
                ELSE reply
    /\ UNCHANGED <<input, lastEnd, pos>>

\* Mutant: a read error is retried forever.
EndOfInputRetries ==
    /\ rdr = "read"
    /\ pos > NumLines
    /\ rdr' = "eof"
    /\ UNCHANGED <<vars, input, lastEnd, pos, reply>>

EndOfInput ==
    /\ rdr = "read"
    /\ LineRead(pos) = "none"
    /\ rdr' = "eof"
    /\ UNCHANGED <<vars, input, lastEnd, pos, reply>>

\* drop(dispatcher)
DropDispatcher ==
    /\ rdr = "eof"
    /\ mode = "none"
    /\ BeginDrop
    /\ UNCHANGED serverVars

ReaderStep == SkipEmpty \/ Reject \/ BeginSpawn \/ SpawnStep \/ EndOfInput \/ DropDispatcher

WorkerStep(i) == Loop(i) /\ UNCHANGED serverVars

HandlerReturns(i) == Return(i) /\ UNCHANGED serverVars

StopStep == Stopping /\ UNCHANGED serverVars

DetachStep == Detach /\ UNCHANGED serverVars

ServerNext ==
    \/ ReaderStep
    \/ \E i \in Idx : WorkerStep(i) \/ HandlerReturns(i)
    \/ StopStep \/ DetachStep

ServerSpec ==
    /\ ServerInit
    /\ [][ServerNext]_allVars
    /\ WF_allVars(ReaderStep)
    /\ \A i \in Idx : WF_allVars(WorkerStep(i))
    /\ \A i \in Healthy : WF_allVars(HandlerReturns(i))
    /\ WF_allVars(StopStep)

-----------------------------------------------------------------------------
(* Properties *)

\* A line is answered by the reader or by its handler, never by both: an error
\* reply excludes that the handler is queued, runs or ran.
AnsweredOnce ==
    \A n \in Requests : reply[n] # "none" => status[n] \in {"new"} \union Refused

\* No complete line is lost: once the reader is past it (and out of spawn), it
\* was handed to a worker or answered with the error it deserves.
CompleteLinesHandled ==
    \A n \in 1 .. pos - 1 :
        rdr # "spawn" /\ ~Unterminated(n) =>
            CASE input[n] = "request" -> /\ status[n] \notin {"new", "spawning"}
                                         /\ status[n] \in Refused <=> reply[n] = "queueFull"
              [] input[n] \in {"oversize", "malformed"} -> reply[n] = input[n]
              [] OTHER -> TRUE

\* The server ends once stdin does and handlers return.
ServerEnds == <>(cpc = "gone")

\* "Partial line at EOF - treat the partial data as the final request, if any."
PartialLineHandled ==
    rdr = "eof" /\ pos > NumLines /\ input[NumLines] = "request"
        => status[NumLines] # "new"

\* "Wait for all queued work to complete before exiting."
QueuedWorkCompletes ==
    cpc = "gone" => \A n \in Requests : status[n] \notin {"queued", "dropped"}
=============================================================================
