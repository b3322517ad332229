---------------------------- MODULE ServerProofs ----------------------------
(***************************************************************************)
(* Proofs about Server for every input, every number of lines and workers  *)
(* and every channel depth.  The invariant adds to that of the dispatcher  *)
(* where the reader stands, and what became of every line behind it.       *)
(***************************************************************************)
EXTENDS Server, DispatcherProofs

Errors == {"queueFull", "oversize", "malformed"}

ReaderType ==
    /\ input \in [Requests -> Kinds] /\ lastEnd \in {"newline", "eof"}
    /\ pos \in 1 .. NumLines + 1
    /\ rdr \in {"read", "spawn", "eof"}
    /\ reply \in [Requests -> Errors \union {"none"}]

\* The reader is inside spawn with the line it read last.
ReaderInv ==
    /\ rdr = "spawn" <=> spc[Reader] # "idle"
    /\ rdr = "spawn" => pos # 1 /\ req[Reader] = pos - 1 /\ input[pos - 1] = "request"

\* Lines ahead of the reader are untouched.
UnreadInv == \A n \in Requests : n >= pos => status[n] = "new" /\ reply[n] = "none"

InSpawn(n) == rdr = "spawn" /\ n = pos - 1

\* A line behind the reader, unless spawn still has it, was accepted or was
\* answered with the error it deserves; not both.
ReadInv ==
    \A n \in Requests : n < pos =>
        /\ reply[n] # "none" => status[n] \in {"new"} \union Refused
        /\ InSpawn(n) => reply[n] = "none"
        /\ input[n] = "request" /\ ~Unterminated(n) /\ ~InSpawn(n) =>
              /\ status[n] \notin {"new", "spawning"}
              /\ status[n] \in Refused <=> reply[n] = "queueFull"
        /\ input[n] \in {"oversize", "malformed"} /\ ~Unterminated(n) => reply[n] = input[n]

SInv == DInv /\ ReaderType /\ ReaderInv /\ UnreadInv /\ ReadInv

USE SizesAssumption, NamesAssumption, ReaderAssumption
USE DEF Spawning, Statuses, Outcomes, Refused, submit, workers, control, Errors, Kinds, serverVars

\* server::run starts with everything unread.
LEMMA InitSInv == ServerInit => SInv
<1> SUFFICES ASSUME ServerInit PROVE SInv
  OBVIOUS
<1>1. DInv
  BY InitDInv DEF ServerInit
<1>2. ReaderType
  BY DEF ServerInit, ReaderType
<1>3. ReaderInv /\ UnreadInv /\ ReadInv
  BY DEF ServerInit, Init, ReaderInv, UnreadInv, ReadInv, InSpawn
<1> QED BY <1>1, <1>2, <1>3 DEF SInv

\* The workers and the closing of the dispatcher only move accepted requests on.
Onward(r) ==
    \/ status'[r] = status[r]
    \/ /\ status[r] \in {"queued", "running"}
       /\ status'[r] \in {"running", "dropped"} \union Outcomes

\* A worker that receives, exits or finishes.
LEMMA WorkersMoveOn ==
    ASSUME DInv, NEW i \in Idx, Loop(i) \/ Return(i)
    PROVE  UNCHANGED submit /\ \A r \in Requests : Onward(r)
<1>1. CASE Receive(i)
  <2> DEFINE h == Head(queue[i])
  <2>1. /\ queue[i] \in Seq(Requests) /\ 1 \in 1 .. Len(queue[i])
        /\ h \in Requests /\ h = queue[i][1]
    BY <1>1 DEF DInv, Receive, TypeOK
  <2>2. status[h] = "queued"
    BY <2>1 DEF DInv, OnePlace, Waits
  <2>3. status' = [status EXCEPT ![h] = "running"] /\ UNCHANGED submit
    BY <1>1 DEF Receive
  <2> HIDE DEF h
  <2> QED BY <2>1, <2>2, <2>3 DEF DInv, TypeOK, Onward
<1>2. CASE Exit(i) /\ UNCHANGED submit
  <2>1. \A r \in Requests : (\E k \in 1 .. Len(queue[i]) : queue[i][k] = r) => status[r] = "queued"
    BY DEF DInv, OnePlace, Waits
  <2> QED BY <1>2, <2>1 DEF Exit, Onward
<1>3. CASE UNCHANGED <<submit, status>>
  BY <1>3 DEF Onward
<1>4. CASE Return(i)
  <2>1. running[i] \in Requests /\ status[running[i]] = "running"
    BY <1>4 DEF Return, Finish, DInv, TypeOK, RunInv, OnePlace
  <2>2. PICK o \in Outcomes : status' = [status EXCEPT ![running[i]] = o] /\ UNCHANGED submit
    BY <1>4 DEF Return, Finish
  <2> QED BY <2>1, <2>2 DEF DInv, TypeOK, Onward
<1> QED BY <1>1, <1>2, <1>3, <1>4 DEF Loop, CheckFlag, ReceiveTimeout, ReceiveDisconnected

\* What the reader knows survives every such step.
LEMMA ReaderKept ==
    ASSUME SInv, UNCHANGED serverVars, UNCHANGED submit, \A r \in Requests : Onward(r)
    PROVE  ReaderType' /\ ReaderInv' /\ UnreadInv' /\ ReadInv'
<1>1. ReaderType' /\ ReaderInv'
  BY DEF SInv, ReaderType, ReaderInv
<1>2. UnreadInv'
  BY DEF SInv, UnreadInv, Onward
<1>3. ReadInv'
  BY DEF SInv, ReadInv, Onward, InSpawn, Unterminated
<1> QED BY <1>1, <1>2, <1>3

\* What read_request_line returns, in terms of the line.
LEMMA LineReadIs ==
    ASSUME SInv, rdr = "read"
    PROVE  /\ LineRead(pos) # "none" => pos \in Requests
           /\ LineRead(pos) = "request" => input[pos] = "request" /\ ~Unterminated(pos)
           /\ LineRead(pos) \in {"oversize", "malformed"} => LineRead(pos) = input[pos]
           /\ LineRead(pos) = "empty" => Unterminated(pos) \/ input[pos] = "empty"
BY DEF SInv, ReaderType, LineRead

\* The reader answers or skips a line itself.
LEMMA OwnLineKept ==
    ASSUME SInv, SkipEmpty \/ Reject
    PROVE  SInv'
<1>1. /\ rdr = "read" /\ pos' = pos + 1 /\ pos \in Requests /\ rdr' = rdr
      /\ UNCHANGED <<vars, input, lastEnd>>
  BY LineReadIs DEF SkipEmpty, Reject, Reading
<1>2. DInv'
  BY <1>1, NextPreserves DEF SInv, vars
<1>3. status[pos] = "new" /\ reply[pos] = "none" /\ pos \in Nat /\ spc' = spc /\ status' = status
  BY <1>1 DEF SInv, UnreadInv, ReaderType, vars
<1>4. CASE SkipEmpty
  <2>1. Unterminated(pos) \/ input[pos] = "empty"
    BY <1>1, <1>4, LineReadIs DEF SkipEmpty, Reading
  <2>2. reply' = reply
    BY <1>4 DEF SkipEmpty
  <2>3. ReaderType' /\ ReaderInv' /\ UnreadInv'
    BY <1>1, <1>3, <2>2 DEF SInv, ReaderType, ReaderInv, UnreadInv
  <2>4. ReadInv'
    BY <1>1, <1>3, <2>1, <2>2 DEF SInv, ReaderType, ReadInv, InSpawn, Unterminated
  <2> QED BY <1>2, <2>3, <2>4 DEF SInv
<1>5. CASE Reject
  <2>1. input[pos] \in {"oversize", "malformed"} /\ reply' = [reply EXCEPT ![pos] = input[pos]]
    BY <1>1, <1>5, LineReadIs DEF Reject, Reading
  <2>2. ReaderType' /\ ReaderInv' /\ UnreadInv'
    BY <1>1, <1>3, <2>1 DEF SInv, ReaderType, ReaderInv, UnreadInv
  <2>3. ReadInv'
    BY <1>1, <1>3, <2>1 DEF SInv, ReaderType, ReadInv, InSpawn, Unterminated
  <2> QED BY <1>2, <2>2, <2>3 DEF SInv
<1> QED BY <1>4, <1>5

\* The reader enters spawn.
LEMMA BeginSpawnKept ==
    ASSUME SInv, BeginSpawn
    PROVE  SInv'
<1>1. /\ rdr = "read" /\ pos' = pos + 1 /\ pos \in Requests /\ rdr' = "spawn"
      /\ input[pos] = "request" /\ SelectWorker(Reader, pos)
      /\ UNCHANGED <<input, lastEnd, reply>>
  BY LineReadIs DEF BeginSpawn, Reading
<1>2. DInv'
  BY <1>1, SelectPreserves DEF SInv
<1>3. /\ spc' = [spc EXCEPT ![Reader] = "lock"] /\ req' = [req EXCEPT ![Reader] = pos]
      /\ status' = [status EXCEPT ![pos] = "spawning"]
  BY <1>1 DEF SelectWorker
<1>4. /\ spc \in [Submitters -> {"idle", "lock", "trace", "send"}]
      /\ req \in [Submitters -> Requests \union {None}]
      /\ status \in [Requests -> Statuses] /\ pos \in Nat /\ reply[pos] = "none"
  BY <1>1 DEF SInv, DInv, TypeOK, UnreadInv, ReaderType
<1>5. ReaderType' /\ ReaderInv'
  BY <1>1, <1>3, <1>4 DEF SInv, ReaderType, ReaderInv
<1>6. UnreadInv'
  BY <1>1, <1>3, <1>4 DEF SInv, UnreadInv
<1>7. ReadInv'
  BY <1>1, <1>3, <1>4 DEF SInv, ReaderType, ReadInv, InSpawn, Unterminated
<1> QED BY <1>2, <1>5, <1>6, <1>7 DEF SInv

\* spawn returns Ok or an error, and the error is answered.
LEMMA SpawnStepKept ==
    ASSUME SInv, SpawnStep
    PROVE  SInv'
<1> DEFINE n == pos - 1
<1>1. /\ rdr = "spawn" /\ Spawn(Reader) /\ req[Reader] = n /\ n \in Requests /\ n < pos
      /\ input[n] = "request" /\ pos \in Nat /\ UNCHANGED <<input, lastEnd, pos>>
      /\ rdr' = IF spc'[Reader] = "idle" THEN "read" ELSE "spawn"
      /\ reply' = IF status'[n] \in Refused THEN [reply EXCEPT ![n] = "queueFull"] ELSE reply
  <2>1. /\ rdr = "spawn" /\ Spawn(Reader) /\ UNCHANGED <<input, lastEnd, pos>>
        /\ rdr' = IF spc'[Reader] = "idle" THEN "read" ELSE "spawn"
        /\ reply' = IF status'[req[Reader]] \in Refused
                    THEN [reply EXCEPT ![req[Reader]] = "queueFull"] ELSE reply
    BY DEF SpawnStep
  <2>2. pos # 1 /\ req[Reader] = n /\ input[n] = "request" /\ pos \in 1 .. NumLines + 1
    BY <2>1 DEF SInv, ReaderType, ReaderInv
  <2>3. n \in Requests /\ n < pos /\ pos \in Nat
    BY <2>2
  <2> HIDE DEF n
  <2> QED BY <2>1, <2>2, <2>3
<1>2. DInv'
  BY <1>1, SpawnPreserves DEF SInv
<1>3. status[n] = "spawning" /\ reply[n] = "none" /\ status \in [Requests -> Statuses]
      /\ reply \in [Requests -> Errors \union {"none"}]
  <2>1. status \in [Requests -> Statuses] /\ reply \in [Requests -> Errors \union {"none"}]
    BY DEF SInv, DInv, TypeOK, ReaderType
  <2>2. status[n] = "spawning"
    <3>1. Reader \in Submitters /\ spc[Reader] # "idle"
      BY <1>1 DEF SInv, ReaderInv
    <3> QED BY <1>1, <3>1 DEF SInv, DInv, SpawnInv
  <2>3. reply[n] = "none"
    BY <1>1 DEF SInv, ReadInv, InSpawn
  <2> QED BY <2>1, <2>2, <2>3
<1>4. /\ req' = req
      /\ \/ spc'[Reader] # "idle" /\ status' = status
         \/ \E v \in Refused \union {"queued"} :
               spc'[Reader] = "idle" /\ status' = [status EXCEPT ![n] = v]
  <2>1. spc \in [Submitters -> {"idle", "lock", "trace", "send"}] /\ Reader \in Submitters
    BY DEF SInv, DInv, TypeOK
  <2> HIDE DEF n
  <2> QED BY <1>1, <2>1 DEF Spawn, LockSender, RecordTrace, TrySend
<1> HIDE DEF n
<1>5. ReaderType'
  BY <1>1, <1>3 DEF SInv, ReaderType
<1>6. ReaderInv'
  BY <1>1, <1>4 DEF SInv, ReaderInv, n
<1>7. \A m \in Requests : m # n => status'[m] = status[m] /\ reply'[m] = reply[m]
  BY <1>1, <1>3, <1>4
<1>8. UnreadInv'
  BY <1>1, <1>7 DEF SInv, UnreadInv
<1>9. ReadInv'
  <2>1. ASSUME NEW m \in Requests, m < pos, m # n
        PROVE  ~InSpawn(m) /\ ~InSpawn(m)' /\ (Unterminated(m)' = Unterminated(m))
    BY <1>1, <2>1 DEF InSpawn, n, Unterminated
  <2>2. CASE spc'[Reader] # "idle" /\ status' = status
    BY <1>1, <1>3, <1>7, <2>1, <2>2 DEF SInv, ReadInv, InSpawn, n
  <2>3. ASSUME NEW v \in Refused \union {"queued"}, spc'[Reader] = "idle",
               status' = [status EXCEPT ![n] = v]
        PROVE  ReadInv'
    BY <1>1, <1>3, <1>7, <2>1, <2>3 DEF SInv, ReadInv, InSpawn, n
  <2> QED BY <1>4, <2>2, <2>3
<1> QED BY <1>2, <1>5, <1>6, <1>8, <1>9 DEF SInv

\* Every step of the reader, of the workers and of the drop.
LEMMA NextSInv == ASSUME SInv, [ServerNext]_allVars PROVE SInv'
<1>1. CASE SkipEmpty \/ Reject
  BY <1>1, OwnLineKept
<1>2. CASE BeginSpawn
  BY <1>2, BeginSpawnKept
<1>3. CASE SpawnStep
  BY <1>3, SpawnStepKept
<1>4. CASE EndOfInput
  <2>1. DInv'
    BY <1>4, NextPreserves DEF EndOfInput, SInv
  <2>2. /\ rdr = "read" /\ rdr' = "eof" /\ UNCHANGED <<input, lastEnd, pos, reply>>
        /\ spc' = spc /\ status' = status
    BY <1>4 DEF EndOfInput, vars
  <2>3. ReaderType' /\ ReaderInv' /\ UnreadInv'
    BY <2>2 DEF SInv, ReaderType, ReaderInv, UnreadInv
  <2>4. ReadInv'
    BY <2>2 DEF SInv, ReadInv, InSpawn, Unterminated
  <2> QED BY <2>1, <2>3, <2>4 DEF SInv
<1>5. CASE DropDispatcher \/ StopStep \/ DetachStep
  <2>1. UNCHANGED <<serverVars, submit, status>> /\ (BeginDrop \/ Stopping \/ Detach)
    BY <1>5 DEF DropDispatcher, StopStep, DetachStep, BeginDrop, Stopping, CloseSender,
                SendersClosed, Join, ProcessExit, Detach
  <2>2. DInv'
    BY <2>1, ControlPreserves DEF SInv
  <2>3. \A r \in Requests : Onward(r)
    BY <2>1 DEF Onward
  <2> QED BY <2>1, <2>2, <2>3, ReaderKept DEF SInv
<1>6. ASSUME NEW i \in Idx, WorkerStep(i) \/ HandlerReturns(i) PROVE SInv'
  <2>1. UNCHANGED serverVars /\ (Loop(i) \/ Return(i))
    BY <1>6 DEF WorkerStep, HandlerReturns
  <2>2. DInv'
    BY <2>1, LoopPreserves, ReturnPreserves DEF SInv, Return
  <2>3. UNCHANGED submit /\ \A r \in Requests : Onward(r)
    BY <2>1, WorkersMoveOn DEF SInv
  <2> QED BY <2>1, <2>2, <2>3, ReaderKept DEF SInv
<1>7. CASE UNCHANGED allVars
  <2>1. UNCHANGED <<serverVars, vars>>
    BY <1>7 DEF allVars
  <2>2. DInv'
    BY <2>1, NextPreserves DEF SInv
  <2>3. UNCHANGED submit /\ \A r \in Requests : Onward(r)
    BY <2>1 DEF vars, Onward
  <2> QED BY <2>1, <2>2, <2>3, ReaderKept DEF SInv
<1> QED BY <1>1, <1>2, <1>3, <1>4, <1>5, <1>6, <1>7 DEF ServerNext, ReaderStep

\* The invariant of the composition holds in every reachable state; with it
\* the dispatcher's own, under its only submitter.
THEOREM ServerInvariance == ServerSpec => []SInv
BY InitSInv, NextSInv, PTL DEF ServerSpec

\* The reader and a handler never both answer a line: an error reply means that
\* the handler neither is queued, nor runs, nor ran (server::run).
THEOREM LinesAnsweredOnce == ServerSpec => []AnsweredOnce
<1>1. SInv => AnsweredOnce
  BY DEF SInv, ReaderType, UnreadInv, ReadInv, AnsweredOnce
<1> QED BY <1>1, ServerInvariance, PTL

\* Every complete line that the reader is past was handed to a worker or
\* answered with its error, whatever stdin holds (read_request_line, run).
THEOREM NoLineLost == ServerSpec => []CompleteLinesHandled
<1>1. SInv => CompleteLinesHandled
  <2> SUFFICES ASSUME SInv, NEW n \in 1 .. pos - 1, rdr # "spawn", ~Unterminated(n)
               PROVE  CASE input[n] = "request" ->
                             /\ status[n] \notin {"new", "spawning"}
                             /\ status[n] \in Refused <=> reply[n] = "queueFull"
                        [] input[n] \in {"oversize", "malformed"} -> reply[n] = input[n]
                        [] OTHER -> TRUE
    BY DEF CompleteLinesHandled
  <2>1. n \in Requests /\ n < pos /\ ~InSpawn(n)
    BY DEF SInv, ReaderType, InSpawn
  <2> QED BY <2>1 DEF SInv, ReadInv
<1> QED BY <1>1, ServerInvariance, PTL
=============================================================================
