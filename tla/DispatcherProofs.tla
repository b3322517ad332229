-------------------------- MODULE DispatcherProofs --------------------------
(***************************************************************************)
(* Proofs about Dispatcher for every number of workers, submitters and     *)
(* requests, every channel depth and trace bound.                          *)
(***************************************************************************)
EXTENDS Dispatcher, FiniteSetTheorems, TLAPS

Spawning(s) == spc[s] # "idle"

\* A submitter inside spawn has a request of its own, placed on some worker,
\* and holds that worker's open sender from the trace to the send.
SpawnInv ==
    /\ \A s \in Submitters :
         /\ Spawning(s) => /\ req[s] \in Requests
                           /\ slot[req[s]] \in Idx
                           /\ status[req[s]] = "spawning"
         /\ spc[s] \in {"trace", "send"} => /\ txOwner[slot[req[s]]] = s
                                           /\ tx[slot[req[s]]] = "open"
    /\ \A s, t \in Submitters :
         Spawning(s) /\ Spawning(t) /\ req[s] = req[t] => s = t

\* A worker runs a request exactly while it is in its handler.
RunInv ==
    /\ \A i \in Idx : wpc[i] = "run" <=> running[i] # None
    /\ \A r \in Requests :
         status[r] = "running" => slot[r] \in Idx /\ running[slot[r]] = r

\* The join loop leaves only exited workers behind it.
JoinInv ==
    cpc \in {"joining", "detached", "gone"} =>
        \A i \in Idx : i < cidx => wpc[i] = "exited"

DInv == TypeOK /\ SpawnInv /\ RunInv /\ JoinInv /\ OnePlace /\ Bounded

-----------------------------------------------------------------------------
(* One lemma per thread; under each action one step per part of DInv *)

USE SizesAssumption, NamesAssumption
USE DEF Spawning, Statuses, Outcomes, Refused, submit, workers, control

LEMMA InitDInv == Init => DInv
BY DEF Init, DInv, TypeOK, SpawnInv, RunInv, JoinInv, OnePlace, Waits, Bounded, Idx

\* Submitters: the sent request is nowhere else, since it was still spawning.
LEMMA SpawnPreserves ==
    ASSUME DInv, NEW s \in Submitters, Spawn(s)
    PROVE  DInv'
<1>1. CASE LockSender(s)
  <2> DEFINE r == req[s]  i == slot[r]
  <2>a. r \in Requests /\ i \in Idx /\ status[r] = "spawning"
    BY <1>1 DEF DInv, LockSender, SpawnInv
  <2>b. /\ spc[s] = "lock" /\ txOwner[i] = None
        /\ \/ /\ tx[i] = "open"
              /\ spc' = [spc EXCEPT ![s] = "trace"]
              /\ txOwner' = [txOwner EXCEPT ![i] = s]
              /\ status' = status
           \/ /\ spc' = [spc EXCEPT ![s] = "idle"]
              /\ txOwner' = txOwner
              /\ status' = [status EXCEPT ![r] = "shutdown"]
        /\ UNCHANGED <<rr, traces, req, slot, tx, queue, workers, control>>
    BY <1>1, <2>a DEF DInv, LockSender, TypeOK
  <2>1. TypeOK'
    <3>0. /\ spc \in [Submitters -> {"idle", "lock", "trace", "send"}]
          /\ txOwner \in [Idx -> Submitters \union {None}]
      BY DEF DInv, TypeOK
    <3>1. spc' \in [Submitters -> {"idle", "lock", "trace", "send"}]
      BY <2>b, <3>0
    <3>2. txOwner' \in [Idx -> Submitters \union {None}]
      BY <2>b, <3>0
    <3>3. status' \in [Requests -> Statuses]
      BY <2>b DEF DInv, TypeOK
    <3> QED BY <2>b, <3>1, <3>2, <3>3 DEF DInv, TypeOK
  <2>2. SpawnInv'
    <3>1. CASE spc' = [spc EXCEPT ![s] = "trace"]
      BY <2>a, <2>b, <3>1 DEF DInv, TypeOK, SpawnInv
    <3>2. CASE spc' = [spc EXCEPT ![s] = "idle"]
      BY <2>a, <2>b, <3>2 DEF DInv, TypeOK, SpawnInv
    <3> QED BY <2>b, <3>1, <3>2
  <2>3. RunInv'
    BY <2>a, <2>b DEF DInv, TypeOK, RunInv, SpawnInv, OnePlace, Waits
  <2>4. JoinInv'
    BY <2>a, <2>b DEF DInv, TypeOK, JoinInv, Idx
  <2>5. OnePlace'
    BY <2>a, <2>b DEF DInv, TypeOK, OnePlace, Waits, SpawnInv, RunInv
  <2>6. Bounded'
    BY <2>a, <2>b DEF DInv, TypeOK, Bounded
  <2> QED BY <2>1, <2>2, <2>3, <2>4, <2>5, <2>6 DEF DInv
<1>2. CASE RecordTrace(s)
  <2>1. TypeOK'
    BY <1>2 DEF DInv, RecordTrace, PushTrace, TypeOK, SpawnInv, RunInv
  <2>2. SpawnInv'
    BY <1>2 DEF DInv, RecordTrace, PushTrace, TypeOK, SpawnInv, OnePlace, Waits
  <2>3. RunInv'
    BY <1>2 DEF DInv, RecordTrace, PushTrace, TypeOK, RunInv, SpawnInv, OnePlace, Waits
  <2>4. JoinInv'
    BY <1>2 DEF DInv, RecordTrace, PushTrace, TypeOK, JoinInv, Idx
  <2>5. OnePlace'
    BY <1>2 DEF DInv, RecordTrace, PushTrace, TypeOK, OnePlace, Waits, SpawnInv, RunInv
  <2>6. Bounded'
    BY <1>2 DEF DInv, RecordTrace, PushTrace, TypeOK, Bounded
  <2> QED BY <2>1, <2>2, <2>3, <2>4, <2>5, <2>6 DEF DInv
<1>3. CASE TrySend(s)
  <2> DEFINE r == req[s]  i == slot[r]
  <2>a. r \in Requests /\ i \in Idx /\ status[r] = "spawning"
    BY <1>3 DEF DInv, TrySend, SpawnInv
  <2>1. TypeOK'
    <3>1. queue' = queue \/ queue' = [queue EXCEPT ![i] = Append(queue[i], r)]
      BY <1>3 DEF TrySend
    <3>a. queue' \in [Idx -> Seq(Requests)]
      <4>1. Append(queue[i], r) \in Seq(Requests)
        BY <2>a DEF DInv, TypeOK
      <4> QED BY <3>1, <4>1 DEF DInv, TypeOK
    <3>2. \E v \in {"shutdown", "full", "queued"} : status' = [status EXCEPT ![r] = v]
      BY <1>3 DEF TrySend
    <3>b. status' \in [Requests -> Statuses]
      BY <3>2 DEF DInv, TypeOK
    <3> QED BY <1>3, <3>a, <3>b DEF DInv, TrySend, TypeOK
  <2>2. SpawnInv'
    BY <1>3, <2>a DEF DInv, TrySend, TypeOK, SpawnInv, OnePlace, Waits
  <2>3. RunInv'
    BY <1>3, <2>a DEF DInv, TrySend, TypeOK, RunInv, SpawnInv, OnePlace, Waits
  <2>4. JoinInv'
    BY <1>3 DEF DInv, TrySend, TypeOK, JoinInv, Idx
  <2>5. OnePlace'
    <3>1. CASE queue' = queue /\ status'[r] \in Refused
      <4>1. /\ \A q \in Requests : status[q] # "spawning" => status'[q] = status[q]
            /\ slot' = slot /\ running' = running /\ queue' = queue
        BY <1>3, <2>a, <3>1 DEF DInv, TrySend, TypeOK
      <4> QED BY <4>1 DEF DInv, OnePlace, Waits
    <3>2. CASE /\ queue' = [queue EXCEPT ![i] = Append(@, r)]
               /\ status' = [status EXCEPT ![r] = "queued"]
      <4>1. \A q \in Requests, j \in Idx : \A k \in 1 .. Len(queue'[j]) :
              queue'[j][k] = q =>
                \/ q = r /\ j = i /\ k = Len(queue[i]) + 1
                \/ q # r /\ k \in 1 .. Len(queue[j]) /\ queue[j][k] = q
        BY <2>a, <3>2 DEF DInv, TypeOK, OnePlace, Waits
      <4> QED BY <1>3, <2>a, <3>2, <4>1 DEF DInv, TrySend, TypeOK, OnePlace, Waits
    <3> QED BY <1>3, <2>a, <3>1, <3>2 DEF DInv, TrySend, TypeOK
  <2>6. Bounded'
    BY <1>3, <2>a DEF DInv, TrySend, TypeOK, Bounded
  <2> QED BY <2>1, <2>2, <2>3, <2>4, <2>5, <2>6 DEF DInv
<1> QED BY <1>1, <1>2, <1>3 DEF Spawn

\* A worker that exits drops what its channel holds; no other request is touched.
LEMMA ExitPreserves ==
    ASSUME DInv, NEW i \in Idx, wpc[i] \in {"check", "recv"}, Exit(i),
           UNCHANGED <<submit, tx, txOwner, running, control>>
    PROVE  DInv'
<1>a. \A r \in Requests :
         \/ status'[r] = status[r] /\ \A k \in 1 .. Len(queue[i]) : queue[i][k] # r
         \/ status'[r] = "dropped" /\ status[r] = "queued" /\ slot[r] = i
  BY DEF DInv, Exit, OnePlace, Waits
<1>b. /\ wpc' = [wpc EXCEPT ![i] = "exited"]
      /\ queue' = [queue EXCEPT ![i] = <<>>]
      /\ running[i] = None
      /\ queue' \in [Idx -> Seq(Requests)]
  BY DEF DInv, Exit, TypeOK, RunInv
<1>c. status' \in [Requests -> Statuses]
  BY DEF DInv, Exit, TypeOK
<1>1. TypeOK'
  BY <1>b, <1>c DEF DInv, TypeOK
<1>2. SpawnInv'
  BY <1>a DEF DInv, TypeOK, SpawnInv
<1>3. RunInv'
  BY <1>a, <1>b DEF DInv, TypeOK, RunInv
<1>4. JoinInv'
  BY <1>b DEF DInv, TypeOK, JoinInv
<1>5. OnePlace'
  <2>1. /\ Len(queue'[i]) = 0
        /\ \A j \in Idx : j # i => queue'[j] = queue[j]
    BY <1>b DEF DInv, TypeOK
  <2>2. slot' = slot /\ running' = running
    OBVIOUS
  <2>4. \A r \in Requests : status[r] = "running" => status'[r] = "running"
    BY <1>a
  <2>5. ASSUME NEW r \in Requests, NEW j \in Idx, NEW k \in 1 .. Len(queue'[j]),
               queue'[j][k] = r
        PROVE  /\ status'[r] = "queued" /\ slot'[r] = j
               /\ \A l \in 1 .. Len(queue'[j]) : queue'[j][l] = r => l = k
    <3>1. j # i /\ queue'[j] = queue[j]
      BY <2>1, <2>5
    <3>2. /\ status[r] = "queued" /\ slot[r] = j
          /\ \A l \in 1 .. Len(queue[j]) : queue[j][l] = r => l = k
      BY <2>5, <3>1 DEF DInv, OnePlace, Waits
    <3> QED BY <1>a, <2>2, <3>1, <3>2
  <2>6. ASSUME NEW r \in Requests, NEW j \in Idx, running'[j] = r
        PROVE  status'[r] = "running" /\ slot'[r] = j
    BY <2>2, <2>4, <2>6 DEF DInv, OnePlace
  <2> QED BY <2>5, <2>6 DEF OnePlace, Waits
<1>6. Bounded'
  BY <1>b DEF DInv, TypeOK, Bounded
<1> QED BY <1>1, <1>2, <1>3, <1>4, <1>5, <1>6 DEF DInv

\* Workers: the received request leaves the channel, the rest moves up.
LEMMA LoopPreserves ==
    ASSUME DInv, NEW i \in Idx, Loop(i)
    PROVE  DInv'
<1>1. CASE CheckFlag(i)
  <2>1. CASE flag = "stop"
    BY <1>1, <2>1, ExitPreserves DEF CheckFlag
  <2>2. CASE flag # "stop"
    <3>1. TypeOK' /\ Bounded'
      BY <1>1, <2>2 DEF DInv, CheckFlag, TypeOK, Bounded
    <3>2. SpawnInv' /\ RunInv' /\ JoinInv'
      BY <1>1, <2>2 DEF DInv, CheckFlag, TypeOK, SpawnInv, RunInv, JoinInv
    <3>3. OnePlace'
      BY <1>1, <2>2 DEF DInv, CheckFlag, OnePlace, Waits
    <3> QED BY <3>1, <3>2, <3>3 DEF DInv
  <2> QED BY <2>1, <2>2
<1>2. CASE Receive(i)
  <2> DEFINE h == Head(queue[i])
  <2>a. /\ queue[i] \in Seq(Requests) /\ 1 \in 1 .. Len(queue[i])
        /\ h \in Requests /\ h = queue[i][1]
    BY <1>2 DEF DInv, Receive, TypeOK
  <2>b. status[h] = "queued" /\ slot[h] = i
    BY <2>a DEF DInv, OnePlace, Waits
  <2>1. TypeOK'
    BY <1>2, <2>a, <2>b DEF DInv, Receive, TypeOK, SpawnInv, RunInv
  <2>2. SpawnInv'
    BY <1>2, <2>a, <2>b DEF DInv, Receive, TypeOK, SpawnInv, OnePlace, Waits
  <2>3. RunInv'
    <3>1. status' = [status EXCEPT ![h] = "running"] /\ running' = [running EXCEPT ![i] = h]
      BY <1>2 DEF Receive
    <3>2. \A j \in Idx : wpc'[j] = "run" <=> running'[j] # None
      BY <1>2, <2>a, <3>1 DEF DInv, Receive, TypeOK, RunInv
    <3>3. running[i] = None
      BY <1>2 DEF DInv, Receive, RunInv
    <3>4. \A r \in Requests : status'[r] = "running" => slot[r] \in Idx /\ running'[slot[r]] = r
      BY <2>a, <2>b, <3>1, <3>3 DEF DInv, TypeOK, RunInv
    <3> QED BY <1>2, <3>2, <3>4 DEF Receive, RunInv
  <2>4. JoinInv'
    BY <1>2 DEF DInv, Receive, TypeOK, JoinInv, Idx
  <2>5. OnePlace'
    BY <1>2, <2>a, <2>b DEF DInv, Receive, TypeOK, OnePlace, Waits, SpawnInv, RunInv
  <2>6. Bounded'
    BY <1>2, <2>a, <2>b DEF DInv, Receive, TypeOK, Bounded
  <2> QED BY <2>1, <2>2, <2>3, <2>4, <2>5, <2>6 DEF DInv
<1>3. CASE ReceiveTimeout(i)
  <2>1. TypeOK'
    BY <1>3 DEF DInv, ReceiveTimeout, TypeOK, SpawnInv, RunInv
  <2>2. SpawnInv'
    BY <1>3 DEF DInv, ReceiveTimeout, TypeOK, SpawnInv, OnePlace, Waits
  <2>3. RunInv'
    BY <1>3 DEF DInv, ReceiveTimeout, TypeOK, RunInv, SpawnInv, OnePlace, Waits
  <2>4. JoinInv'
    BY <1>3 DEF DInv, ReceiveTimeout, TypeOK, JoinInv, Idx
  <2>5. OnePlace'
    BY <1>3 DEF DInv, ReceiveTimeout, TypeOK, OnePlace, Waits, SpawnInv, RunInv
  <2>6. Bounded'
    BY <1>3 DEF DInv, ReceiveTimeout, TypeOK, Bounded
  <2> QED BY <2>1, <2>2, <2>3, <2>4, <2>5, <2>6 DEF DInv
<1>4. CASE ReceiveDisconnected(i)
  BY <1>4, ExitPreserves DEF ReceiveDisconnected
<1> QED BY <1>1, <1>2, <1>3, <1>4 DEF Loop

\* Shutdown and Drop.
LEMMA ControlPreserves ==
    ASSUME DInv, BeginShutdown \/ BeginDrop \/ Stopping \/ Detach
    PROVE  DInv'
<1>1. CASE BeginShutdown
  <2>1. TypeOK'
    BY <1>1 DEF DInv, BeginShutdown, TypeOK, SpawnInv, RunInv, Idx
  <2>2. SpawnInv'
    BY <1>1 DEF DInv, BeginShutdown, TypeOK, SpawnInv, OnePlace, Waits
  <2>3. RunInv'
    BY <1>1 DEF DInv, BeginShutdown, TypeOK, RunInv, SpawnInv, OnePlace, Waits
  <2>4. JoinInv'
    BY <1>1 DEF DInv, BeginShutdown, TypeOK, JoinInv, Idx
  <2>5. OnePlace'
    BY <1>1 DEF DInv, BeginShutdown, TypeOK, OnePlace, Waits, SpawnInv, RunInv
  <2>6. Bounded'
    BY <1>1 DEF DInv, BeginShutdown, TypeOK, Bounded
  <2> QED BY <2>1, <2>2, <2>3, <2>4, <2>5, <2>6 DEF DInv
<1>2. CASE BeginDrop
  <2>1. TypeOK'
    BY <1>2 DEF DInv, BeginDrop, TypeOK, SpawnInv, RunInv, Idx
  <2>2. SpawnInv'
    BY <1>2 DEF DInv, BeginDrop, TypeOK, SpawnInv, OnePlace, Waits
  <2>3. RunInv'
    BY <1>2 DEF DInv, BeginDrop, TypeOK, RunInv, SpawnInv, OnePlace, Waits
  <2>4. JoinInv'
    BY <1>2 DEF DInv, BeginDrop, TypeOK, JoinInv, Idx
  <2>5. OnePlace'
    BY <1>2 DEF DInv, BeginDrop, TypeOK, OnePlace, Waits, SpawnInv, RunInv
  <2>6. Bounded'
    BY <1>2 DEF DInv, BeginDrop, TypeOK, Bounded
  <2> QED BY <2>1, <2>2, <2>3, <2>4, <2>5, <2>6 DEF DInv
<1>3. CASE CloseSender
  <2>1. TypeOK'
    BY <1>3 DEF DInv, CloseSender, TypeOK, SpawnInv, RunInv, Idx
  <2>2. SpawnInv'
    BY <1>3 DEF DInv, CloseSender, TypeOK, SpawnInv, OnePlace, Waits
  <2>3. RunInv'
    BY <1>3 DEF DInv, CloseSender, TypeOK, RunInv, SpawnInv, OnePlace, Waits
  <2>4. JoinInv'
    BY <1>3 DEF DInv, CloseSender, TypeOK, JoinInv, Idx
  <2>5. OnePlace'
    BY <1>3 DEF DInv, CloseSender, TypeOK, OnePlace, Waits, SpawnInv, RunInv
  <2>6. Bounded'
    BY <1>3 DEF DInv, CloseSender, TypeOK, Bounded
  <2> QED BY <2>1, <2>2, <2>3, <2>4, <2>5, <2>6 DEF DInv
<1>4. CASE SendersClosed
  <2>1. TypeOK'
    BY <1>4 DEF DInv, SendersClosed, TypeOK, SpawnInv, RunInv, Idx
  <2>2. SpawnInv'
    BY <1>4 DEF DInv, SendersClosed, TypeOK, SpawnInv, OnePlace, Waits
  <2>3. RunInv'
    BY <1>4 DEF DInv, SendersClosed, TypeOK, RunInv, SpawnInv, OnePlace, Waits
  <2>4. JoinInv'
    BY <1>4 DEF DInv, SendersClosed, TypeOK, JoinInv, Idx
  <2>5. OnePlace'
    BY <1>4 DEF DInv, SendersClosed, TypeOK, OnePlace, Waits, SpawnInv, RunInv
  <2>6. Bounded'
    BY <1>4 DEF DInv, SendersClosed, TypeOK, Bounded
  <2> QED BY <2>1, <2>2, <2>3, <2>4, <2>5, <2>6 DEF DInv
<1>5. CASE Join
  <2>1. TypeOK'
    BY <1>5 DEF DInv, Join, TypeOK, SpawnInv, RunInv, Idx
  <2>2. SpawnInv'
    BY <1>5 DEF DInv, Join, TypeOK, SpawnInv, OnePlace, Waits
  <2>3. RunInv'
    BY <1>5 DEF DInv, Join, TypeOK, RunInv, SpawnInv, OnePlace, Waits
  <2>4. JoinInv'
    BY <1>5 DEF DInv, Join, TypeOK, JoinInv, Idx
  <2>5. OnePlace'
    BY <1>5 DEF DInv, Join, TypeOK, OnePlace, Waits, SpawnInv, RunInv
  <2>6. Bounded'
    BY <1>5 DEF DInv, Join, TypeOK, Bounded
  <2> QED BY <2>1, <2>2, <2>3, <2>4, <2>5, <2>6 DEF DInv
<1>6. CASE ProcessExit
  <2>1. TypeOK'
    BY <1>6 DEF DInv, ProcessExit, TypeOK, SpawnInv, RunInv, Idx
  <2>2. SpawnInv'
    BY <1>6 DEF DInv, ProcessExit, TypeOK, SpawnInv, OnePlace, Waits
  <2>3. RunInv'
    BY <1>6 DEF DInv, ProcessExit, TypeOK, RunInv, SpawnInv, OnePlace, Waits
  <2>4. JoinInv'
    BY <1>6 DEF DInv, ProcessExit, TypeOK, JoinInv, Idx
  <2>5. OnePlace'
    BY <1>6 DEF DInv, ProcessExit, TypeOK, OnePlace, Waits, SpawnInv, RunInv
  <2>6. Bounded'
    BY <1>6 DEF DInv, ProcessExit, TypeOK, Bounded
  <2> QED BY <2>1, <2>2, <2>3, <2>4, <2>5, <2>6 DEF DInv
<1>7. CASE Detach
  <2>1. TypeOK'
    BY <1>7 DEF DInv, Detach, TypeOK, SpawnInv, RunInv, Idx
  <2>2. SpawnInv'
    BY <1>7 DEF DInv, Detach, TypeOK, SpawnInv, OnePlace, Waits
  <2>3. RunInv'
    BY <1>7 DEF DInv, Detach, TypeOK, RunInv, SpawnInv, OnePlace, Waits
  <2>4. JoinInv'
    BY <1>7 DEF DInv, Detach, TypeOK, JoinInv, Idx
  <2>5. OnePlace'
    BY <1>7 DEF DInv, Detach, TypeOK, OnePlace, Waits, SpawnInv, RunInv
  <2>6. Bounded'
    BY <1>7 DEF DInv, Detach, TypeOK, Bounded
  <2> QED BY <2>1, <2>2, <2>3, <2>4, <2>5, <2>6 DEF DInv
<1> QED BY <1>1, <1>2, <1>3, <1>4, <1>5, <1>6, <1>7 DEF Stopping

\* The round-robin choice is a worker.
LEMMA SelectPreserves ==
    ASSUME DInv, NEW s \in Submitters, NEW r \in Requests, SelectWorker(s, r)
    PROVE  DInv'
<1>0. rr % NumWorkers \in Idx
  BY DEF DInv, TypeOK, Idx
<1>1. TypeOK'
  BY <1>0 DEF DInv, SelectWorker, TypeOK, SpawnInv, RunInv
<1>2. SpawnInv'
  BY <1>0 DEF DInv, SelectWorker, TypeOK, SpawnInv, OnePlace, Waits
<1>3. RunInv'
  BY <1>0 DEF DInv, SelectWorker, TypeOK, RunInv, SpawnInv, OnePlace, Waits
<1>4. JoinInv'
  BY <1>0 DEF DInv, SelectWorker, TypeOK, JoinInv, Idx
<1>5. OnePlace'
  BY <1>0 DEF DInv, SelectWorker, TypeOK, OnePlace, Waits, SpawnInv, RunInv
<1>6. Bounded'
  BY <1>0 DEF DInv, SelectWorker, TypeOK, Bounded
<1> QED BY <1>1, <1>2, <1>3, <1>4, <1>5, <1>6 DEF DInv

\* A handler that returns or panics leaves its worker free.
LEMMA ReturnPreserves ==
    ASSUME DInv, NEW i \in Idx, NEW outcome \in Outcomes, Finish(i, outcome)
    PROVE  DInv'
<1>1. TypeOK'
  BY DEF DInv, Finish, TypeOK, SpawnInv, RunInv
<1>2. SpawnInv'
  BY DEF DInv, Finish, TypeOK, SpawnInv, OnePlace, Waits
<1>3. RunInv'
  BY DEF DInv, Finish, TypeOK, RunInv, SpawnInv, OnePlace, Waits
<1>4. JoinInv'
  BY DEF DInv, Finish, TypeOK, JoinInv, Idx
<1>5. OnePlace'
  BY DEF DInv, Finish, TypeOK, OnePlace, Waits, SpawnInv, RunInv
<1>6. Bounded'
  BY DEF DInv, Finish, TypeOK, Bounded
<1> QED BY <1>1, <1>2, <1>3, <1>4, <1>5, <1>6 DEF DInv

LEMMA NextPreserves == DInv /\ [Next]_vars => DInv'
<1> SUFFICES ASSUME DInv, [Next]_vars PROVE DInv'
  OBVIOUS
<1>1. ASSUME NEW s \in Submitters, Spawn(s) PROVE DInv'
  BY <1>1, SpawnPreserves
<1>2. ASSUME NEW s \in Submitters, NEW r \in Requests, SelectWorker(s, r) PROVE DInv'
  BY <1>2, SelectPreserves
<1>3. ASSUME NEW i \in Idx, Loop(i) PROVE DInv'
  BY <1>3, LoopPreserves
<1>4. ASSUME NEW i \in Idx, Return(i) PROVE DInv'
  BY <1>4, ReturnPreserves DEF Return
<1>5. CASE BeginShutdown \/ BeginDrop \/ Stopping \/ Detach
  BY <1>5, ControlPreserves
<1>6. CASE UNCHANGED vars
  BY <1>6 DEF vars, DInv, TypeOK, SpawnInv, RunInv, JoinInv, OnePlace, Waits, Bounded
<1> QED BY <1>1, <1>2, <1>3, <1>4, <1>5, <1>6 DEF Next, Fresh

\* The inductive invariant holds in every reachable state.
THEOREM Invariance == Spec => []DInv
BY InitDInv, NextPreserves, PTL DEF Spec

-----------------------------------------------------------------------------
(* What follows from it *)

\* Every variable of the dispatcher keeps its type.
THEOREM TypeCorrect == Spec => []TypeOK
<1>1. DInv => TypeOK
  BY DEF DInv
<1> QED BY <1>1, Invariance, PTL

\* No accepted handler is duplicated, misrouted or run by two workers, and no
\* refused one is queued or run (spawn, the worker loop and worker exit).
THEOREM HandlersInOnePlace == Spec => []OnePlace
<1>1. DInv => OnePlace
  BY DEF DInv
<1> QED BY <1>1, Invariance, PTL

\* Channels and the trace buffer keep their bounds (spawn).
THEOREM ChannelsBounded == Spec => []Bounded
<1>1. DInv => Bounded
  BY DEF DInv
<1> QED BY <1>1, Invariance, PTL

\* A Drop that joined every worker cuts no running handler off.
THEOREM InFlightWorkCompletes == Spec => []InFlightCompletes
<1>1. DInv => InFlightCompletes
  <2> SUFFICES ASSUME DInv, cpc = "gone", cidx = NumWorkers, NEW r \in Requests,
                      status[r] = "running"
               PROVE  FALSE
    BY DEF InFlightCompletes
  <2>1. slot[r] \in Idx /\ running[slot[r]] = r
    BY DEF DInv, RunInv
  <2>2. wpc[slot[r]] = "exited"
    BY <2>1 DEF DInv, JoinInv, Idx
  <2>3. wpc[slot[r]] = "run"
    BY <2>1 DEF DInv, RunInv
  <2> QED BY <2>2, <2>3
<1> QED BY <1>1, Invariance, PTL

\* spawn accepts nothing on a closed channel: from its shutdown test to its send
\* it holds the mutex that the closing loop needs.
THEOREM ClosedAcceptsNothing == Spec => NoAcceptAfterClose
<1> DEFINE Accepts(r) == status[r] # "queued" /\ status'[r] = "queued"
<1>1. ASSUME DInv, [Next]_vars, NEW r \in Requests, Accepts(r)
      PROVE  tx[slot[r]] = "open"
  <2>1. PICK s \in Submitters : TrySend(s)
    <3>1. ASSUME NEW s \in Submitters, LockSender(s) \/ RecordTrace(s) PROVE FALSE
      BY <1>1, <3>1 DEF LockSender, RecordTrace, DInv, TypeOK
    <3>2. ASSUME NEW s \in Submitters, NEW q \in Requests, SelectWorker(s, q) PROVE FALSE
      BY <1>1, <3>2 DEF SelectWorker, DInv, TypeOK
    <3>3. ASSUME NEW i \in Idx, Loop(i) PROVE FALSE
      <4>1. CASE Receive(i)
        BY <1>1, <4>1 DEF Receive, DInv, TypeOK
      <4>2. CASE ReceiveTimeout(i)
        BY <1>1, <4>2 DEF ReceiveTimeout
      <4>3. CASE Exit(i)
        BY <1>1, <4>3 DEF Exit
      <4>4. CASE CheckFlag(i) /\ ~Exit(i)
        BY <1>1, <4>4 DEF CheckFlag
      <4> QED BY <3>3, <4>1, <4>2, <4>3, <4>4 DEF Loop, ReceiveDisconnected
    <3>4. ASSUME NEW i \in Idx, Return(i) PROVE FALSE
      BY <1>1, <3>4 DEF Return, Finish, DInv, TypeOK
    <3>5. CASE BeginShutdown \/ BeginDrop \/ Stopping \/ Detach \/ UNCHANGED vars
      BY <1>1, <3>5 DEF BeginShutdown, BeginDrop, Stopping, CloseSender, SendersClosed,
                        Join, ProcessExit, Detach, vars
    <3> QED BY <1>1, <3>1, <3>2, <3>3, <3>4, <3>5 DEF Next, Spawn, Fresh
  <2>2. tx[slot[req[s]]] = "open"
    BY <1>1, <2>1 DEF TrySend, DInv, SpawnInv
  <2>3. req[s] = r
    BY <1>1, <2>1 DEF TrySend, DInv, TypeOK
  <2> QED BY <2>2, <2>3
<1>2. DInv /\ [Next]_vars => [\A r \in Requests : Accepts(r) => tx[slot[r]] = "open"]_vars
  BY <1>1
<1> QED BY <1>2, Invariance, PTL DEF Spec, NoAcceptAfterClose
-----------------------------------------------------------------------------
(* Round robin *)

\* The quotient and the remainder of a division.
LEMMA Division ==
    ASSUME NEW n \in Nat \ {0}, NEW r \in Nat
    PROVE  \E q \in Nat : r = q * n + (r % n)
<1>1. r \div n \in Nat
  OBVIOUS
<1>2. r = (r \div n) * n + (r % n)
  OBVIOUS
<1> QED BY <1>1, <1>2

\* They are determined.
LEMMA Remainder ==
    ASSUME NEW n \in Nat \ {0}, NEW q \in Nat, NEW p \in 0 .. n - 1
    PROVE  (q * n + p) % n = p
OBVIOUS

\* fetch_add(1) % len() moves to the next worker, and from the last to the first.
LEMMA NextRemainder ==
    ASSUME NEW n \in Nat \ {0}, NEW r \in Nat
    PROVE  (r + 1) % n = IF (r % n) + 1 = n THEN 0 ELSE (r % n) + 1
<1> DEFINE p == r % n
<1>1. PICK q \in Nat : r = q * n + p
  BY Division
<1>2. p \in 0 .. n - 1
  OBVIOUS
<1> HIDE DEF p
<1>3. CASE p + 1 = n
  <2>1. r + 1 = (q + 1) * n + 0
    BY <1>1, <1>2, <1>3
  <2>2. ((q + 1) * n + 0) % n = 0
    BY Remainder
  <2> QED BY <1>3, <2>1, <2>2 DEF p
<1>4. CASE p + 1 # n
  <2>1. r + 1 = q * n + (p + 1) /\ p + 1 \in 0 .. n - 1
    BY <1>1, <1>2, <1>4
  <2>2. (q * n + (p + 1)) % n = p + 1
    BY <2>1, Remainder
  <2> QED BY <1>4, <2>1, <2>2 DEF p
<1> QED BY <1>3, <1>4

Placed(i) == {r \in Requests : slot[r] = i}

\* Every worker was chosen q times, and those before the next one once more.
LoadInv ==
    /\ \A r \in Requests : status[r] = "new" => slot[r] = None
    /\ \A i \in Idx : IsFiniteSet(Placed(i))
    /\ \E q \in Nat : \A i \in Idx :
          Cardinality(Placed(i)) = IF i < rr % NumWorkers THEN q + 1 ELSE q

\* Before the first spawn.
LEMMA InitLoad == Init => LoadInv
<1> SUFFICES ASSUME Init PROVE LoadInv
  OBVIOUS
<1>1. \A i \in Idx : Placed(i) = {}
  BY DEF Init, Placed
<1>2. rr % NumWorkers = 0
  <2>1. (0 * NumWorkers + 0) % NumWorkers = 0
    BY Remainder
  <2> QED BY <2>1 DEF Init
<1>3. \A i \in Idx : Cardinality(Placed(i)) = IF i < rr % NumWorkers THEN 0 + 1 ELSE 0
  <2>1. Cardinality({}) = 0
    BY FS_EmptySet
  <2>2. \A i \in Idx : ~(i < 0)
    BY DEF Idx
  <2> QED BY <1>1, <1>2, <2>1, <2>2
<1>4. \A i \in Idx : IsFiniteSet(Placed(i))
  BY <1>1, FS_EmptySet
<1>5. \A r \in Requests : slot[r] = None
  BY DEF Init
<1> QED BY <1>3, <1>4, <1>5 DEF LoadInv

\* spawn counts the request for the worker whose turn it is.
LEMMA SelectLoad ==
    ASSUME DInv, LoadInv, NEW s \in Submitters, NEW r \in Requests, SelectWorker(s, r)
    PROVE  LoadInv'
<1>0. rr \in Nat /\ rr % NumWorkers \in Idx
  BY DEF DInv, TypeOK, Idx
<1> PICK p \in Idx : p = rr % NumWorkers
  BY <1>0
<1>1. p \in Nat /\ p = rr % NumWorkers
  BY DEF Idx
<1>2. slot[r] = None /\ slot' = [slot EXCEPT ![r] = p] /\ rr' = rr + 1
  BY <1>1 DEF LoadInv, SelectWorker
<1>3. slot \in [Requests -> Idx \union {None}]
  BY DEF DInv, TypeOK
<1>4. Placed(p)' = Placed(p) \union {r} /\ r \notin Placed(p)
      /\ \A i \in Idx \ {p} : Placed(i)' = Placed(i)
  <2>1. p # None /\ slot'[r] = p /\ \A t \in Requests \ {r} : slot'[t] = slot[t]
    BY <1>2, <1>3
  <2>2. r \notin Placed(p)
    BY <1>2, <2>1 DEF Placed
  <2>3. Placed(p)' = Placed(p) \union {r}
    BY <1>2, <2>1 DEF Placed
  <2>4. ASSUME NEW i \in Idx \ {p} PROVE Placed(i)' = Placed(i)
    <3>1. i # None
      OBVIOUS
    <3> QED BY <1>2, <2>1, <2>4, <3>1 DEF Placed
  <2> QED BY <2>2, <2>3, <2>4
<1>5. rr' % NumWorkers = IF p + 1 = NumWorkers THEN 0 ELSE p + 1
  <2>1. NumWorkers \in Nat \ {0} /\ rr \in Nat
    BY <1>0
  <2>2. (rr + 1) % NumWorkers = IF (rr % NumWorkers) + 1 = NumWorkers THEN 0
                                ELSE (rr % NumWorkers) + 1
    BY <2>1, NextRemainder
  <2> QED BY <1>1, <1>2, <2>2
<1>6. \A i \in Idx : IsFiniteSet(Placed(i))
  BY DEF LoadInv
<1>7. IsFiniteSet(Placed(p)') /\ Cardinality(Placed(p)') = Cardinality(Placed(p)) + 1
  BY <1>1, <1>4, <1>6, FS_AddElement
<1>8. \A i \in Idx : IsFiniteSet(Placed(i)')
  BY <1>4, <1>6, <1>7
<1>9. PICK q \in Nat : \A i \in Idx : Cardinality(Placed(i)) = IF i < p THEN q + 1 ELSE q
  BY <1>1 DEF LoadInv
<1>10. \A i \in Idx : Cardinality(Placed(i)') = IF i <= p THEN q + 1 ELSE q
  BY <1>1, <1>4, <1>7, <1>9 DEF Idx
<1>11. \E k \in Nat : \A i \in Idx :
          Cardinality(Placed(i)') = IF i < rr' % NumWorkers THEN k + 1 ELSE k
  <2>1. CASE p + 1 = NumWorkers
    BY <1>1, <1>5, <1>10, <2>1 DEF Idx
  <2>2. CASE p + 1 # NumWorkers
    BY <1>1, <1>5, <1>10, <2>2 DEF Idx
  <2> QED BY <2>1, <2>2
<1>12. \A t \in Requests : status'[t] = "new" => slot'[t] = None
  BY <1>2, <1>3 DEF LoadInv, SelectWorker, DInv, TypeOK
<1> QED BY <1>8, <1>11, <1>12 DEF LoadInv

\* Nothing else chooses a worker or takes a request back.
LEMMA OthersLoad ==
    ASSUME DInv, LoadInv, UNCHANGED <<rr, slot>>,
           \A r \in Requests : status'[r] = "new" => status[r] = "new"
    PROVE  LoadInv'
BY DEF LoadInv, Placed

\* No step but SelectWorker touches the counter, and none undoes a spawn.
LEMMA StatusAdvances ==
    ASSUME DInv, [Next]_vars, \A s \in Submitters, r \in Requests : ~SelectWorker(s, r)
    PROVE  /\ UNCHANGED <<rr, slot>>
           /\ \A r \in Requests : status'[r] = "new" => status[r] = "new"
<1>1. ASSUME NEW s \in Submitters, Spawn(s)
      PROVE  UNCHANGED <<rr, slot>> /\ \A r \in Requests : status'[r] = "new" => status[r] = "new"
  BY <1>1 DEF Spawn, LockSender, RecordTrace, TrySend, DInv, TypeOK
<1>2. ASSUME NEW i \in Idx, Loop(i)
      PROVE  UNCHANGED <<rr, slot>> /\ \A r \in Requests : status'[r] = "new" => status[r] = "new"
  <2>1. CASE Receive(i)
    BY <2>1 DEF Receive, DInv, TypeOK
  <2>2. CASE ~Receive(i)
    BY <1>2, <2>2 DEF Loop, CheckFlag, Exit, ReceiveTimeout, ReceiveDisconnected
  <2> QED BY <2>1, <2>2
<1>3. ASSUME NEW i \in Idx, Return(i)
      PROVE  UNCHANGED <<rr, slot>> /\ \A r \in Requests : status'[r] = "new" => status[r] = "new"
  BY <1>3 DEF Return, Finish, DInv, TypeOK
<1>4. CASE BeginShutdown \/ BeginDrop \/ Stopping \/ Detach
  BY <1>4 DEF BeginShutdown, BeginDrop, Stopping, CloseSender, SendersClosed, Join, ProcessExit,
              Detach
<1>5. CASE UNCHANGED vars
  BY <1>5 DEF vars
<1> QED BY <1>1, <1>2, <1>3, <1>4, <1>5 DEF Next, Fresh

\* Each worker is chosen as often as every other, give or take one, for every
\* number of workers and of concurrent submitters (spawn's rr_counter).
THEOREM RoundRobinEven == Spec => []EvenDistribution
<1>1. DInv /\ LoadInv /\ [Next]_vars => LoadInv'
  <2> SUFFICES ASSUME DInv, LoadInv, [Next]_vars PROVE LoadInv'
    OBVIOUS
  <2>1. CASE \E s \in Submitters, r \in Requests : SelectWorker(s, r)
    BY <2>1, SelectLoad
  <2>2. CASE \A s \in Submitters, r \in Requests : ~SelectWorker(s, r)
    BY <2>2, StatusAdvances, OthersLoad
  <2> QED BY <2>1, <2>2
<1>2. LoadInv => EvenDistribution
  <2> SUFFICES ASSUME LoadInv, NEW i \in Idx, NEW j \in Idx
               PROVE  Cardinality(Placed(i)) <= Cardinality(Placed(j)) + 1
    BY DEF EvenDistribution, Placed
  <2> QED BY DEF LoadInv
<1> QED BY <1>1, <1>2, InitLoad, Invariance, PTL DEF Spec
=============================================================================
