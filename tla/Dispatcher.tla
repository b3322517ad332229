----------------------------- MODULE Dispatcher -----------------------------
(***************************************************************************)
(* The request dispatcher: submitters call spawn, which places a handler   *)
(* on one of several bounded per-worker channels in round-robin order;     *)
(* worker threads receive and run handlers; shutdown() and Drop raise a    *)
(* flag, close the channels and (Drop) join the workers.                   *)
(*                                                                         *)
(* A relaxed load that still returns the old flag is an earlier load: it   *)
(* needs no step of its own.                                               *)
(***************************************************************************)
EXTENDS Naturals, Sequences, FiniteSets

CONSTANTS
    Submitters,     \* threads that call spawn
    Requests,       \* requests, each spawned once
    None,           \* no request, no lock owner, no worker chosen
    NumWorkers,     \* DispatcherConfig.worker_count
    MaxQueueDepth,  \* DispatcherConfig.max_queue_depth
    MaxTraces,      \* DispatcherConfig.max_traces
    Healthy         \* workers whose handlers always return

ASSUME SizesAssumption ==
    /\ NumWorkers \in Nat \ {0}
    /\ MaxQueueDepth \in Nat \ {0}
    /\ MaxTraces \in Nat

Idx == 0 .. NumWorkers - 1

ASSUME NamesAssumption ==
    None \notin Requests /\ None \notin Submitters /\ None \notin Idx

VARIABLES
    rr,       \* rr_counter
    tx,       \* tx[i]: "open" while request_txs[i] holds its sender
    txOwner,  \* holder of the mutex around request_txs[i]
    queue,    \* queue[i]: handlers in the channel of worker i
    traces,   \* recent requests
    flag,     \* shutdown_flag
    wpc,      \* worker threads
    running,  \* the request whose handler worker i runs
    spc,      \* submitters, inside spawn
    req,      \* the request a submitter spawns
    slot,     \* the worker chosen for each request
    status,   \* history: what became of each request
    cpc,      \* the thread that shuts the dispatcher down
    cidx,     \* its loop index over channels, then over workers
    mode      \* whether it runs shutdown() or drop()

submit  == <<rr, traces, spc, req, slot>>
workers == <<wpc, running>>
control == <<flag, cpc, cidx, mode>>
vars    == <<submit, tx, txOwner, queue, workers, status, control>>

Outcomes == {"done", "panicked"}
Refused == {"full", "shutdown"}
Statuses == {"new", "spawning", "queued", "running", "dropped"} \union Outcomes \union Refused

Init ==
    /\ rr = 0
    /\ tx = [i \in Idx |-> "open"]
    /\ txOwner = [i \in Idx |-> None]
    /\ queue = [i \in Idx |-> <<>>]
    /\ traces = <<>>
    /\ flag = "run"
    /\ wpc = [i \in Idx |-> "check"]
    /\ running = [i \in Idx |-> None]
    /\ spc = [s \in Submitters |-> "idle"]
    /\ req = [s \in Submitters |-> None]
    /\ slot = [r \in Requests |-> None]
    /\ status = [r \in Requests |-> "new"]
    /\ cpc = "up"
    /\ cidx = 0
    /\ mode = "none"

\* run() returns after drop(dispatcher): the process is gone.
Alive == cpc # "gone"

-----------------------------------------------------------------------------
(* spawn *)

\* Mutant: the counter is not advanced past a worker whose channel is full.
SelectWorkerSticky(s, r) ==
    /\ Alive /\ mode # "drop"
    /\ spc[s] = "idle"
    /\ status[r] = "new"
    /\ rr' = IF Len(queue[rr % NumWorkers]) >= MaxQueueDepth THEN rr ELSE rr + 1
    /\ slot' = [slot EXCEPT ![r] = rr % NumWorkers]
    /\ req' = [req EXCEPT ![s] = r]
    /\ spc' = [spc EXCEPT ![s] = "lock"]
    /\ status' = [status EXCEPT ![r] = "spawning"]
    /\ UNCHANGED <<traces, tx, txOwner, queue, workers, control>>

\* worker_idx = rr_counter.fetch_add(1) % request_txs.len()
SelectWorker(s, r) ==
    /\ Alive /\ mode # "drop"
    /\ spc[s] = "idle"
    /\ status[r] = "new"
    /\ rr' = rr + 1
    /\ slot' = [slot EXCEPT ![r] = rr % NumWorkers]
    /\ req' = [req EXCEPT ![s] = r]
    /\ spc' = [spc EXCEPT ![s] = "lock"]
    /\ status' = [status EXCEPT ![r] = "spawning"]
    /\ UNCHANGED <<traces, tx, txOwner, queue, workers, control>>

\* Mutant: a taken sender is not recognised as shutdown.
LockSenderUnchecked(s) ==
    /\ Alive
    /\ spc[s] = "lock"
    /\ txOwner[slot[req[s]]] = None
    /\ spc' = [spc EXCEPT ![s] = "trace"]
    /\ txOwner' = [txOwner EXCEPT ![slot[req[s]]] = s]
    /\ UNCHANGED <<rr, traces, req, slot, tx, queue, workers, status, control>>

\* Lock the sender; a taken sender means the dispatcher is shutting down.
LockSender(s) ==
    LET r == req[s] IN
    LET i == slot[r] IN
    /\ Alive
    /\ spc[s] = "lock"
    /\ txOwner[i] = None
    /\ IF tx[i] = "open"
       THEN /\ spc' = [spc EXCEPT ![s] = "trace"]
            /\ txOwner' = [txOwner EXCEPT ![i] = s]
            /\ UNCHANGED status
       ELSE /\ spc' = [spc EXCEPT ![s] = "idle"]
            /\ status' = [status EXCEPT ![r] = "shutdown"]
            /\ UNCHANGED txOwner
    /\ UNCHANGED <<rr, traces, req, slot, tx, queue, workers, control>>

\* push_back, then pop_front while traces.len() > max_traces.
PushTrace(ts, r) ==
    LET all == Append(ts, r)
        excess == IF Len(all) > MaxTraces THEN Len(all) - MaxTraces ELSE 0
    IN  SubSeq(all, excess + 1, Len(all))

\* The trace is recorded before the handler is accepted or refused.
RecordTrace(s) ==
    /\ Alive
    /\ spc[s] = "trace"
    /\ traces' = PushTrace(traces, req[s])
    /\ spc' = [spc EXCEPT ![s] = "send"]
    /\ UNCHANGED <<rr, req, slot, tx, txOwner, queue, workers, status, control>>

\* Mutant: the handler is enqueued, then the bound is tested.
TrySendThenTest(s) ==
    LET r == req[s] IN
    LET i == slot[r] IN
    /\ Alive
    /\ spc[s] = "send"
    /\ spc' = [spc EXCEPT ![s] = "idle"]
    /\ txOwner' = [txOwner EXCEPT ![i] = None]
    /\ queue' = [queue EXCEPT ![i] = Append(@, r)]
    /\ status' = [status EXCEPT ![r] =
                     IF Len(queue[i]) >= MaxQueueDepth THEN "full" ELSE "queued"]
    /\ UNCHANGED <<rr, traces, req, slot, tx, workers, control>>

\* Mutant: a blocking send under the sender's mutex.
BlockingSend(s) ==
    LET r == req[s] IN
    LET i == slot[r] IN
    /\ Alive
    /\ spc[s] = "send"
    /\ Len(queue[i]) < MaxQueueDepth
    /\ spc' = [spc EXCEPT ![s] = "idle"]
    /\ txOwner' = [txOwner EXCEPT ![i] = None]
    /\ status' = [status EXCEPT ![r] = "queued"]
    /\ queue' = [queue EXCEPT ![i] = Append(@, r)]
    /\ UNCHANGED <<rr, traces, req, slot, tx, workers, control>>

\* try_send: Disconnected when the worker dropped its receiver, Full at the
\* bound, Ok otherwise; the sender's mutex is released on return.
TrySend(s) ==
    LET r == req[s] IN
    LET i == slot[r] IN
    /\ Alive
    /\ spc[s] = "send"
    /\ spc' = [spc EXCEPT ![s] = "idle"]
    /\ txOwner' = [txOwner EXCEPT ![i] = None]
    /\ \/ /\ wpc[i] = "exited"
          /\ status' = [status EXCEPT ![r] = "shutdown"]
          /\ UNCHANGED queue
       \/ /\ wpc[i] # "exited"
          /\ Len(queue[i]) >= MaxQueueDepth
          /\ status' = [status EXCEPT ![r] = "full"]
          /\ UNCHANGED queue
       \/ /\ wpc[i] # "exited"
          /\ Len(queue[i]) < MaxQueueDepth
          /\ status' = [status EXCEPT ![r] = "queued"]
          /\ queue' = [queue EXCEPT ![i] = Append(@, r)]
    /\ UNCHANGED <<rr, traces, req, slot, tx, workers, control>>

-----------------------------------------------------------------------------
(* Worker threads *)

\* The receiver is dropped with the thread, and what is in the channel with it.
Exit(i) ==
    /\ wpc' = [wpc EXCEPT ![i] = "exited"]
    /\ queue' = [queue EXCEPT ![i] = <<>>]
    /\ status' = [r \in Requests |->
                    IF \E k \in 1 .. Len(queue[i]) : queue[i][k] = r
                    THEN "dropped" ELSE status[r]]

\* while !shutdown.load()
CheckFlag(i) ==
    /\ Alive
    /\ wpc[i] = "check"
    /\ IF flag = "stop"
       THEN Exit(i)
       ELSE wpc' = [wpc EXCEPT ![i] = "recv"] /\ UNCHANGED <<queue, status>>
    /\ UNCHANGED <<submit, tx, txOwner, running, control>>

\* recv_timeout: a handler ...
Receive(i) ==
    /\ Alive
    /\ wpc[i] = "recv"
    /\ queue[i] # <<>>
    /\ wpc' = [wpc EXCEPT ![i] = "run"]
    /\ running' = [running EXCEPT ![i] = Head(queue[i])]
    /\ status' = [status EXCEPT ![Head(queue[i])] = "running"]
    /\ queue' = [queue EXCEPT ![i] = Tail(@)]
    /\ UNCHANGED <<submit, tx, txOwner, control>>

\* ... or the timeout ...
ReceiveTimeout(i) ==
    /\ Alive
    /\ wpc[i] = "recv"
    /\ queue[i] = <<>>
    /\ tx[i] = "open"
    /\ wpc' = [wpc EXCEPT ![i] = "check"]
    /\ UNCHANGED <<submit, tx, txOwner, queue, running, status, control>>

\* ... or Disconnected: the sender is gone and the channel is empty.
ReceiveDisconnected(i) ==
    /\ Alive
    /\ wpc[i] = "recv"
    /\ queue[i] = <<>>
    /\ tx[i] = "closed"
    /\ Exit(i)
    /\ UNCHANGED <<submit, tx, txOwner, running, control>>

\* Mutant: without catch_unwind a panic ends the thread.
FinishOrDie(i, outcome) ==
    /\ Alive
    /\ wpc[i] = "run"
    /\ wpc' = [wpc EXCEPT ![i] = IF outcome = "panicked" THEN "exited" ELSE "check"]
    /\ status' = [status EXCEPT ![running[i]] = outcome]
    /\ running' = [running EXCEPT ![i] = None]
    /\ UNCHANGED <<submit, tx, txOwner, queue, control>>

\* The handler returns, or panics inside catch_unwind.
Finish(i, outcome) ==
    /\ Alive
    /\ wpc[i] = "run"
    /\ wpc' = [wpc EXCEPT ![i] = "check"]
    /\ status' = [status EXCEPT ![running[i]] = outcome]
    /\ running' = [running EXCEPT ![i] = None]
    /\ UNCHANGED <<submit, tx, txOwner, queue, control>>

-----------------------------------------------------------------------------
(* shutdown() and Drop *)

\* shutdown(&self) may run beside submitters.
BeginShutdown ==
    /\ cpc = "up"
    /\ mode = "none"
    /\ mode' = "shutdown"
    /\ flag' = "stop"
    /\ cpc' = "closing"
    /\ UNCHANGED <<submit, tx, txOwner, queue, workers, status, cidx>>

\* drop(&mut self) excludes every submitter.
BeginDrop ==
    /\ cpc = "up"
    /\ \A s \in Submitters : spc[s] = "idle"
    /\ mode' = "drop"
    /\ flag' = "stop"
    /\ cpc' = "closing"
    /\ UNCHANGED <<submit, tx, txOwner, queue, workers, status, cidx>>

\* Mutant: a sender that shutdown() already took is waited for.
CloseSenderOnce ==
    /\ cpc = "closing"
    /\ cidx < NumWorkers
    /\ txOwner[cidx] = None
    /\ tx[cidx] = "open"
    /\ tx' = [tx EXCEPT ![cidx] = "closed"]
    /\ cidx' = cidx + 1
    /\ UNCHANGED <<submit, txOwner, queue, workers, status, flag, cpc, mode>>

\* tx.lock().take(), channel after channel.
CloseSender ==
    /\ cpc = "closing"
    /\ cidx < NumWorkers
    /\ txOwner[cidx] = None
    /\ tx' = [tx EXCEPT ![cidx] = "closed"]
    /\ cidx' = cidx + 1
    /\ UNCHANGED <<submit, txOwner, queue, workers, status, flag, cpc, mode>>

\* shutdown() sleeps and returns; drop() goes on to the join loop.
SendersClosed ==
    /\ cpc = "closing"
    /\ cidx = NumWorkers
    /\ cpc' = IF mode = "drop" THEN "joining" ELSE "up"
    /\ cidx' = 0
    /\ UNCHANGED <<submit, tx, txOwner, queue, workers, status, flag, mode>>

\* Mutant: the handles are dropped without joining them.
JoinNothing ==
    /\ cpc = "joining"
    /\ cidx < NumWorkers
    /\ cidx' = cidx + 1
    /\ UNCHANGED <<submit, tx, txOwner, queue, workers, status, flag, cpc, mode>>

\* handle.join() has no timeout.
Join ==
    /\ cpc = "joining"
    /\ cidx < NumWorkers
    /\ wpc[cidx] = "exited"
    /\ cidx' = cidx + 1
    /\ UNCHANGED <<submit, tx, txOwner, queue, workers, status, flag, cpc, mode>>

\* The ten seconds were used up by the joins before this one: the remaining
\* workers are detached.
Detach ==
    /\ cpc = "joining"
    /\ cidx \in 1 .. NumWorkers - 1
    /\ cpc' = "detached"
    /\ UNCHANGED <<submit, tx, txOwner, queue, workers, status, flag, cidx, mode>>

ProcessExit ==
    /\ \/ cpc = "joining" /\ cidx = NumWorkers
       \/ cpc = "detached"
    /\ cpc' = "gone"
    /\ UNCHANGED <<submit, tx, txOwner, queue, workers, status, flag, cidx, mode>>

-----------------------------------------------------------------------------
\* Requests are interchangeable: the next one spawned is a fixed unused one.
Fresh == {r \in Requests : status[r] = "new" /\ r = CHOOSE q \in Requests : status[q] = "new"}

Spawn(s) == LockSender(s) \/ RecordTrace(s) \/ TrySend(s)

Loop(i) == CheckFlag(i) \/ Receive(i) \/ ReceiveTimeout(i) \/ ReceiveDisconnected(i)

Return(i) == \E outcome \in Outcomes : Finish(i, outcome)

Stopping == CloseSender \/ SendersClosed \/ Join \/ ProcessExit

Next ==
    \/ \E s \in Submitters : Spawn(s) \/ \E r \in Fresh : SelectWorker(s, r)
    \/ \E i \in Idx : Loop(i) \/ Return(i)
    \/ BeginShutdown \/ BeginDrop \/ Stopping \/ Detach

Spec == Init /\ [][Next]_vars

\* Threads are scheduled; handlers return on the healthy workers only.
Fairness ==
    /\ \A s \in Submitters : WF_vars(Spawn(s))
    /\ \A i \in Idx : WF_vars(Loop(i))
    /\ \A i \in Healthy : WF_vars(Return(i))
    /\ WF_vars(Stopping)

FairSpec == Spec /\ Fairness

-----------------------------------------------------------------------------
(* Properties *)

TypeOK ==
    /\ rr \in Nat
    /\ tx \in [Idx -> {"open", "closed"}]
    /\ txOwner \in [Idx -> Submitters \union {None}]
    /\ queue \in [Idx -> Seq(Requests)]
    /\ traces \in Seq(Requests)
    /\ flag \in {"run", "stop"}
    /\ wpc \in [Idx -> {"check", "recv", "run", "exited"}]
    /\ running \in [Idx -> Requests \union {None}]
    /\ spc \in [Submitters -> {"idle", "lock", "trace", "send"}]
    /\ req \in [Submitters -> Requests \union {None}]
    /\ slot \in [Requests -> Idx \union {None}]
    /\ status \in [Requests -> Statuses]
    /\ cpc \in {"up", "closing", "joining", "detached", "gone"}
    /\ cidx \in 0 .. NumWorkers
    /\ mode \in {"none", "shutdown", "drop"}

\* Where a handler is: on a channel position of a worker.
Waits(r, i, k) == k \in 1 .. Len(queue[i]) /\ queue[i][k] = r

\* Every request is in one place: a queued one at one position of the channel
\* it was sent to, a running one on that channel's worker only, and a refused,
\* dropped or finished one nowhere.  So no handler runs twice, and none that
\* was answered "queue full" runs at all.
OnePlace ==
    \A r \in Requests, i \in Idx :
        /\ \A k \in 1 .. Len(queue[i]) :
             Waits(r, i, k) =>
                /\ status[r] = "queued"
                /\ slot[r] = i
                /\ \A l \in 1 .. Len(queue[i]) : Waits(r, i, l) => l = k
        /\ running[i] = r => status[r] = "running" /\ slot[r] = i

\* No channel exceeds its bound and no trace beyond the newest max_traces is
\* kept, however many threads submit at once.
Bounded ==
    /\ \A i \in Idx : Len(queue[i]) <= MaxQueueDepth
    /\ Len(traces) <= MaxTraces

\* Round robin stays even under concurrent submitters.
EvenDistribution ==
    LET load(i) == Cardinality({r \in Requests : slot[r] = i})
    IN  \A i, j \in Idx : load(i) <= load(j) + 1

\* When every worker could be joined, no handler is cut off by process exit.
InFlightCompletes ==
    cpc = "gone" /\ cidx = NumWorkers => \A r \in Requests : status[r] # "running"

\* No request is accepted on a channel whose sender shutdown() or Drop already
\* took, although the test for it and the send are separate steps of spawn.
NoAcceptAfterClose ==
    [][\A r \in Requests :
         status[r] # "queued" /\ status'[r] = "queued" => tx[slot[r]] = "open"]_vars

\* spawn returns although handlers may hang and channels may be full: the
\* reader thread never blocks behind a worker.
SpawnReturns == \A s \in Submitters : spc[s] # "idle" ~> spc[s] = "idle"

\* Closing the channels never waits for a full channel or a hung handler.
ClosingEnds == cpc = "closing" ~> cpc # "closing"

\* A hung handler delays only requests of its own worker: what was queued for
\* a healthy worker leaves the queue and ends.
HealthyProgress ==
    \A r \in Requests :
        status[r] \in {"queued", "running"} /\ slot[r] \in Healthy
            ~> status[r] \notin {"queued", "running"} \/ cpc = "gone"

\* Dropping the dispatcher ends, also after an earlier shutdown(), unless a
\* handler that never returns is running: only such a handler can hold the
\* joins up.
DropReturns == mode = "drop" ~> cpc = "gone" \/ \E i \in Idx \ Healthy : wpc[i] = "run"
=============================================================================
