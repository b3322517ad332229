--------------------------- MODULE BufferedStore ----------------------------
(***************************************************************************)
(* The buffered persistence adapter: writes are queued in memory, a flush  *)
(* takes the queue and applies it as one SQLite transaction with up to     *)
(* MAX_RETRIES attempts, and a batch that fails goes back to the front.    *)
(* clear_file edits the queue and the database at once.  Threads share the *)
(* queue and the store, each behind its own mutex.                         *)
(*                                                                         *)
(* An append names its context by the id save_context returned, which is a *)
(* function of the source alone; the row's real id also names the file     *)
(* when another file has that source.                                      *)
(***************************************************************************)
EXTENDS Naturals, Sequences, SequencesExt, FiniteSets

CONSTANTS
    Threads, StoreFiles,
    SourceHashes,
    Nobody,
    MaxRetries,     \* MAX_RETRIES
    MaxOps,         \* bound: operations queued
    MaxClears,      \* bound: calls of clear_file
    MaxFaults,      \* bound: attempts that fail in SQLite
    Flushers        \* threads that flush

\* One lifecycle owner flushes.
ASSUME FlusherAssumption == \A t, u \in Flushers : t = u

ASSUME NobodyAssumption == Nobody \notin StoreFiles

VARIABLES
    pending,    \* the queue
    table,      \* committed rows: file -> Nobody or [id, source, writes]
    open,       \* Nobody, or the rows of a transaction whose COMMIT failed
    thread,     \* thread -> [pc, batch, tries, ids, file] and histories, below
    faults, clears, nextOp,
    applied,    \* history: operations of committed batches, in order
    swallowed,  \* history: queued clears that a committed batch went on without
    dropped,    \* history: operations clear_file took out of the queue
    erased      \* history: operations an undisturbed clear_file covered

storeVars == <<pending, table, open, thread, faults, clears, nextOp, applied,
               swallowed, dropped, erased>>

IdleThread == [pc |-> "idle", batch |-> <<>>, tries |-> 0, ids |-> {},
               file |-> Nobody,
               covers |-> {},       \* history: what the clear_file call covers
               raced |-> FALSE]     \* history: it is disturbed, see ClearLookup

StoreInit ==
    /\ pending = <<>> /\ table = [f \in StoreFiles |-> Nobody] /\ open = Nobody
    /\ thread = [t \in Threads |-> IdleThread]
    /\ faults = 0 /\ clears = 0 /\ nextOp = 0
    /\ applied = <<>> /\ swallowed = {} /\ dropped = {} /\ erased = {}

-----------------------------------------------------------------------------
(* The SQLite operations of a batch; Nobody as a table is a failure *)

ContextId(source) == <<source>>

\* save_context replaces the file's row; the id is qualified on a collision.
SaveRow(rows, op) ==
    LET taken == \E f \in StoreFiles \ {op.file} :
                    rows[f] # Nobody /\ rows[f].id = ContextId(op.source)
    IN  [rows EXCEPT ![op.file] =
           [id |-> IF taken THEN <<op.source, op.file>> ELSE ContextId(op.source),
            source |-> op.source, writes |-> <<op.n>>]]

\* append_delta: an unknown context is an error.
AppendRow(rows, op) ==
    LET owner == {f \in StoreFiles : rows[f] # Nobody /\ rows[f].id = ContextId(op.source)}
    IN  IF owner = {} THEN Nobody
        ELSE [f \in StoreFiles |->
                IF f \in owner THEN [rows[f] EXCEPT !.writes = Append(@, op.n)] ELSE rows[f]]

ClearRow(rows, f) == [rows EXCEPT ![f] = Nobody]

ApplyOp(rows, op) ==
    IF rows = Nobody THEN Nobody
    ELSE CASE op.kind = "save"    -> SaveRow(rows, op)
           [] op.kind = "append"  -> AppendRow(rows, op)
           [] op.kind = "clear"   -> ClearRow(rows, op.file)

ApplyBatch(rows, ops) ==
    LET after[i \in 0..Len(ops)] == IF i = 0 THEN rows ELSE ApplyOp(after[i - 1], ops[i])
    IN  after[Len(ops)]

-----------------------------------------------------------------------------
(* Queueing: queue_save_context, queue_append_delta, queue_clear_file and  *)
(* the ContextStore methods of the same effect                             *)

Enqueue(kind, f, s) ==
    /\ nextOp < MaxOps
    /\ nextOp' = nextOp + 1
    /\ pending' = Append(pending, [n |-> nextOp, kind |-> kind, file |-> f, source |-> s])
    /\ UNCHANGED <<table, open, thread, faults, clears, applied, swallowed, dropped, erased>>

QueueSave(f, s) == Enqueue("save", f, s)

\* The rows this connection reads: nothing ends the open transaction.
Visible == IF open = Nobody THEN table ELSE open

\* The caller appends to the context it saved last (queued, in flight or
\* committed) unless it cleared the file since.
BasesIn(ops, f) == SelectSeq(ops, LAMBDA op : op.kind # "append" /\ op.file = f)

LastSource(f) ==
    LET flying == {t \in Threads : BasesIn(thread[t].batch, f) # <<>>} IN
    IF BasesIn(pending, f) # <<>> THEN {Last(BasesIn(pending, f)).source}
    ELSE IF flying # {} THEN {Last(BasesIn(thread[t].batch, f)).source : t \in flying}
    ELSE IF Visible[f] # Nobody THEN {Visible[f].source} ELSE {}

QueueAppend(f, s) == s \in LastSource(f) /\ Enqueue("append", f, s)

QueueClear(f) == Enqueue("clear", f, Nobody)

-----------------------------------------------------------------------------
(* flush *)

To(t, r) == thread' = [thread EXCEPT ![t] = r]

\* The queue is drained in one critical section.
FlushTake(t) ==
    /\ t \in Flushers /\ thread[t].pc = "idle" /\ pending # <<>>
    /\ thread' = [u \in Threads |->
                    IF u = t THEN [IdleThread EXCEPT !.pc = "flush", !.batch = pending]
                    ELSE [thread[u] EXCEPT !.raced = @ \/ thread[u].file # Nobody]]
    /\ pending' = <<>>
    /\ UNCHANGED <<table, open, faults, clears, nextOp, applied, swallowed, dropped, erased>>

\* A sequence without some of its elements (Vec::retain, or statements that had
\* no effect).
Without(ops, out) ==
    LET kept[i \in 0..Len(ops)] ==
            IF i = 0 THEN <<>>
            ELSE IF ops[i] \in out THEN kept[i - 1] ELSE Append(kept[i - 1], ops[i])
    IN  kept[Len(ops)]

\* clear_file's statements may fail: that is logged, counted as flushed, and
\* the batch goes on.
Swallowable(ops) ==
    {lost \in SUBSET {op \in ToSet(ops) : op.kind = "clear"} : faults + Cardinality(lost) <= MaxFaults}

Numbers(ops) == [i \in 1..Len(ops) |-> ops[i].n]

\* One attempt of try_flush_ops under the store's mutex succeeds.
FlushCommit(t) ==
    /\ thread[t].pc = "flush" /\ open = Nobody
    /\ \E lost \in Swallowable(thread[t].batch) :
          LET done == Without(thread[t].batch, lost) IN
          /\ ApplyBatch(table, done) # Nobody
          /\ table' = ApplyBatch(table, done)
          /\ applied' = applied \o Numbers(done)
          /\ swallowed' = swallowed \union lost
          /\ faults' = faults + Cardinality(lost)
    /\ To(t, IdleThread)
    /\ UNCHANGED <<pending, open, clears, nextOp, dropped, erased>>

\* Mutant: the batch goes behind what was queued meanwhile.
RequeueBehind(batch) == pending \o batch

Requeue(batch) == batch \o pending

\* After the last attempt the batch is spliced back to the front.
AttemptFailed(t) ==
    IF thread[t].tries + 1 < MaxRetries
    THEN /\ To(t, [thread[t] EXCEPT !.tries = @ + 1])
         /\ UNCHANGED pending
    ELSE /\ To(t, IdleThread)
         /\ pending' = Requeue(thread[t].batch)

\* An operation fails and is rolled back, or BEGIN fails inside the open
\* transaction.
FlushRefused(t) ==
    /\ thread[t].pc = "flush"
    /\ open # Nobody \/ ApplyBatch(table, thread[t].batch) = Nobody
    /\ AttemptFailed(t)
    /\ UNCHANGED <<table, open, faults, clears, nextOp, applied, swallowed, dropped, erased>>

\* SQLite is busy: BEGIN, a save or an append fails and nothing is changed, or
\* COMMIT fails and nothing is rolled back.
FlushFault(t) ==
    /\ thread[t].pc = "flush" /\ open = Nobody
    /\ \E lost \in Swallowable(thread[t].batch) :
          /\ faults + Cardinality(lost) < MaxFaults
          /\ faults' = faults + Cardinality(lost) + 1
          /\ open' \in {Nobody, ApplyBatch(table, Without(thread[t].batch, lost))}
    /\ AttemptFailed(t)
    /\ UNCHANGED <<table, clears, nextOp, applied, swallowed, dropped, erased>>

-----------------------------------------------------------------------------
(* clear_file: three critical sections *)

ContextIds(f) == IF Visible[f] = Nobody THEN {} ELSE {Visible[f].source}

QueuedIds(f) ==
    {pending[i].source : i \in {j \in 1..Len(pending) :
        pending[j].kind = "save" /\ pending[j].file = f}}

\* What the queue holds of a file: its saves and clears, and the appends to a
\* context of the file that is stored or queued.
Queued(f) ==
    {pending[i].n : i \in {j \in 1..Len(pending) :
        /\ pending[j].file = f
        /\ pending[j].kind = "append" => pending[j].source \in ContextIds(f) \union QueuedIds(f)}}

\* The stored context's id is looked up, through the open transaction when there
\* is one; an error counts as no context.
ClearLookup(t, f) ==
    /\ thread[t].pc = "idle" /\ clears < MaxClears
    /\ clears' = clears + 1
    /\ \E error \in {FALSE, faults < MaxFaults} :
          /\ faults' = IF error THEN faults + 1 ELSE faults
          /\ To(t, [IdleThread EXCEPT
                      !.pc = "clearQueue", !.file = f,
                      !.ids = IF error THEN {} ELSE ContextIds(f),
                      !.covers = Queued(f),
                      !.raced = \/ error \/ open # Nobody
                                \/ \E u \in Threads : thread[u].pc = "flush"])
    /\ UNCHANGED <<pending, table, open, nextOp, applied, swallowed, dropped, erased>>

\* Mutant: only the ids still in the queue count as owned.
OwnedQueuedIds(t) == QueuedIds(thread[t].file)

OwnedIds(t) == thread[t].ids \union QueuedIds(thread[t].file)

Retained(t, op) ==
    IF op.kind = "append" THEN op.source \notin OwnedIds(t) ELSE op.file # thread[t].file

Cleared(t) == {op \in ToSet(pending) : ~Retained(t, op)}

ClearQueue(t) ==
    /\ thread[t].pc = "clearQueue"
    /\ pending' = Without(pending, Cleared(t))
    /\ dropped' = dropped \union {op.n : op \in Cleared(t)}
    /\ To(t, [thread[t] EXCEPT !.pc = "clearRows"])
    /\ UNCHANGED <<table, open, faults, clears, nextOp, applied, swallowed, erased>>

\* The rows are deleted, inside the open transaction when there is one; a
\* failure is only logged.
ClearRows(t) ==
    /\ thread[t].pc = "clearRows"
    /\ \E error \in {FALSE, faults < MaxFaults} :
          /\ faults' = IF error THEN faults + 1 ELSE faults
          /\ table' = IF error \/ open # Nobody THEN table ELSE ClearRow(table, thread[t].file)
          /\ open' = IF error \/ open = Nobody THEN open ELSE ClearRow(open, thread[t].file)
    /\ erased' = IF thread[t].raced THEN erased ELSE erased \union thread[t].covers
    /\ To(t, IdleThread)
    /\ UNCHANGED <<pending, clears, nextOp, applied, swallowed, dropped>>

StoreNext ==
    \/ \E f \in StoreFiles, s \in SourceHashes : QueueSave(f, s) \/ QueueAppend(f, s)
    \/ \E f \in StoreFiles : QueueClear(f)
    \/ \E t \in Threads :
          \/ FlushTake(t) \/ FlushCommit(t) \/ FlushRefused(t) \/ FlushFault(t)
          \/ (\E f \in StoreFiles : ClearLookup(t, f)) \/ ClearQueue(t) \/ ClearRows(t)

StoreSpec == StoreInit /\ [][StoreNext]_storeVars
-----------------------------------------------------------------------------
(* Properties *)

\* The batch in flight: there is one flusher.
Batch ==
    LET flying == {t \in Threads : thread[t].batch # <<>>}
    IN  IF flying = {} THEN <<>> ELSE thread[CHOOSE t \in flying : TRUE].batch

\* Everything accepted, from the first write committed to the last one queued.
Trail == applied \o Numbers(Batch) \o Numbers(pending)

\* Every accepted write has taken effect in a committed batch, is in flight, is
\* queued, was taken out by clear_file, or is a queued clear whose statement
\* failed: exactly one of these, and writes take effect in the order in which
\* they were accepted, whatever fails and is retried.  Only clears are lost,
\* and the committed rows show no write of a batch that failed (flush).
AcceptedOnceInOrder ==
    LET lost == {op.n : op \in swallowed} IN
    /\ \A i, j \in 1..Len(Trail) : i < j => Trail[i] < Trail[j]
    /\ ToSet(Trail) \union lost \union dropped = 0..(nextOp - 1)
    /\ ToSet(Trail) \intersect (lost \union dropped) = {} /\ lost \intersect dropped = {}
    /\ \A op \in swallowed : op.kind = "clear"
    /\ \A f \in StoreFiles : table[f] # Nobody => ToSet(table[f].writes) \subseteq ToSet(applied)

\* What the queue held of a file when clear_file looked does not come back: it is
\* neither committed nor queued nor in a batch, whatever fails later
\* (clear_file).  The call is an undisturbed one: its lookup succeeded, no flush
\* ran beside it and no failed COMMIT had left a transaction open; in that last
\* case an append to a context the transaction replaced stays queued.  An append
\* queued between the second and the third section is not covered: the third
\* deletes the context it names, and then no call owns it.
ClearedStaysCleared ==
    /\ \A ops \in {pending} \union {thread[t].batch : t \in Threads} :
          erased \intersect ToSet(Numbers(ops)) = {}
    /\ \A f \in StoreFiles : table[f] # Nobody => erased \intersect ToSet(table[f].writes) = {}
=============================================================================
