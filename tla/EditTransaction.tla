--------------------------- MODULE EditTransaction ---------------------------
(***************************************************************************)
(* The crash-recoverable commit of apply_edit, for one source file that is *)
(* tracked at Edit fidelity with the SQLite store open.                    *)
(*                                                                         *)
(* Three authorities describe the file: the bytes on disk, the durable     *)
(* context in SQLite and the live context in memory.  apply_edit moves all *)
(* three under the protection of a durable edit intent; every handler that *)
(* is about to publish first resolves a pending intent (recover_pending_   *)
(* edit).  Handlers run on the dispatcher's worker threads, so the steps   *)
(* of several of them interleave; the process may crash between any two    *)
(* steps; an editor outside the server may rewrite the file at any time;   *)
(* and every file-system or SQLite call may fail.                          *)
(*                                                                         *)
(* Bytes, their SHA-256 and their compilation are one abstract Content:    *)
(* equal hashes mean equal bytes, and a compilation is a function of them. *)
(***************************************************************************)
EXTENDS Naturals

CONSTANTS
    Workers,       \* dispatcher worker threads
    Contents,      \* the possible contents of the source file
    None,          \* absence of an intent, of live state, of a lock owner
    MaxGen,        \* bound: tickets drawn per incarnation of the process
    MaxAdversity   \* bound: crashes + external writes + failed I/O calls

Contexts == [source: Contents, version: Nat]

Intents == [prior: Contents, target: Contexts, stage: Workers]

ASSUME NoneAssumption ==
    None \notin Workers /\ None \notin Contexts /\ None \notin Intents

ASSUME BoundAssumption == MaxGen \in Nat /\ MaxAdversity \in Nat

VARIABLES
    disk,        \* bytes of the source file
    intent,      \* the edit_intents row of the file
    stage,       \* stage[w]: the temporary file of w's edit exists
    durable,     \* the contexts/snapshot rows of the file
    writer,      \* history: who wrote the current bytes of the file
    adversity,   \* crashes, external writes and I/O failures so far
    live,        \* the entry of McpState.ir_context, edges and index
    nextGen,     \* SemanticPublicationClock.next_generation
    committed,   \* SemanticPublicationClock.committed_generation
    clockOwner,  \* holder of the publication clock mutex
    storeOwner,  \* holder of the persistence_store mutex
    pc,          \* the step each worker is about to take
    op,          \* the operation it runs
    gen,         \* the generation of its ticket
    src,         \* the source bytes it read
    cand         \* the context it validates against, then will publish

onDisk == <<disk, intent, stage, durable, writer>>
shared == <<live, nextGen, committed>>
locks  == <<clockOwner, storeOwner>>
locals == <<op, gen, src, cand>>
vars   == <<onDisk, adversity, shared, locks, pc, locals>>

\* An outside editor wrote the current bytes.
Foreign == writer = "editor"

Ops == {"edit", "provide", "restore"}

\* The steps a worker takes while it holds the persistence_store mutex.
StoreSteps == {"clearPrior", "commitTarget", "clearTarget", "clearCommit"}

\* The steps of apply_edit after its intent was established.
IntentSteps == {"rename", "save", "clearCommit", "restorePrior", "clearAbort"}

\* The steps a worker takes while it holds the publication clock.
ClockSteps == IntentSteps \union {"stage", "establish", "baseline", "publish"}

\* Every other step of an operation.
FreeSteps == {"idle", "recover", "hydrate", "hydrateCheck", "hydratePublish",
              "read", "checkLive", "checkDurable", "compile", "reread",
              "load", "validate", "commit"}

Steps == FreeSteps \union ClockSteps \union StoreSteps

Init ==
    /\ disk \in Contents
    /\ intent = None
    /\ stage = [w \in Workers |-> FALSE]
    /\ durable = [source |-> disk, version |-> 1]
    /\ writer = "server"
    /\ adversity = 0
    /\ live \in {None, durable}
    /\ nextGen = 0
    /\ committed = 0
    /\ clockOwner = None
    /\ storeOwner = None
    /\ pc = [w \in Workers |-> "idle"]
    /\ op = [w \in Workers |-> "provide"]
    /\ gen = [w \in Workers |-> 0]
    /\ src = [w \in Workers |-> disk]
    /\ cand = [w \in Workers |-> durable]

-----------------------------------------------------------------------------
(* Control-flow helpers *)

Goto(w, from, to) == pc[w] = from /\ pc' = [pc EXCEPT ![w] = to]

ClockFree == clockOwner = None
StoreFree == storeOwner = None

\* state.file_version(alias).unwrap_or(0)
LiveVersion == IF live = None THEN 0 ELSE live.version

\* begin_semantic_publication
DrawTicket(w) ==
    /\ ClockFree
    /\ nextGen' = nextGen + 1
    /\ gen' = [gen EXCEPT ![w] = nextGen + 1]

\* save_context_transaction replaces the one baseline of a file atomically.
SaveContext(c) == durable' = c

\* load_durable_context: the baseline, whose delta chain is empty here.
LoadDurableContext == durable

\* The guards a returning handler drops.
Release(w) ==
    /\ clockOwner' = IF clockOwner = w THEN None ELSE clockOwner
    /\ storeOwner' = IF storeOwner = w THEN None ELSE storeOwner

-----------------------------------------------------------------------------
(* Common prologue: ticket, then recovery of a pending edit intent *)

\* An operation passes its parameter gates and draws its ticket.  apply_edit
\* requires a tracked file (has_file).
Begin(w, o) ==
    /\ Goto(w, "idle", "recover")
    /\ nextGen < MaxGen
    /\ o = "edit" => live # None
    /\ DrawTicket(w)
    /\ op' = [op EXCEPT ![w] = o]
    /\ UNCHANGED <<onDisk, adversity, live, committed, locks, src, cand>>

\* Where an operation continues when recovery found nothing to do ...
AfterNone(w) == IF op[w] = "restore" THEN "load" ELSE "read"
\* ... restored the prior bytes (preflight hydrates, edit and restore go on) ...
AfterPrior(w) == IF op[w] = "provide" THEN "hydrate" ELSE AfterNone(w)
\* ... or committed the target (apply_edit answers "restore_context is required").
AfterTarget(w) == IF op[w] = "edit" THEN "idle" ELSE AfterPrior(w)

\* recover_edit_intent without an intent row: EditRecovery::None.
RecoverNone(w) ==
    /\ Goto(w, "recover", AfterNone(w))
    /\ StoreFree
    /\ intent = None
    /\ UNCHANGED <<onDisk, adversity, shared, locks, locals>>

\* recover_edit_intent compares the file with the intent; the store mutex
\* stays held until it returns, the file may still change.
RecoverInspect(w) ==
    /\ pc[w] = "recover"
    /\ StoreFree
    /\ intent # None
    /\ IF disk = intent.prior
       THEN Goto(w, "recover", "clearPrior") /\ storeOwner' = w
       ELSE IF disk = intent.target.source
            THEN Goto(w, "recover", "commitTarget") /\ storeOwner' = w
            ELSE Goto(w, "recover", "idle") /\ UNCHANGED storeOwner
    /\ UNCHANGED <<onDisk, adversity, shared, clockOwner, locals>>

\* Mutant: recovery returns with the store mutex still held.
ClearRecoveredLeak(w, from, to) ==
    /\ Goto(w, from, to)
    /\ stage' = [stage EXCEPT ![intent.stage] = FALSE]
    /\ intent' = None
    /\ UNCHANGED <<disk, durable, writer, adversity, shared, locks, locals>>

\* clear_edit_intent and remove_stage end a recovery.
ClearRecovered(w, from, to) ==
    /\ Goto(w, from, to)
    /\ stage' = [stage EXCEPT ![intent.stage] = FALSE]
    /\ intent' = None
    /\ storeOwner' = None
    /\ UNCHANGED <<disk, durable, writer, adversity, shared, clockOwner, locals>>

RecoverClearPrior(w) == ClearRecovered(w, "clearPrior", AfterPrior(w))

RecoverClearTarget(w) == ClearRecovered(w, "clearTarget", AfterTarget(w))

\* save_context_with_compatibility of the intent's target.
RecoverCommitTarget(w) ==
    /\ Goto(w, "commitTarget", "clearTarget")
    /\ SaveContext(intent.target)
    /\ UNCHANGED <<disk, intent, stage, writer, adversity, shared, locks, locals>>

-----------------------------------------------------------------------------
(* hydrate_recovered_durable_state, after a recovery inside a preflight *)

HydrateLoad(w) ==
    /\ Goto(w, "hydrate", "hydrateCheck")
    /\ StoreFree
    /\ cand' = [cand EXCEPT ![w] = LoadDurableContext]
    /\ UNCHANGED <<onDisk, adversity, shared, locks, op, gen, src>>

\* read_source and validate_current_context; an incompatible durable context
\* is silently not adopted.
HydrateCheck(w) ==
    /\ Goto(w, "hydrateCheck",
            IF disk = cand[w].source THEN "hydratePublish" ELSE "read")
    /\ UNCHANGED <<onDisk, adversity, shared, locks, locals>>

\* with_semantic_authority_update: the clock is held, no generation is tested.
HydratePublish(w) ==
    /\ Goto(w, "hydratePublish", "read")
    /\ ClockFree
    /\ live' = cand[w]
    /\ UNCHANGED <<onDisk, adversity, nextGen, committed, locks, locals>>

-----------------------------------------------------------------------------
(* Candidate selection, outside every lock *)

ReadSource(w) ==
    /\ Goto(w, "read", IF op[w] = "edit" THEN "checkLive" ELSE "compile")
    /\ src' = [src EXCEPT ![w] = disk]
    /\ UNCHANGED <<onDisk, adversity, shared, locks, op, gen, cand>>

\* apply_edit captures the live hash and version.
CheckLive(w) ==
    /\ Goto(w, "checkLive", IF live = None THEN "idle" ELSE "checkDurable")
    /\ cand' = IF live = None THEN cand ELSE [cand EXCEPT ![w] = live]
    /\ UNCHANGED <<onDisk, adversity, shared, locks, op, gen, src>>

\* durable_source_hash, then the three-way source identity test.
CheckDurable(w) ==
    LET stored == LoadDurableContext
        agrees == /\ stored.version = cand[w].version
                  /\ src[w] = cand[w].source
                  /\ src[w] = stored.source
    IN  /\ Goto(w, "checkDurable", IF agrees THEN "compile" ELSE "idle")
        /\ StoreFree
        /\ UNCHANGED <<onDisk, adversity, shared, locks, locals>>

\* apply_edit: the operations turn the bytes read into t, whose version
\* follows the live one.
CompileEdit(w, t) ==
    /\ op[w] = "edit"
    /\ Goto(w, "compile", "commit")
    /\ cand' = [cand EXCEPT ![w] = [source |-> t, version |-> LiveVersion + 1]]
    /\ UNCHANGED <<onDisk, adversity, shared, locks, op, gen, src>>

\* is_source_unchanged
SourceUnchanged(w) == live # None /\ live.source = src[w]

\* provide_code_context reuses the live compilation of the bytes it read ...
ReuseLive(w) ==
    /\ op[w] = "provide"
    /\ SourceUnchanged(w)
    /\ Goto(w, "compile", "commit")
    /\ cand' = [cand EXCEPT ![w] = live]
    /\ UNCHANGED <<onDisk, adversity, shared, locks, op, gen, src>>

\* ... or takes the next version ...
CompileRead(w) ==
    /\ op[w] = "provide"
    /\ ~SourceUnchanged(w)
    /\ Goto(w, "compile", "reread")
    /\ cand' = [cand EXCEPT ![w] = [source |-> src[w], version |-> LiveVersion + 1]]
    /\ UNCHANGED <<onDisk, adversity, shared, locks, op, gen, src>>

\* ... and compiles the file, which it reads a second time.
RereadSource(w) ==
    /\ Goto(w, "reread", "commit")
    /\ src' = [src EXCEPT ![w] = disk]
    /\ cand' = [cand EXCEPT ![w].source = disk]
    /\ UNCHANGED <<onDisk, adversity, shared, locks, op, gen>>

\* restore_context loads the durable context ...
RestoreLoad(w) ==
    /\ Goto(w, "load", "validate")
    /\ StoreFree
    /\ cand' = [cand EXCEPT ![w] = LoadDurableContext]
    /\ UNCHANGED <<onDisk, adversity, shared, locks, op, gen, src>>

\* ... and adopts it only for the current source.
RestoreValidate(w) ==
    /\ Goto(w, "validate", IF disk = cand[w].source THEN "commit" ELSE "idle")
    /\ UNCHANGED <<onDisk, adversity, shared, locks, locals>>

-----------------------------------------------------------------------------
(* SemanticPublicationTicket::commit *)

\* Mutant: the source is not revalidated at the commit boundary.
MayCommitStale(w) == gen[w] > committed

\* Neither superseded by a newer generation nor built from other bytes;
\* restore passes source_is_current = true.
MayCommit(w) ==
    /\ gen[w] > committed
    /\ op[w] = "restore" \/ disk = src[w]

FirstPublishStep(w) ==
    CASE op[w] = "edit" -> "stage"
      [] op[w] = "provide" -> "baseline"
      [] OTHER -> "publish"

\* Mutant: the clock is released before the publish closure runs.
EnterCommitUnlocked(w) ==
    /\ ClockFree
    /\ MayCommit(w)
    /\ Goto(w, "commit", FirstPublishStep(w))
    /\ UNCHANGED <<onDisk, adversity, shared, locks, locals>>

EnterCommit(w) ==
    /\ ClockFree
    /\ MayCommit(w)
    /\ Goto(w, "commit", FirstPublishStep(w))
    /\ clockOwner' = w
    /\ UNCHANGED <<onDisk, adversity, shared, storeOwner, locals>>

\* Ok(None): the operation is answered as superseded or stale.
Superseded(w) ==
    /\ ClockFree
    /\ ~MayCommit(w)
    /\ Goto(w, "commit", "idle")
    /\ UNCHANGED <<onDisk, adversity, shared, locks, locals>>

\* The end of publish: live IR, edges and index, then committed_generation.
\* An edit looks into the store once more (remember_persisted_path).
Publish(w) ==
    /\ Goto(w, "publish", "idle")
    /\ op[w] = "edit" => StoreFree
    /\ live' = cand[w]
    /\ committed' = gen[w]
    /\ clockOwner' = None
    /\ UNCHANGED <<onDisk, adversity, nextGen, storeOwner, locals>>

\* persist_read_baseline of provide_code_context.
SaveBaseline(w) ==
    /\ Goto(w, "baseline", "publish")
    /\ StoreFree
    /\ SaveContext(cand[w])
    /\ UNCHANGED <<disk, intent, stage, writer, adversity, shared, locks, locals>>

-----------------------------------------------------------------------------
(* The publish closure of apply_edit *)

StageBytes(w) ==
    /\ Goto(w, "stage", "establish")
    /\ stage' = [stage EXCEPT ![w] = TRUE]
    /\ UNCHANGED <<disk, intent, durable, writer, adversity, shared, locks, locals>>

\* INSERT INTO edit_intents, whose primary key is the file path.
EstablishIntent(w) ==
    /\ StoreFree
    /\ intent = None
    /\ Goto(w, "establish", "rename")
    /\ intent' = [prior |-> src[w], target |-> cand[w], stage |-> w]
    /\ UNCHANGED <<disk, stage, durable, writer, adversity, shared, locks, locals>>

\* A row is in the way: error, and the temporary file is dropped.
EstablishConflict(w) ==
    /\ StoreFree
    /\ intent # None
    /\ Goto(w, "establish", "idle")
    /\ stage' = [stage EXCEPT ![w] = FALSE]
    /\ clockOwner' = None
    /\ UNCHANGED <<disk, intent, durable, writer, adversity, shared, storeOwner, locals>>

\* staged.persist: rename over the source file.
RenameStage(w) ==
    /\ Goto(w, "rename", "save")
    /\ stage[w]
    /\ disk' = cand[w].source
    /\ stage' = [stage EXCEPT ![w] = FALSE]
    /\ writer' = "server"
    /\ UNCHANGED <<intent, durable, adversity, shared, locks, locals>>

\* The staged file was removed by a concurrent recovery.
RenameMissing(w) ==
    /\ Goto(w, "rename", "clearAbort")
    /\ ~stage[w]
    /\ UNCHANGED <<onDisk, adversity, shared, locks, locals>>

\* DELETE FROM edit_intents WHERE file_path = ? AND transition_id = ?; the id is
\* the hash of both sources and both versions.
WithoutOwnIntent(w) ==
    IF intent # None /\ intent.prior = src[w] /\ intent.target = cand[w]
    THEN None ELSE intent

\* commit_edit_semantics saves the target context ...
SaveTarget(w) ==
    /\ StoreFree
    /\ Goto(w, "save", "clearCommit")
    /\ SaveContext(cand[w])
    /\ storeOwner' = w
    /\ UNCHANGED <<disk, intent, stage, writer, adversity, shared, clockOwner, locals>>

\* ... and clears the intent under the same guard; a missing row is a warning.
ClearCommitted(w) ==
    /\ Goto(w, "clearCommit", "publish")
    /\ intent' = WithoutOwnIntent(w)
    /\ storeOwner' = None
    /\ UNCHANGED <<disk, stage, durable, writer, adversity, shared, clockOwner, locals>>

\* atomic_replace_exact of the prior bytes after a failed durable commit.
RestorePrior(w) ==
    /\ Goto(w, "restorePrior", "clearAbort")
    /\ disk' = src[w]
    /\ writer' = "server"
    /\ UNCHANGED <<intent, stage, durable, adversity, shared, locks, locals>>

\* clear_edit_intent_best_effort, then the error response.
ClearAborted(w) ==
    /\ StoreFree
    /\ Goto(w, "clearAbort", "idle")
    /\ intent' = WithoutOwnIntent(w)
    /\ stage' = [stage EXCEPT ![w] = FALSE]
    /\ clockOwner' = None
    /\ UNCHANGED <<disk, durable, writer, adversity, shared, storeOwner, locals>>

-----------------------------------------------------------------------------
(* Failures *)

\* The steps whose failed file-system, SQLite or compiler call ends the
\* operation with an error: guards and the temporary file are dropped, nothing else changes.
FatalSteps == {"recover", "clearPrior", "commitTarget", "clearTarget", "hydrate",
               "hydrateCheck", "read", "checkDurable", "compile", "reread", "load",
               "validate", "baseline", "stage", "establish", "restorePrior",
               "clearAbort"}

IoFailure(w) ==
    /\ pc[w] \in FatalSteps
    /\ StoreFree \/ storeOwner = w
    /\ pc' = [pc EXCEPT ![w] = "idle"]
    /\ Release(w)
    /\ stage' = [stage EXCEPT ![w] = FALSE]
    /\ adversity' = adversity + 1
    /\ UNCHANGED <<disk, intent, durable, writer, shared, locals>>

\* Mutant: a failed durable save is only a warning.
HandledFailureWarns(w) ==
    /\ \/ Goto(w, "hydrateCheck", "read") /\ UNCHANGED storeOwner
       \/ Goto(w, "rename", "clearAbort") /\ UNCHANGED storeOwner
       \/ StoreFree /\ Goto(w, "save", "publish") /\ UNCHANGED storeOwner
       \/ Goto(w, "clearCommit", "publish") /\ storeOwner' = None
    /\ adversity' = adversity + 1
    /\ UNCHANGED <<onDisk, shared, clockOwner, locals>>

\* Mutant: after a failed durable save the intent is cleared but the prior
\* bytes are not put back.
HandledFailureKeepsBytes(w) ==
    /\ \/ Goto(w, "hydrateCheck", "read") /\ UNCHANGED storeOwner
       \/ Goto(w, "rename", "clearAbort") /\ UNCHANGED storeOwner
       \/ StoreFree /\ Goto(w, "save", "clearAbort") /\ UNCHANGED storeOwner
       \/ Goto(w, "clearCommit", "publish") /\ storeOwner' = None
    /\ adversity' = adversity + 1
    /\ UNCHANGED <<onDisk, shared, clockOwner, locals>>

\* The failures a handler continues from: an unreadable source only stops the
\* hydration; apply_edit undoes, or only warns of an intent it could not clear.
HandledFailure(w) ==
    /\ \/ Goto(w, "hydrateCheck", "read") /\ UNCHANGED storeOwner
       \/ Goto(w, "rename", "clearAbort") /\ UNCHANGED storeOwner
       \/ StoreFree /\ Goto(w, "save", "restorePrior") /\ UNCHANGED storeOwner
       \/ Goto(w, "clearCommit", "publish") /\ storeOwner' = None
    /\ adversity' = adversity + 1
    /\ UNCHANGED <<onDisk, shared, clockOwner, locals>>

\* The process dies: memory is lost, the file and the database stay.
Crash ==
    /\ adversity' = adversity + 1
    /\ live' = None
    /\ nextGen' = 0
    /\ committed' = 0
    /\ clockOwner' = None
    /\ storeOwner' = None
    /\ pc' = [w \in Workers |-> "idle"]
    /\ UNCHANGED <<onDisk, locals>>

\* An editor outside the server saves the file.
ExternalWrite(c) ==
    /\ c # disk
    /\ disk' = c
    /\ writer' = "editor"
    /\ adversity' = adversity + 1
    /\ UNCHANGED <<intent, stage, durable, shared, locks, pc, locals>>

-----------------------------------------------------------------------------
Recover(w) ==
    \/ RecoverNone(w) \/ RecoverInspect(w) \/ RecoverClearPrior(w)
    \/ RecoverCommitTarget(w) \/ RecoverClearTarget(w)

Hydrate(w) == HydrateLoad(w) \/ HydrateCheck(w) \/ HydratePublish(w)

Select(w) ==
    \/ ReadSource(w) \/ CheckLive(w) \/ CheckDurable(w)
    \/ \E t \in Contents : CompileEdit(w, t)
    \/ ReuseLive(w) \/ CompileRead(w) \/ RereadSource(w)
    \/ RestoreLoad(w) \/ RestoreValidate(w)

Commit(w) ==
    \/ EnterCommit(w) \/ Superseded(w) \/ SaveBaseline(w) \/ Publish(w)
    \/ StageBytes(w) \/ EstablishIntent(w) \/ EstablishConflict(w)
    \/ RenameStage(w) \/ RenameMissing(w) \/ SaveTarget(w) \/ ClearCommitted(w)
    \/ RestorePrior(w) \/ ClearAborted(w)

\* The steps a started operation takes by itself.
Step(w) == Recover(w) \/ Hydrate(w) \/ Select(w) \/ Commit(w)

Adversity ==
    /\ adversity < MaxAdversity
    /\ \/ \E w \in Workers : IoFailure(w) \/ HandledFailure(w)
       \/ Crash
       \/ \E c \in Contents : ExternalWrite(c)

Next ==
    \/ \E w \in Workers, o \in Ops : Begin(w, o)
    \/ \E w \in Workers : Step(w)
    \/ Adversity

Spec == Init /\ [][Next]_vars

\* A running thread is scheduled; a mutex is eventually granted.
FairSpec == Spec /\ \A w \in Workers : WF_vars(Step(w))

-----------------------------------------------------------------------------
(* Properties *)

TypeOK ==
    /\ disk \in Contents
    /\ intent \in Intents \union {None}
    /\ stage \in [Workers -> BOOLEAN]
    /\ durable \in Contexts
    /\ writer \in {"server", "editor"}
    /\ adversity \in Nat
    /\ live \in Contexts \union {None}
    /\ nextGen \in Nat
    /\ committed \in Nat
    /\ clockOwner \in Workers \union {None}
    /\ storeOwner \in Workers \union {None}
    /\ pc \in [Workers -> Steps]
    /\ op \in [Workers -> Ops]
    /\ gen \in [Workers -> Nat]
    /\ src \in [Workers -> Contents]
    /\ cand \in [Workers -> Contexts]

\* What a restart can re-establish: the target of an interrupted edit when the
\* file already holds its bytes, the durable context otherwise.
Recovered ==
    IF intent # None /\ disk # intent.prior /\ disk = intent.target.source
    THEN intent.target
    ELSE durable

\* The rename of an edit replaces exactly the bytes the edit was validated
\* against: concurrent edits and reads never lose an accepted edit.  Only an
\* outside editor can slip in between the check and the rename.
NoLostUpdate ==
    \A w \in Workers : pc[w] = "rename" => disk = src[w] \/ Foreign

\* An intent that recovery refuses as irreconcilable (and that blocks every
\* later operation on the file) is never the server's own doing.
IrreconcilableOnlyForeign ==
    intent # None /\ disk \notin {intent.prior, intent.target.source} => Foreign

\* An edit is published live, and answered as applied, only when its context
\* is the durable one.
DurableBeforeLive ==
    \A w \in Workers : pc[w] = "publish" /\ op[w] = "edit" => durable = cand[w]

\* At every instant - so also when the process dies there - the bytes the
\* server wrote belong to the context a restart re-establishes.
SourceRecoverable == ~Foreign => disk = Recovered.source

\* An older operation never replaces live authority that a newer generation
\* committed, not even while it adopts a recovered durable context.
NewerAuthorityWins ==
    [][\A w \in Workers :
         pc[w] = "hydratePublish" /\ pc'[w] = "read" /\ live' # live
           => gen[w] > committed]_vars

\* Every started operation ends: recovery, commit and hydration never wait on
\* each other's locks forever.
OperationsEnd == \A w \in Workers : pc[w] # "idle" ~> pc[w] = "idle"

=============================================================================
