----------------------- MODULE EditTransactionProofs -----------------------
(***************************************************************************)
(* Proofs about EditTransaction for every set of workers and contents and  *)
(* every bound.  The inductive invariant says which lock protects which    *)
(* step, and that from the moment an edit owns the clock nothing but an    *)
(* outside editor moves the bytes, and nobody else's intent or context     *)
(* takes the place of its own.                                             *)
(***************************************************************************)
EXTENDS EditTransaction, TLAPS

\* The clock mutex and the store mutex are held at the steps they protect.
LockInv ==
    \A w \in Workers :
        /\ pc[w] \in ClockSteps => clockOwner = w
        /\ pc[w] \in StoreSteps => storeOwner = w

\* A recovery in progress still finds its intent row.
RecoveryInv ==
    \A w \in Workers :
        pc[w] \in {"clearPrior", "commitTarget", "clearTarget"} => intent # None

\* The bytes validated at the commit boundary are the bytes replaced.
SourceInv ==
    \A w \in Workers :
        pc[w] \in {"stage", "establish", "rename"} => disk = src[w] \/ Foreign

EditPublishing(w) == pc[w] = "publish" /\ op[w] = "edit"

\* While an edit is committing, a pending intent is its own.
OwnIntentInv ==
    \A w \in Workers :
        (pc[w] \in IntentSteps \/ EditPublishing(w)) /\ intent # None
            => intent.prior = src[w] /\ intent.target = cand[w]

\* Only an edit runs the steps that own an intent, only a read saves a baseline.
EditStepInv ==
    \A w \in Workers :
        /\ pc[w] \in IntentSteps \union {"stage", "establish"} => op[w] = "edit"
        /\ pc[w] = "baseline" => op[w] = "provide"

\* Once saved, the context of a committing edit stays the durable one.
SavedInv ==
    \A w \in Workers :
        pc[w] = "clearCommit" \/ EditPublishing(w) => durable = cand[w]

IInv ==
    /\ TypeOK
    /\ LockInv
    /\ RecoveryInv
    /\ SourceInv
    /\ OwnIntentInv
    /\ EditStepInv
    /\ SavedInv
    /\ IrreconcilableOnlyForeign

-----------------------------------------------------------------------------
(* The inductive step, one lemma per phase of an operation and one step per *)
(* action.                                                                  *)

USE NoneAssumption
USE DEF DrawTicket, SaveContext, LoadDurableContext
USE DEF TypeOK, LockInv, RecoveryInv, SourceInv, OwnIntentInv, EditPublishing,
        EditStepInv, SavedInv, IrreconcilableOnlyForeign, Foreign,
        Contexts, Intents, Ops, Steps, FreeSteps, ClockSteps, IntentSteps, StoreSteps,
        Goto, onDisk, shared, locks, locals

\* Recovery resolves an intent under the store mutex; it moves no bytes.
LEMMA RecoverPreservesInv ==
    ASSUME IInv, NEW w \in Workers, Recover(w)
    PROVE  IInv'
<1>1. CASE RecoverNone(w)
  BY <1>1 DEF RecoverNone, IInv, AfterNone, StoreFree
<1>2. CASE RecoverInspect(w)
  BY <1>2 DEF RecoverInspect, IInv, StoreFree
<1>3. CASE RecoverClearPrior(w)
  BY <1>3 DEF RecoverClearPrior, IInv, ClearRecovered, AfterPrior, AfterNone
<1>4. CASE RecoverCommitTarget(w)
  BY <1>4 DEF RecoverCommitTarget, IInv
<1>5. CASE RecoverClearTarget(w)
  BY <1>5 DEF RecoverClearTarget, IInv, ClearRecovered, AfterTarget, AfterPrior, AfterNone
<1> QED BY <1>1, <1>2, <1>3, <1>4, <1>5 DEF Recover

\* Adopting a recovered durable context touches live state only.
LEMMA HydratePreservesInv ==
    ASSUME IInv, NEW w \in Workers, Hydrate(w)
    PROVE  IInv'
<1>1. CASE HydrateLoad(w)
  BY <1>1 DEF HydrateLoad, IInv
<1>2. CASE HydrateCheck(w)
  BY <1>2 DEF HydrateCheck, IInv
<1>3. CASE HydratePublish(w)
  BY <1>3 DEF HydratePublish, IInv
<1> QED BY <1>1, <1>2, <1>3 DEF Hydrate

\* Candidate selection reads shared state and writes only the worker's own locals.
LEMMA SelectPreservesInv ==
    ASSUME IInv, NEW w \in Workers, Select(w)
    PROVE  IInv'
<1>1. CASE ReadSource(w)
  BY <1>1 DEF ReadSource, IInv
<1>2. CASE CheckLive(w)
  BY <1>2 DEF CheckLive, IInv
<1>3. CASE CheckDurable(w)
  BY <1>3 DEF CheckDurable, IInv
<1>4. CASE \E t \in Contents : CompileEdit(w, t)
  BY <1>4 DEF CompileEdit, IInv, LiveVersion
<1>5. CASE ReuseLive(w)
  BY <1>5 DEF ReuseLive, SourceUnchanged, IInv
<1>6. CASE CompileRead(w)
  BY <1>6 DEF CompileRead, SourceUnchanged, IInv, LiveVersion
<1>7. CASE RereadSource(w)
  BY <1>7 DEF RereadSource, IInv
<1>8. CASE RestoreLoad(w)
  BY <1>8 DEF RestoreLoad, IInv
<1>9. CASE RestoreValidate(w)
  BY <1>9 DEF RestoreValidate, IInv
<1> QED BY <1>1, <1>2, <1>3, <1>4, <1>5, <1>6, <1>7, <1>8, <1>9 DEF Select

\* The steps under the publication clock.
LEMMA CommitPreservesInv ==
    ASSUME IInv, NEW w \in Workers, Commit(w)
    PROVE  IInv'
<1>1. CASE EnterCommit(w)
  BY <1>1 DEF EnterCommit, IInv, MayCommit, FirstPublishStep, ClockFree
<1>2. CASE Superseded(w)
  BY <1>2 DEF Superseded, IInv
<1>3. CASE SaveBaseline(w)
  BY <1>3 DEF SaveBaseline, IInv
<1>4. CASE Publish(w)
  BY <1>4 DEF Publish, IInv
<1>5. CASE StageBytes(w)
  BY <1>5 DEF StageBytes, IInv
<1>6. CASE EstablishIntent(w)
  BY <1>6 DEF EstablishIntent, IInv
<1>7. CASE EstablishConflict(w)
  BY <1>7 DEF EstablishConflict, IInv
<1>8. CASE RenameStage(w)
  BY <1>8 DEF RenameStage, IInv
<1>9. CASE RenameMissing(w)
  BY <1>9 DEF RenameMissing, IInv
<1>10. CASE SaveTarget(w)
  BY <1>10 DEF SaveTarget, IInv, StoreFree
<1>11. CASE ClearCommitted(w)
  BY <1>11 DEF ClearCommitted, WithoutOwnIntent, IInv
<1>12. CASE RestorePrior(w)
  BY <1>12 DEF RestorePrior, IInv
<1>13. CASE ClearAborted(w)
  BY <1>13 DEF ClearAborted, WithoutOwnIntent, IInv, StoreFree
<1> QED BY <1>1, <1>2, <1>3, <1>4, <1>5, <1>6, <1>7, <1>8, <1>9, <1>10, <1>11, <1>12,
           <1>13 DEF Commit

\* Failed I/O drops the guards of its own operation, a crash drops all of them,
\* and an outside write is marked as one.
LEMMA AdversityPreservesInv ==
    ASSUME IInv, Adversity
    PROVE  IInv'
<1>1. ASSUME NEW w \in Workers, IoFailure(w) PROVE IInv'
  BY <1>1 DEF IoFailure, Release, FatalSteps, StoreFree, IInv
<1>2. ASSUME NEW w \in Workers, HandledFailure(w) PROVE IInv'
  BY <1>2 DEF HandledFailure, IInv
<1>3. CASE Crash
  BY <1>3 DEF Crash, IInv
<1>4. ASSUME NEW c \in Contents, ExternalWrite(c) PROVE IInv'
  BY <1>4 DEF ExternalWrite, IInv
<1> QED BY <1>1, <1>2, <1>3, <1>4 DEF Adversity

LEMMA InitInv == Init => IInv
BY DEF Init, IInv

LEMMA NextPreservesInv == IInv /\ [Next]_vars => IInv'
<1> SUFFICES ASSUME IInv, [Next]_vars PROVE IInv'
  OBVIOUS
<1>1. ASSUME NEW w \in Workers, NEW o \in Ops, Begin(w, o) PROVE IInv'
  BY <1>1 DEF Begin, IInv
<1>2. ASSUME NEW w \in Workers, Step(w) PROVE IInv'
  BY <1>2, RecoverPreservesInv, HydratePreservesInv, SelectPreservesInv,
     CommitPreservesInv DEF Step
<1>3. CASE Adversity
  BY <1>3, AdversityPreservesInv
<1>4. CASE UNCHANGED vars
  BY <1>4 DEF vars, IInv
<1> QED BY <1>1, <1>2, <1>3, <1>4 DEF Next

\* The inductive invariant holds in every reachable state.
THEOREM Invariance == Spec => []IInv
BY InitInv, NextPreservesInv, PTL DEF Spec

-----------------------------------------------------------------------------
(* What follows from it *)

\* The variables of the edit transaction keep their types: in particular a
\* recovery never dereferences an intent row that another thread removed.
THEOREM TypeCorrect == Spec => []TypeOK
<1>1. IInv => TypeOK
  BY DEF IInv
<1> QED BY <1>1, Invariance, PTL

\* The rename of apply_edit (edit.rs, staged.persist) replaces exactly the
\* bytes its edit was validated against, whatever other handlers do meanwhile.
THEOREM NoLostUpdates == Spec => []NoLostUpdate
<1>1. IInv => NoLostUpdate
  BY DEF IInv, NoLostUpdate
<1> QED BY <1>1, Invariance, PTL

\* Only an outside editor can make a pending intent irreconcilable, the state
\* in which recover_edit_intent refuses every later operation on the file.
THEOREM IrreconcilableIsForeign == Spec => []IrreconcilableOnlyForeign
<1>1. IInv => IrreconcilableOnlyForeign
  BY DEF IInv
<1> QED BY <1>1, Invariance, PTL

\* apply_edit publishes its context live only while that context is durable:
\* no baseline, recovery or hydration of another thread replaced it.
THEOREM DurableIsBeforeLive == Spec => []DurableBeforeLive
<1>1. IInv => DurableBeforeLive
  BY DEF IInv, DurableBeforeLive
<1> QED BY <1>1, Invariance, PTL
-----------------------------------------------------------------------------
(***************************************************************************)
(* Crash recovery, for one worker thread: wherever the process stops, the  *)
(* bytes it wrote belong to the context a restart re-establishes.  With    *)
(* two threads this does not hold (run edit_recovery_race), which is why   *)
(* the single thread is a hypothesis of the theorem.                       *)
(***************************************************************************)

OneThread == \A u, v \in Workers : u = v

\* The steps between a finished recovery and the edit's own intent.
NoIntentSteps == {"hydrate", "hydrateCheck", "hydratePublish", "read", "checkLive",
                  "checkDurable", "compile", "reread", "load", "validate", "commit",
                  "stage", "establish", "baseline"}

\* Recovery leaves no intent behind, and an edit keeps its own to the end.
IntentPresence ==
    \A w \in Workers :
        /\ pc[w] \in NoIntentSteps => intent = None
        /\ pc[w] \in {"rename", "save", "restorePrior", "clearCommit"} => intent # None

\* An edit starts from the source of the durable context.
EditFromDurable ==
    \A w \in Workers :
        /\ op[w] = "edit"
        /\ pc[w] \in {"compile", "commit", "stage", "establish",
                       "rename", "save", "restorePrior"}
        => durable.source = src[w]

\* Only restore_context commits a context it loaded, only a read reads twice.
SourceOfCandidate ==
    \A w \in Workers :
        /\ pc[w] \in {"load", "validate"} => op[w] = "restore"
        /\ pc[w] = "reread" => op[w] = "provide"

\* A read persists the compilation of the bytes it was validated against.
BaselineOfSource ==
    \A w \in Workers :
        /\ op[w] = "provide" /\ pc[w] \in {"commit", "baseline"} => cand[w].source = src[w]
        /\ pc[w] = "baseline" => disk = src[w] \/ Foreign

\* What the file holds at the steps that will save a context or clear the intent.
BytesAtStep ==
    \A w \in Workers :
        /\ pc[w] \in {"save", "clearCommit"} => disk = cand[w].source \/ Foreign
        /\ pc[w] = "clearAbort" => disk = durable.source \/ Foreign
        /\ pc[w] = "clearPrior" => disk = intent.prior \/ Foreign
        /\ pc[w] \in {"commitTarget", "clearTarget"} => disk = intent.target.source \/ Foreign
        /\ pc[w] = "clearTarget" => durable = intent.target

RInv ==
    /\ IInv
    /\ IntentPresence
    /\ EditFromDurable
    /\ SourceOfCandidate
    /\ BaselineOfSource
    /\ BytesAtStep
    /\ SourceRecoverable

-----------------------------------------------------------------------------
USE NoneAssumption
USE DEF DrawTicket, SaveContext, LoadDurableContext
USE DEF TypeOK, LockInv, RecoveryInv, SourceInv, OwnIntentInv, EditPublishing,
        EditStepInv, SavedInv, IrreconcilableOnlyForeign, Foreign,
        IntentPresence, EditFromDurable, SourceOfCandidate, BaselineOfSource, BytesAtStep,
        SourceRecoverable, Recovered, NoIntentSteps, OneThread,
        Contexts, Intents, Ops, Steps, FreeSteps, ClockSteps, IntentSteps, StoreSteps,
        Goto, onDisk, shared, locks, locals

\* Recovery: the intent is cleared only once the durable context names the bytes.
LEMMA RecoverRecoverable ==
    ASSUME OneThread, RInv, NEW w \in Workers, Recover(w)
    PROVE  RInv'
<1>0. IInv'
  BY RecoverPreservesInv DEF RInv
<1>1. CASE RecoverNone(w)
  BY <1>0, <1>1 DEF RecoverNone, RInv, IInv, AfterNone, StoreFree
<1>2. CASE RecoverInspect(w)
  BY <1>0, <1>2 DEF RecoverInspect, RInv, IInv, StoreFree
<1>3. CASE RecoverClearPrior(w)
  BY <1>0, <1>3 DEF RecoverClearPrior, RInv, IInv, ClearRecovered, AfterPrior, AfterNone
<1>4. CASE RecoverCommitTarget(w)
  BY <1>0, <1>4 DEF RecoverCommitTarget, RInv, IInv
<1>5. CASE RecoverClearTarget(w)
  BY <1>0, <1>5 DEF RecoverClearTarget, RInv, IInv, ClearRecovered, AfterTarget,
                    AfterPrior, AfterNone
<1> QED BY <1>1, <1>2, <1>3, <1>4, <1>5 DEF Recover

\* Hydration.
LEMMA HydrateRecoverable ==
    ASSUME OneThread, RInv, NEW w \in Workers, Hydrate(w)
    PROVE  RInv'
<1>0. IInv'
  BY HydratePreservesInv DEF RInv
<1>1. CASE HydrateLoad(w)
  BY <1>0, <1>1 DEF HydrateLoad, RInv, IInv
<1>2. CASE HydrateCheck(w)
  BY <1>0, <1>2 DEF HydrateCheck, RInv, IInv
<1>3. CASE HydratePublish(w)
  BY <1>0, <1>3 DEF HydratePublish, RInv, IInv
<1> QED BY <1>1, <1>2, <1>3 DEF Hydrate

\* Candidate selection.
LEMMA SelectRecoverable ==
    ASSUME OneThread, RInv, NEW w \in Workers, Select(w)
    PROVE  RInv'
<1>0. IInv'
  BY SelectPreservesInv DEF RInv
<1>1. CASE ReadSource(w)
  BY <1>0, <1>1 DEF ReadSource, RInv, IInv
<1>2. CASE CheckLive(w)
  BY <1>0, <1>2 DEF CheckLive, RInv, IInv
<1>3. CASE CheckDurable(w)
  BY <1>0, <1>3 DEF CheckDurable, RInv, IInv
<1>4. CASE \E t \in Contents : CompileEdit(w, t)
  BY <1>0, <1>4 DEF CompileEdit, RInv, IInv, LiveVersion
<1>5. CASE ReuseLive(w)
  BY <1>0, <1>5 DEF ReuseLive, SourceUnchanged, RInv, IInv
<1>6. CASE CompileRead(w)
  BY <1>0, <1>6 DEF CompileRead, SourceUnchanged, RInv, IInv, LiveVersion
<1>7. CASE RereadSource(w)
  BY <1>0, <1>7 DEF RereadSource, RInv, IInv
<1>8. CASE RestoreLoad(w)
  BY <1>0, <1>8 DEF RestoreLoad, RInv, IInv
<1>9. CASE RestoreValidate(w)
  BY <1>0, <1>9 DEF RestoreValidate, RInv, IInv
<1> QED BY <1>1, <1>2, <1>3, <1>4, <1>5, <1>6, <1>7, <1>8, <1>9 DEF Select

\* The commit: intent, bytes, durable context, clear.
LEMMA CommitRecoverable ==
    ASSUME OneThread, RInv, NEW w \in Workers, Commit(w)
    PROVE  RInv'
<1>0. IInv'
  BY CommitPreservesInv DEF RInv
<1>1. CASE EnterCommit(w)
  BY <1>0, <1>1 DEF EnterCommit, RInv, IInv, MayCommit, FirstPublishStep, ClockFree
<1>2. CASE Superseded(w)
  BY <1>0, <1>2 DEF Superseded, RInv, IInv
<1>3. CASE SaveBaseline(w)
  BY <1>0, <1>3 DEF SaveBaseline, RInv, IInv
<1>4. CASE Publish(w)
  BY <1>0, <1>4 DEF Publish, RInv, IInv
<1>5. CASE StageBytes(w)
  BY <1>0, <1>5 DEF StageBytes, RInv, IInv
<1>6. CASE EstablishIntent(w)
  BY <1>0, <1>6 DEF EstablishIntent, RInv, IInv
<1>7. CASE EstablishConflict(w)
  BY <1>0, <1>7 DEF EstablishConflict, RInv, IInv
<1>8. CASE RenameStage(w)
  BY <1>0, <1>8 DEF RenameStage, RInv, IInv
<1>9. CASE RenameMissing(w)
  BY <1>0, <1>9 DEF RenameMissing, RInv, IInv
<1>10. CASE SaveTarget(w)
  BY <1>0, <1>10 DEF SaveTarget, RInv, IInv, StoreFree
<1>11. CASE ClearCommitted(w)
  BY <1>0, <1>11 DEF ClearCommitted, WithoutOwnIntent, RInv, IInv
<1>12. CASE RestorePrior(w)
  BY <1>0, <1>12 DEF RestorePrior, RInv, IInv
<1>13. CASE ClearAborted(w)
  BY <1>0, <1>13 DEF ClearAborted, WithoutOwnIntent, RInv, IInv
<1> QED BY <1>1, <1>2, <1>3, <1>4, <1>5, <1>6, <1>7, <1>8, <1>9, <1>10, <1>11, <1>12,
           <1>13 DEF Commit

\* Failures and crashes: every prefix of the commit is recoverable.
LEMMA AdversityRecoverable ==
    ASSUME OneThread, RInv, Adversity
    PROVE  RInv'
<1>0. IInv'
  BY AdversityPreservesInv DEF RInv
<1>1. ASSUME NEW w \in Workers, IoFailure(w) PROVE RInv'
  BY <1>0, <1>1 DEF IoFailure, Release, FatalSteps, RInv, IInv
<1>2. ASSUME NEW w \in Workers, HandledFailure(w) PROVE RInv'
  BY <1>0, <1>2 DEF HandledFailure, RInv, IInv
<1>3. CASE Crash
  BY <1>0, <1>3 DEF Crash, RInv, IInv
<1>4. ASSUME NEW c \in Contents, ExternalWrite(c) PROVE RInv'
  BY <1>0, <1>4 DEF ExternalWrite, RInv, IInv
<1> QED BY <1>1, <1>2, <1>3, <1>4 DEF Adversity

LEMMA InitRecoverable == Init => RInv
BY InitInv DEF Init, RInv

LEMMA NextRecoverable == OneThread /\ RInv /\ [Next]_vars => RInv'
<1> SUFFICES ASSUME OneThread, RInv, [Next]_vars PROVE RInv'
  OBVIOUS
<1>0. IInv'
  BY NextPreservesInv DEF RInv
<1>1. ASSUME NEW w \in Workers, NEW o \in Ops, Begin(w, o) PROVE RInv'
  BY <1>0, <1>1 DEF Begin, RInv, IInv
<1>2. ASSUME NEW w \in Workers, Step(w) PROVE RInv'
  BY <1>2, RecoverRecoverable, HydrateRecoverable, SelectRecoverable,
     CommitRecoverable DEF Step
<1>3. CASE Adversity
  BY <1>3, AdversityRecoverable
<1>4. CASE UNCHANGED vars
  BY <1>0, <1>4 DEF vars, RInv
<1> QED BY <1>1, <1>2, <1>3, <1>4 DEF Next

\* With one worker thread the bytes the server wrote always belong to the
\* context that recover_edit_intent and the durable load re-establish.
THEOREM CrashRecoverable ==
    ASSUME OneThread
    PROVE  Spec => []SourceRecoverable
<1>1. RInv /\ [Next]_vars => RInv'
  BY NextRecoverable
<1>2. RInv => SourceRecoverable
  BY DEF RInv
<1> QED BY <1>1, <1>2, InitRecoverable, PTL DEF Spec
=============================================================================
