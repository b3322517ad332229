----------------------------- MODULE Authority ------------------------------
(***************************************************************************)
(* The handlers that read, advance, checkpoint, rewind and delete the      *)
(* semantic authority of one source file: provide_code_context,            *)
(* compress_code_context, delta_code_context, apply_delta, save_context,   *)
(* restore_context, replay_history, delete_context, purge_old_deltas and   *)
(* the retirement of pending transitions by a workspace refresh.           *)
(*                                                                         *)
(* Live state (alias, ContextState entry, pending transitions) is guarded  *)
(* by the owner's publication clock, but not by every handler; the durable *)
(* rows (baseline, delta chain, semantic snapshots) are guarded by the     *)
(* store mutex one transaction at a time.  No edit intent is pending here: *)
(* module EditTransaction models apply_edit and its recovery.              *)
(*                                                                         *)
(* Bytes and their SHA-256 are one Content; several contents may compile   *)
(* to the same instruction list (a changed comment).                       *)
(***************************************************************************)
EXTENDS Naturals, Sequences

CONSTANTS
    Workers,       \* dispatcher worker threads
    Contents,      \* the possible contents of the source file
    Ir,            \* Ir[c]: the instruction list that c compiles to
    None,          \* absence of a source, of live state, of a lock owner
    Mixed,         \* instructions of a delta replayed on a foreign base
    Mixes,         \* the kinds of session: the handlers its clients call, the
                   \* bound on their calls, and the bound on crashes, outside
                   \* writes and failed transactions
    AutoSave       \* persistence.auto_save (or Edit fidelity)

AllHandlers == {"provide", "compress", "delta", "apply", "save", "restore",
                "replay", "delete", "purge", "refresh"}

\* Instruction lists, contexts, pending transitions
Irs == {Ir[c] : c \in Contents} \union {Mixed}
Contexts == [ver: Nat, ir: Irs, src: Contents]
Transitions ==
    [from: Nat, to: Nat, base: Irs, target: Contents, inst: Nat]

ASSUME AuthorityAssumption ==
    /\ DOMAIN Ir = Contents
    /\ Mixed \notin {Ir[c] : c \in Contents}
    /\ Mixes \subseteq [handlers: SUBSET AllHandlers, calls: Nat,
                     adversity: Nat]
    /\ AutoSave \in BOOLEAN
    /\ None \notin Workers /\ None \notin Contents
    /\ None \notin Contexts

VARIABLES
    mix,        \* the kind of session
    disk,       \* bytes of the source file
    durable,    \* contexts row with its deltas and semantic snapshots
    live,       \* entry of ContextState
    alias,      \* PathDictionary has an alias for the path
    maps,       \* persisted path, fidelity and edges of the alias are known
    pending,    \* pending_semantic_transitions
    retired,    \* instances of transitions whose retired flag is set
    nextGen,    \* SemanticPublicationClock.next_generation
    committed,  \* SemanticPublicationClock.committed_generation
    clock,      \* holder of the publication clock
    calls,      \* handler calls so far
    adversity,  \* crashes, outside writes and failed transactions so far
    accepted,   \* history: the state the last apply_delta acknowledged
    pc, op, gen, prev, cand, held, ctx   \* per worker, see Init

file   == <<mix, disk, durable>>
owner  == <<live, alias, maps, pending, retired>>
ticket == <<nextGen, committed>>
budget == <<calls, adversity>>
locals == <<gen, prev, cand, held, ctx>>
vars   == <<file, owner, ticket, clock, budget, accepted, pc, op, locals>>

Ticketed == {"provide", "delta", "restore", "replay"}

NoContext == [ver |-> 0, ir |-> Mixed, src |-> None]
NoRow == [id |-> None, ver |-> 0, ir |-> Mixed, chain |-> <<>>, hash |-> None,
          snaps |-> [v \in {} |-> None]]

\* Init: a cold process; durable state may have survived an earlier one.
Baseline(c) ==
    [id |-> c.src, ver |-> c.ver, ir |-> c.ir, chain |-> <<>>, hash |-> c.src,
     snaps |-> [v \in {c.ver} |-> c.src]]

Compiled(ver, c) == [ver |-> ver, ir |-> Ir[c], src |-> c]

Init ==
    /\ mix \in Mixes
    /\ disk \in Contents
    /\ durable \in {NoRow, Baseline(Compiled(1, disk))}
    /\ live = None /\ alias = FALSE /\ maps = FALSE
    /\ pending = {} /\ retired = {}
    /\ nextGen = 0 /\ committed = 0 /\ clock = None
    /\ calls = 0 /\ adversity = 0
    /\ accepted = None
    /\ pc = [w \in Workers |-> "idle"]
    /\ op = [w \in Workers |-> "provide"]
    /\ gen = [w \in Workers |-> 0]          \* its ticket
    /\ prev = [w \in Workers |-> None]      \* the authority it captured
    /\ cand = [w \in Workers |-> NoContext] \* the context it will publish
    /\ held = [w \in Workers |-> {}]        \* transitions it cloned
    /\ ctx = [w \in Workers |-> None]       \* the context id it looked up

-----------------------------------------------------------------------------
(* The durable rows *)

\* Mutant: the version preconditions are dropped.
ApplySequenceAnyVersion(c, d) ==
    IF c.ir = d.base THEN {[ver |-> d.to, ir |-> Ir[d.target], src |-> d.target]}
    ELSE {None, [ver |-> d.to, ir |-> Mixed, src |-> d.target]}

\* apply_sequence on a context at version d.from.  Edits name the tuples they
\* replace; insertions do not, so a foreign base is refused or mixed.
ApplySequence(c, d) ==
    IF c.ver # d.from \/ d.to <= d.from THEN {None}
    ELSE IF c.ir = d.base THEN {[ver |-> d.to, ir |-> Ir[d.target], src |-> d.target]}
    ELSE {None, [ver |-> d.to, ir |-> Mixed, src |-> d.target]}

\* load_context_with_deltas: the baseline and the first n deltas of the chain.
Replayed(d, n) ==
    LET at[k \in 0..n] ==
          IF k = 0 THEN {[ver |-> d.ver, ir |-> d.ir, src |-> d.hash]}
          ELSE UNION {IF c = None THEN {None} ELSE ApplySequence(c, d.chain[k]) :
                        c \in at[k - 1]}
    IN  at[n]

\* load_durable_context: the replayed version must have a snapshot, and the
\* snapshot of the latest state must carry the hash of the contexts row.
LoadAt(d, n, latest) ==
    {IF c = None THEN None
     ELSE IF c.ver \notin DOMAIN d.snaps THEN None
     ELSE IF latest /\ d.snaps[c.ver] # d.hash THEN None
     ELSE [c EXCEPT !.src = d.snaps[c.ver]] : c \in Replayed(d, n)}

LoadDurable(d) == LoadAt(d, Len(d.chain), TRUE)

\* durable_state_matches
DurableMatches(c) ==
    /\ durable # NoRow
    /\ durable.ver = c.ver /\ durable.ir = c.ir /\ durable.hash = c.src
    /\ c.ver \in DOMAIN durable.snaps /\ durable.snaps[c.ver] = c.src

\* Mutants: the snapshot, or the hash of the row, is not written.
AppendedUnsnapshotted(d, t) ==
    [d EXCEPT !.chain = Append(@, t), !.hash = t.target]

AppendedKeepsHash(d, t) ==
    [d EXCEPT !.chain = Append(@, t),
              !.snaps = [v \in DOMAIN @ \union {t.to} |->
                            IF v = t.to THEN t.target ELSE @[v]]]

\* append_delta_with_semantics
Appended(d, t) ==
    [d EXCEPT !.chain = Append(@, t),
              !.hash = t.target,
              !.snaps = [v \in DOMAIN @ \union {t.to} |->
                            IF v = t.to THEN t.target ELSE @[v]]]

-----------------------------------------------------------------------------
(* Helpers *)

Goto(w, from, to) == pc[w] = from /\ pc' = [pc EXCEPT ![w] = to]

ClockFree == clock = None

\* What the file's alias resolves to.
Visible == IF alias THEN live ELSE None
VisibleVersion == IF Visible = None THEN 0 ELSE Visible.ver

\* The steps of delta_code_context that hold the ir_context mutex.
Locked(w) == op[w] = "delta" /\ pc[w] \in {"ensure", "ensurePersist", "remember"}

\* Mutant: the guard of the clock outlives the handler.
ReturnKeepsClock(w) ==
    /\ pc' = [pc EXCEPT ![w] = "idle"]
    /\ gen' = [gen EXCEPT ![w] = 0]
    /\ prev' = [prev EXCEPT ![w] = None]
    /\ cand' = [cand EXCEPT ![w] = NoContext]
    /\ held' = [held EXCEPT ![w] = {}]
    /\ ctx' = [ctx EXCEPT ![w] = None]
    /\ UNCHANGED <<clock, op>>

\* A handler returns: its guards are dropped, its locals are dead.
Return(w) ==
    /\ pc' = [pc EXCEPT ![w] = "idle"]
    /\ clock' = IF clock = w THEN None ELSE clock
    /\ gen' = [gen EXCEPT ![w] = 0]
    /\ prev' = [prev EXCEPT ![w] = None]
    /\ cand' = [cand EXCEPT ![w] = NoContext]
    /\ held' = [held EXCEPT ![w] = {}]
    /\ ctx' = [ctx EXCEPT ![w] = None]
    /\ UNCHANGED op

\* A SQLite transaction fails and rolls back; the handler answers an error.
TransactionFails(w) ==
    /\ adversity < mix.adversity
    /\ adversity' = adversity + 1
    /\ Return(w)
    /\ UNCHANGED <<file, owner, ticket, calls, accepted>>

-----------------------------------------------------------------------------
(* Entry: parameter and ownership gates, then the ticket *)

FirstStep(o) ==
    CASE o \in {"provide", "compress", "delta"} -> "capture"
      [] o = "apply" -> "lookup"
      [] o = "save" -> "snapshot"
      [] o \in {"restore", "replay"} -> "load"
      [] o = "delete" -> "deleteRows"
      [] o = "purge" -> "purge"
      [] o = "refresh" -> "list"

Admitted(o) ==
    /\ o \in {"apply", "save"} => maps
    /\ o = "save" => alias
    /\ o = "delete" => alias /\ live # None /\ maps

Begin(w, o) ==
    /\ Goto(w, "idle", FirstStep(o))
    /\ calls < mix.calls
    /\ Admitted(o)
    /\ calls' = calls + 1
    /\ op' = [op EXCEPT ![w] = o]
    /\ IF o \in Ticketed
       THEN /\ ClockFree
            /\ nextGen' = nextGen + 1
            /\ gen' = [gen EXCEPT ![w] = nextGen + 1]
       ELSE UNCHANGED <<nextGen, gen>>
    /\ UNCHANGED <<file, owner, committed, clock, adversity, accepted, prev,
                   cand, held, ctx>>

-----------------------------------------------------------------------------
(* provide_code_context, compress_code_context, delta_code_context *)

\* delta_code_context answers from the live context when the bytes are the
\* ones it was compiled from.
AnswerCached(w) ==
    /\ pc[w] = "capture" /\ op[w] = "delta"
    /\ Visible # None /\ Visible.src = disk
    /\ Return(w)
    /\ UNCHANGED <<file, owner, ticket, budget, accepted>>

\* The previous version (and, for a delta, the captured authority).
Capture(w) ==
    /\ Goto(w, "capture", "compile")
    /\ ~(op[w] = "delta" /\ Visible # None /\ Visible.src = disk)
    /\ prev' = [prev EXCEPT ![w] = Visible]
    /\ UNCHANGED <<file, owner, ticket, clock, budget, accepted, op, gen, cand,
                   held, ctx>>

\* compile_file_ir_candidate reads the file and compiles it; provide and
\* compress register the alias before they enter the clock.
Compile(w) ==
    /\ Goto(w, "compile", "commit")
    /\ cand' = [cand EXCEPT ![w] =
                  Compiled(IF prev[w] = None THEN 1 ELSE prev[w].ver + 1, disk)]
    /\ alias' = (alias \/ op[w] # "delta")
    /\ UNCHANGED <<file, live, maps, pending, retired, ticket, clock, budget,
                   accepted, op, gen, prev, held, ctx>>

\* Mutant: only the bytes are compared, not the generations.
SupersededUnordered(w) == disk # cand[w].src

\* SemanticPublicationTicket::commit: an older generation, or bytes that are
\* no longer the compiled ones, publish nothing.
Superseded(w) == gen[w] <= committed \/ disk # cand[w].src

CommitRefused(w) ==
    /\ pc[w] = "commit" /\ op[w] # "compress" /\ ClockFree
    /\ Superseded(w)
    /\ Return(w)
    /\ UNCHANGED <<file, owner, ticket, budget, accepted>>

\* compress_code_context enters the clock without a ticket or a source check.
EnterCommit(w) ==
    /\ ClockFree
    /\ op[w] = "compress" \/ ~Superseded(w)
    /\ Goto(w, "commit", IF op[w] # "delta" \/ prev[w] = None THEN "persist"
                         ELSE IF AutoSave THEN "ensure" ELSE "remember")
    /\ op[w] = "delta" => Visible = prev[w]
    /\ clock' = w
    /\ UNCHANGED <<file, owner, ticket, budget, accepted, op, locals>>

\* authority_is_current is false: nothing is published, yet the commit counts.
AuthorityMoved(w) ==
    /\ pc[w] = "commit" /\ op[w] = "delta" /\ ClockFree
    /\ ~Superseded(w)
    /\ Visible # prev[w]
    /\ committed' = gen[w]
    /\ Return(w)
    /\ UNCHANGED <<file, owner, nextGen, budget, accepted>>

\* persist_read_baseline (provide, compress) or persist_baseline (delta).
PersistBaseline(w) ==
    /\ Goto(w, "persist", "publish")
    /\ durable' = IF AutoSave THEN Baseline(cand[w]) ELSE durable
    /\ accepted' = IF AutoSave THEN None ELSE accepted
    /\ UNCHANGED <<mix, disk, owner, ticket, clock, budget, op, locals>>

\* load_ir and the projections that follow it under the clock.
Publish(w) ==
    /\ pc[w] = "publish"
    /\ live' = cand[w]
    /\ maps' = TRUE
    /\ alias' = (alias \/ op[w] = "delta")
    /\ committed' = IF op[w] = "compress" THEN committed ELSE gen[w]
    /\ accepted' = None
    /\ Return(w)
    /\ UNCHANGED <<file, pending, retired, nextGen, budget>>

SameState(c, p) == c # None /\ c.ver = p.ver /\ c.src = p.src

\* ensure_persisted_baseline: the row is missing, or holds exactly prev[w].
\* apply_delta calls it too, before it enters the clock.
EnsureMissing(w) ==
    /\ Goto(w, "ensure", "ensurePersist")
    /\ durable = NoRow /\ maps
    /\ UNCHANGED <<file, owner, ticket, clock, budget, accepted, op, locals>>

EnsureMatches(w) ==
    /\ Goto(w, "ensure", IF op[w] = "delta" THEN "remember" ELSE "contextId")
    /\ durable # NoRow
    /\ \E c \in LoadDurable(durable) : SameState(c, prev[w])
    /\ UNCHANGED <<file, owner, ticket, clock, budget, accepted, op, locals>>

\* "Durable baseline does not match session canonical state", and the errors
\* of load_durable_context.
EnsureRefuses(w) ==
    /\ pc[w] = "ensure"
    /\ IF durable = NoRow THEN ~maps
       ELSE \E c \in LoadDurable(durable) : ~SameState(c, prev[w])
    /\ Return(w)
    /\ UNCHANGED <<file, owner, ticket, budget, accepted>>

EnsurePersist(w) ==
    /\ Goto(w, "ensurePersist",
            IF op[w] = "delta" THEN "remember" ELSE "contextId")
    /\ durable' = Baseline(prev[w])
    /\ accepted' = None
    /\ maps' = TRUE
    /\ UNCHANGED <<mix, disk, live, alias, pending, retired, ticket, clock, budget,
                   op, locals>>

Key(t) == <<t.from, t.to>>

\* compute: a non-empty delta becomes the pending transition of its key; equal
\* instruction lists only move the live source hash.
Remember(w) ==
    /\ pc[w] = "remember"
    /\ LET t == [from |-> prev[w].ver, to |-> cand[w].ver, base |-> prev[w].ir,
                 target |-> cand[w].src, inst |-> gen[w]]
       IN  IF cand[w].ir = prev[w].ir
           THEN /\ live' = [live EXCEPT !.src = cand[w].src]
                /\ accepted' = None
                /\ UNCHANGED pending
           ELSE /\ pending' = {u \in pending : Key(u) # Key(t)} \union {t}
                /\ UNCHANGED <<live, accepted>>
    /\ committed' = gen[w]
    /\ Return(w)
    /\ UNCHANGED <<file, alias, maps, retired, nextGen, budget>>

-----------------------------------------------------------------------------
(* apply_delta *)

\* The client sends back a delta it was given; it must still be pending.
Lookup(w) ==
    /\ Goto(w, "lookup", "applyBase")
    /\ \E t \in pending : held' = [held EXCEPT ![w] = {t}]
    /\ UNCHANGED <<file, owner, ticket, clock, budget, accepted, op, gen, prev,
                   cand, ctx>>

LookupFails(w) ==
    /\ pc[w] = "lookup"
    /\ Return(w)
    /\ UNCHANGED <<file, owner, ticket, budget, accepted>>

\* ensure_apply_baseline reads the live context without the clock.
ApplyBase(w) ==
    /\ pc[w] = "applyBase"
    /\ IF live = None
       THEN Return(w)
       ELSE /\ pc' = [pc EXCEPT ![w] = "ensure"]
            /\ prev' = [prev EXCEPT ![w] = live]
            /\ UNCHANGED <<clock, op, gen, cand, held, ctx>>
    /\ UNCHANGED <<file, owner, ticket, budget, accepted>>

\* persisted_context_id
ContextId(w) ==
    /\ pc[w] = "contextId"
    /\ IF durable = NoRow
       THEN Return(w)
       ELSE /\ pc' = [pc EXCEPT ![w] = "apply"]
            /\ ctx' = [ctx EXCEPT ![w] = durable.id]
            /\ UNCHANGED <<clock, op, gen, prev, cand, held>>
    /\ UNCHANGED <<file, owner, ticket, budget, accepted>>

Transition(w) == CHOOSE t \in held[w] : TRUE

\* with_semantic_authority_update: replay on a copy of the live context, append
\* durably, then replace the live context and consume the transition.  The
\* ir_context mutex is held from the copy to the replacement.
Apply(w) ==
    /\ pc[w] = "apply" /\ ClockFree
    /\ Transition(w).inst \notin retired
    /\ live # None
    /\ durable # NoRow /\ durable.id = ctx[w]
    /\ \E c \in ApplySequence(live, Transition(w)) :
          /\ c # None
          /\ durable' = Appended(durable, Transition(w))
          /\ live' = c
          /\ accepted' = c
    /\ pending' = {u \in pending : Key(u) # Key(Transition(w))}
    /\ maps' = TRUE
    /\ Return(w)
    /\ UNCHANGED <<mix, disk, alias, retired, ticket, budget>>

ApplyFails(w) ==
    /\ pc[w] = "apply" /\ ClockFree
    /\ \/ Transition(w).inst \in retired
       \/ live = None
       \/ durable = NoRow
       \/ durable # NoRow /\ durable.id # ctx[w]
       \/ live # None /\ None \in ApplySequence(live, Transition(w))
    /\ Return(w)
    /\ UNCHANGED <<file, owner, ticket, budget, accepted>>

-----------------------------------------------------------------------------
(* save_context, restore_context, replay_history *)

\* save_context_snapshot under the clock.
Snapshot(w) ==
    /\ pc[w] = "snapshot" /\ ClockFree
    /\ IF live # None /\ maps /\ live.src = disk
       THEN /\ pc' = [pc EXCEPT ![w] = "savePersist"]
            /\ cand' = [cand EXCEPT ![w] = live]
            /\ UNCHANGED <<clock, op, gen, prev, held, ctx>>
       ELSE Return(w)
    /\ UNCHANGED <<file, owner, ticket, budget, accepted>>

\* The closure it returns runs after the clock is released.
SavePersist(w) ==
    /\ pc[w] = "savePersist"
    /\ durable' = IF DurableMatches(cand[w]) THEN durable ELSE Baseline(cand[w])
    /\ Return(w)
    /\ UNCHANGED <<mix, disk, owner, ticket, budget, accepted>>

\* load_durable_context, at a requested sequence for replay_history.
Load(w) ==
    /\ pc[w] = "load"
    /\ \E n \in 0 .. (IF durable = NoRow THEN 0 ELSE Len(durable.chain)) :
          LET latest == op[w] = "restore"
              found  == IF durable = NoRow THEN {None} ELSE LoadAt(durable, n, latest)
          IN  /\ latest /\ durable # NoRow => n = Len(durable.chain)
              /\ \E c \in found :
                    IF c = None
                    THEN Return(w)
                    ELSE /\ pc' = [pc EXCEPT ![w] = IF latest THEN "validate" ELSE "adopt"]
                         /\ cand' = [cand EXCEPT ![w] = c]
                         /\ UNCHANGED <<clock, op, gen, prev, held, ctx>>
    /\ UNCHANGED <<file, owner, ticket, budget, accepted>>

\* validate_current_context: the durable hash must be the hash of the file.
Validate(w) ==
    /\ pc[w] = "validate"
    /\ IF cand[w].src = disk
       THEN /\ pc' = [pc EXCEPT ![w] = "adopt"]
            /\ alias' = TRUE
            /\ UNCHANGED <<clock, op, locals>>
       ELSE Return(w) /\ UNCHANGED alias
    /\ UNCHANGED <<file, live, maps, pending, retired, ticket, budget, accepted>>

\* The ticket orders the operation, not the age of the state it adopts.
Adopt(w) ==
    /\ pc[w] = "adopt" /\ ClockFree
    /\ IF gen[w] > committed
       THEN /\ live' = cand[w]
            /\ maps' = TRUE
            /\ committed' = gen[w]
            /\ accepted' = None
       ELSE UNCHANGED <<live, maps, committed, accepted>>
    /\ alias' = TRUE
    /\ Return(w)
    /\ UNCHANGED <<file, pending, retired, nextGen, budget>>

-----------------------------------------------------------------------------
(* delete_context, purge_old_deltas, workspace refresh: no ticket *)

DeleteRows(w) ==
    /\ pc[w] = "deleteRows"
    /\ IF durable = NoRow
       THEN Return(w)
       ELSE /\ pc' = [pc EXCEPT ![w] = "deleteLive"]
            /\ UNCHANGED <<clock, op, locals>>
    /\ durable' = NoRow
    /\ accepted' = None
    /\ UNCHANGED <<mix, disk, owner, ticket, budget>>

DeleteLive(w) ==
    /\ Goto(w, "deleteLive", "deleteMaps")
    /\ \A v \in Workers : ~Locked(v)
    /\ live' = None
    /\ UNCHANGED <<file, alias, maps, pending, retired, ticket, clock, budget,
                   accepted, op, locals>>

\* forget_persisted_path, forget_semantic_state
DeleteMaps(w) ==
    /\ Goto(w, "deleteMaps", "deleteAlias")
    /\ maps' = FALSE
    /\ pending' = {}
    /\ UNCHANGED <<file, live, alias, retired, ticket, clock, budget, accepted,
                   op, locals>>

DeleteAlias(w) ==
    /\ pc[w] = "deleteAlias"
    /\ alias' = FALSE
    /\ Return(w)
    /\ UNCHANGED <<file, live, maps, pending, retired, ticket, budget, accepted>>

\* The deltas applied before a point in time go, whatever follows them.
Purge(w) ==
    /\ pc[w] = "purge"
    /\ IF durable = NoRow THEN UNCHANGED durable
       ELSE \E n \in 0..Len(durable.chain) :
              durable' = [durable EXCEPT !.chain = SubSeq(@, n + 1, Len(@))]
    /\ Return(w)
    /\ UNCHANGED <<mix, disk, owner, ticket, budget, accepted>>

\* forget_pending_transitions_in_root: list, then retire each under the clock.
ListPending(w) ==
    /\ Goto(w, "list", "retire")
    /\ held' = [held EXCEPT ![w] = pending]
    /\ UNCHANGED <<file, owner, ticket, clock, budget, accepted, op, gen, prev,
                   cand, ctx>>

Retire(w) ==
    /\ pc[w] = "retire" /\ held[w] # {} /\ ClockFree
    /\ \E t \in held[w] :
          /\ retired' = retired \union {t.inst}
          /\ pending' = {u \in pending : Key(u) # Key(t)}
          /\ held' = [held EXCEPT ![w] = @ \ {t}]
    /\ UNCHANGED <<file, live, alias, maps, ticket, clock, budget, accepted, pc,
                   op, gen, prev, cand, ctx>>

RefreshDone(w) ==
    /\ pc[w] = "retire" /\ held[w] = {}
    /\ Return(w)
    /\ UNCHANGED <<file, owner, ticket, budget, accepted>>

-----------------------------------------------------------------------------
(* Adversity *)

\* The transactions that may fail: the handler returns an error.
StoreFails(w) ==
    /\ \/ pc[w] = "persist" /\ AutoSave
       \/ pc[w] \in {"ensurePersist", "savePersist", "deleteRows", "purge"}
       \/ pc[w] = "apply" /\ ClockFree
    /\ TransactionFails(w)

\* Another program rewrites the file.
OutsideWrite ==
    /\ adversity < mix.adversity
    /\ adversity' = adversity + 1
    /\ disk' \in Contents \ {disk}
    /\ UNCHANGED <<mix, durable, owner, ticket, clock, calls, accepted, pc, op, locals>>

\* Everything in memory is lost; the rows and the file stay.
Crash ==
    /\ adversity < mix.adversity
    /\ adversity' = adversity + 1
    /\ live' = None /\ alias' = FALSE /\ maps' = FALSE
    /\ pending' = {} /\ retired' = {}
    /\ nextGen' = 0 /\ committed' = 0 /\ clock' = None
    /\ pc' = [w \in Workers |-> "idle"]
    /\ gen' = [w \in Workers |-> 0]
    /\ prev' = [w \in Workers |-> None]
    /\ cand' = [w \in Workers |-> NoContext]
    /\ held' = [w \in Workers |-> {}]
    /\ ctx' = [w \in Workers |-> None]
    /\ UNCHANGED <<file, calls, accepted, op>>

Step(w) ==
    \/ \E o \in mix.handlers : Begin(w, o)
    \/ AnswerCached(w) \/ Capture(w) \/ Compile(w) \/ CommitRefused(w)
    \/ EnterCommit(w) \/ AuthorityMoved(w) \/ PersistBaseline(w) \/ Publish(w)
    \/ EnsureMissing(w) \/ EnsureMatches(w) \/ EnsureRefuses(w)
    \/ EnsurePersist(w) \/ Remember(w)
    \/ Lookup(w) \/ LookupFails(w) \/ ApplyBase(w) \/ ContextId(w)
    \/ Apply(w) \/ ApplyFails(w)
    \/ Snapshot(w) \/ SavePersist(w) \/ Load(w) \/ Validate(w) \/ Adopt(w)
    \/ DeleteRows(w) \/ DeleteLive(w) \/ DeleteMaps(w) \/ DeleteAlias(w)
    \/ Purge(w) \/ ListPending(w) \/ Retire(w) \/ RefreshDone(w)
    \/ StoreFails(w)

Next == (\E w \in Workers : Step(w)) \/ OutsideWrite \/ Crash

Spec == Init /\ [][Next]_vars

-----------------------------------------------------------------------------
(* Properties *)

\* The steps a worker takes while it holds the publication clock.
ClockSteps == {"persist", "publish", "remember"}

Steps == ClockSteps \union
    {"idle", "capture", "compile", "commit", "ensure", "ensurePersist", "lookup",
     "applyBase", "contextId", "apply", "snapshot", "savePersist", "load",
     "validate", "adopt", "deleteRows", "deleteLive", "deleteMaps",
     "deleteAlias", "purge", "list", "retire"}

\* Type correctness, and the lock discipline of the clock: it is held exactly
\* by the handler that is inside a commit or an authority update.
TypeOK ==
    /\ mix \in Mixes /\ disk \in Contents
    /\ durable = NoRow \/
         /\ durable.id \in Contents /\ durable.hash \in Contents
         /\ durable.ver \in Nat /\ durable.ir \in Irs
         /\ durable.chain \in Seq(Transitions)
         /\ \A v \in DOMAIN durable.snaps : durable.snaps[v] \in Contents
    /\ live \in Contexts \union {None}
    /\ alias \in BOOLEAN /\ maps \in BOOLEAN
    /\ pending \subseteq Transitions /\ retired \subseteq Nat
    /\ nextGen \in Nat /\ committed \in 0..nextGen
    /\ calls \in Nat /\ adversity \in Nat
    /\ accepted \in Contexts \union {None}
    /\ pc \in [Workers -> Steps] /\ op \in [Workers -> AllHandlers]
    /\ gen \in [Workers -> Nat]
    /\ prev \in [Workers -> Contexts \union {None}]
    /\ cand \in [Workers -> Contexts \union {NoContext}]
    /\ held \in [Workers -> SUBSET Transitions]
    /\ ctx \in [Workers -> Contents \union {None}]
    /\ \A w \in Workers : clock = w <=> pc[w] \in ClockSteps \/ Locked(w)
    /\ clock \in Workers \union {None}

\* Sessions whose clients only generate and apply deltas, with refreshes.
DeltaSession == mix.handlers \subseteq {"delta", "apply", "refresh"}

\* A delta is applied to the instructions it was computed from: the live
\* context always is the compilation of the bytes whose hash it carries, so
\* neither a displaced or repeated apply_delta nor a delta generated against
\* an older context ever splices two of them (delta_apply.rs, delta.rs).
LiveCoherent == live # None => live.ir = Ir[live.src]

DeltaKeepsBase == DeltaSession => LiveCoherent

\* The rows apply_delta leaves always replay: load_durable_context finds every
\* version of the chain and the snapshot of the last one (semantic_state.rs).
ChainLoads == durable # NoRow => None \notin LoadDurable(durable)

DeltaChainLoads == DeltaSession => ChainLoads

\* A transition that apply_delta acknowledged is what the durable rows load
\* as, until a later operation replaces the live context.
AcceptedDurable ==
    accepted # None => durable # NoRow /\ LoadDurable(durable) = {accepted}

DeltaAcceptedDurable == DeltaSession => AcceptedDurable

\* Whatever the handlers and their interleaving, the live authority obeys the
\* order of the publication clock (publication.rs).
Ordered == INSTANCE OrderedAuthority
    WITH published <- live, stamp <- committed, Sources <- Contents,
         ordered <- "compress" \notin mix.handlers

ImplementsOrdered == Ordered!Spec

\* A compiled context published over another carries a later version.
VersionsAdvance ==
    [][\A w \in Workers : Publish(w) /\ live # None => live'.ver > live.ver]_vars
=============================================================================
