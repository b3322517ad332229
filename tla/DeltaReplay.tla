---------------------------- MODULE DeltaReplay ----------------------------
(***************************************************************************)
(* The positional delta protocol (src/src/ir/delta/sequence.rs), its       *)
(* replay (src/src/ir/replay/sequence.rs) and the server's side of it      *)
(* (tool_handlers/core/delta.rs, delta_apply.rs): the server compiles a    *)
(* changed file and emits the delta from the last version it accepted, a   *)
(* replica (src/src/ir/replay.rs, "client-side state machine") applies     *)
(* what reaches it, and a delta the client returns advances the server.    *)
(* Deltas are lost, repeated and reordered.  An instruction is a canonical *)
(* tuple [op, key, arg]; two tuples of a keyed opcode with the same key    *)
(* have the same identity whatever their other operands.  The              *)
(* delta_version and tuple_to_op validations never fail on what the server *)
(* emits and are left out; so are the handlers that rewind a file to an    *)
(* older version or delete it, and publications that overlap on one        *)
(* version: requests for the file come one at a time (Authority has both). *)
(***************************************************************************)
EXTENDS Naturals, Sequences, SequencesExt

CONSTANTS
    Tuples,         \* the canonical tuples
    Keyed,          \* opcodes whose identity is a prefix of the tuple
    MaxLen,         \* bound: instructions of one version
    MaxTotal,       \* bound: the lists compiled and their instructions, together
    MaxVersions     \* bound: versions the server accepts

ASSUME MaxLenAssumption == MaxLen \in Nat

VARIABLES
    history,        \* history[v]: the instructions the server accepted as version v
    remembered,     \* the transitions the server remembers, one for each pair of versions
    emitted,        \* the deltas sent so far
    acknowledged,   \* history variable: the deltas that advanced the server
    replica,        \* FileState: [tracked, version, instructions]
    followed        \* history variable: the deltas the replica applied since its last full IR

acceptedVars == <<history, remembered, emitted, acknowledged>>
replayVars == <<acceptedVars, replica, followed>>

Lists == BoundedSeq(Tuples, MaxLen)

UntrackedFile == [tracked |-> FALSE, version |-> 0, instructions |-> <<>>]

Identity(tuple) ==
    IF tuple.op \in Keyed THEN <<tuple.op, tuple.key>> ELSE <<tuple.op, tuple.key, tuple.arg>>

\* The identity of position p and how many equal ones precede it.
OccurrenceKey(instructions, p) ==
    [identity |-> Identity(instructions[p]),
     occurrence |-> Cardinality({q \in 1..(p - 1) :
                        Identity(instructions[q]) = Identity(instructions[p])})]

-----------------------------------------------------------------------------
(* SequenceDeltaComputer.compute *)

CommonPrefix(base, target) ==
    CHOOSE n \in 0..Len(base) :
        /\ n <= Len(target) /\ \A i \in 1..n : base[i] = target[i]
        /\ n < Len(base) /\ n < Len(target) => base[n + 1] # target[n + 1]

\* The suffix never reaches back into the prefix.
CommonSuffix(base, target) ==
    LET prefix == CommonPrefix(base, target)
    IN  CHOOSE n \in 0..(Len(base) - prefix) :
            /\ n <= Len(target) - prefix
            /\ \A i \in 0..(n - 1) : base[Len(base) - i] = target[Len(target) - i]
            /\ n < Len(base) - prefix /\ n < Len(target) - prefix
                  => base[Len(base) - n] # target[Len(target) - n]

Smaller(m, n) == IF m < n THEN m ELSE n

\* Replacements over the shorter middle, then the surplus removed or inserted.
Plan(base, target) ==
    LET prefix == CommonPrefix(base, target)
        suffix == CommonSuffix(base, target)
        baseMiddle == Len(base) - prefix - suffix
        targetMiddle == Len(target) - prefix - suffix
        replacements == Smaller(baseMiddle, targetMiddle)
    IN  [k \in 1..(baseMiddle + targetMiddle - replacements) |->
            IF k <= replacements
            THEN [op |-> "replace", at |-> prefix + k, tuple |-> target[prefix + k]]
            ELSE IF replacements < baseMiddle
            THEN [op |-> "remove", at |-> prefix + replacements + 1]
            ELSE [op |-> "insert", at |-> prefix + k, tuple |-> target[prefix + k]]]

InsertIn(work, at, tuple) ==
    [i \in 1..(Len(work) + 1) |->
        IF i < at THEN work[i] ELSE IF i = at THEN tuple ELSE work[i - 1]]
RemoveIn(work, at) ==
    [i \in 1..(Len(work) - 1) |-> IF i < at THEN work[i] ELSE work[i + 1]]

Edited(work, edit) ==
    CASE edit.op = "insert"  -> InsertIn(work, edit.at, edit.tuple)
      [] edit.op = "remove"  -> RemoveIn(work, edit.at)
      [] edit.op = "replace" -> [work EXCEPT ![edit.at] = edit.tuple]

\* Mutant: the key of a replacement is taken before the tuple is in place.
ValueKey_early(edit, before, after) ==
    OccurrenceKey(IF edit.op = "replace" THEN before ELSE after, edit.at)

ValueKey(edit, before, after) == OccurrenceKey(after, edit.at)

\* An edit with the tuple and the key it expects on the working copy before
\* it, and the key it leaves after it.
Recorded(edit, before, after) ==
    CASE edit.op = "insert" ->
            [op |-> "insert", at |-> edit.at, tuple |-> edit.tuple,
             value |-> ValueKey(edit, before, after)]
      [] edit.op = "remove" ->
            [op |-> "remove", at |-> edit.at,
             target |-> OccurrenceKey(before, edit.at), expected |-> before[edit.at]]
      [] edit.op = "replace" ->
            [op |-> "replace", at |-> edit.at, tuple |-> edit.tuple,
             target |-> OccurrenceKey(before, edit.at), expected |-> before[edit.at],
             value |-> ValueKey(edit, before, after)]

\* The working copy after each edit of a plan.
Works(base, plan) ==
    LET work[k \in 0..Len(plan)] == IF k = 0 THEN base ELSE Edited(work[k - 1], plan[k])
    IN  work

ComputeEdits(base, target) ==
    LET plan == Plan(base, target)
        work == Works(base, plan)
    IN  [k \in 1..Len(plan) |-> Recorded(plan[k], work[k - 1], work[k])]

-----------------------------------------------------------------------------
(* ContextState.apply_sequence *)

\* ensure_expected and ensure_occurrence before the edit, ensure_occurrence after.
EditFits(work, edit) ==
    CASE edit.op = "insert" ->
            /\ edit.at <= Len(work) + 1
            /\ OccurrenceKey(Edited(work, edit), edit.at) = edit.value
      [] edit.op = "remove" ->
            /\ edit.at <= Len(work) /\ work[edit.at] = edit.expected
            /\ OccurrenceKey(work, edit.at) = edit.target
      [] edit.op = "replace" ->
            /\ edit.at <= Len(work) /\ work[edit.at] = edit.expected
            /\ OccurrenceKey(work, edit.at) = edit.target
            /\ OccurrenceKey(Edited(work, edit), edit.at) = edit.value

ApplyEdit(acc, edit) ==
    IF acc.ok /\ EditFits(acc.work, edit) THEN [ok |-> TRUE, work |-> Edited(acc.work, edit)]
    ELSE [ok |-> FALSE, work |-> acc.work]

Replay(instructions, delta) ==
    LET acc[k \in 0..Len(delta.edits)] ==
            IF k = 0 THEN [ok |-> TRUE, work |-> instructions]
            ELSE ApplyEdit(acc[k - 1], delta.edits[k])
    IN  acc[Len(delta.edits)]

\* Mutant: a delta is applied whatever version it starts from.
VersionsFit_unchecked(file, delta) == file.tracked

\* UnknownFile, VersionMismatch, NonMonotonicVersion.
VersionsFit(file, delta) ==
    file.tracked /\ file.version = delta.from /\ delta.to > delta.from

\* A delta that does not fit leaves the file as it was.
ApplySequence(file, delta) ==
    LET replayed == Replay(file.instructions, delta)
    IN  IF VersionsFit(file, delta) /\ replayed.ok
        THEN [file EXCEPT !.version = delta.to, !.instructions = replayed.work]
        ELSE file

-----------------------------------------------------------------------------
\* The server's own state of the file (ir_ctx).
Live == [tracked |-> TRUE, version |-> Len(history), instructions |-> Last(history)]

ReplayInit ==
    /\ \E first \in Lists : history = <<first>>
    /\ remembered = {} /\ emitted = {} /\ acknowledged = {}
    /\ replica = UntrackedFile /\ followed = {}

\* What a compilation may produce, within the bounds.
Cost(list) == Len(list) + 2
Compilable ==
    LET spent == MapThenSumSet(LAMBDA version : Cost(history[version]), DOMAIN history)
                 + MapThenSumSet(LAMBDA delta : Cost(delta.target), emitted \ acknowledged)
    IN  {target \in Lists : Len(history) < MaxVersions /\ spent + Cost(target) <= MaxTotal}

\* delta_code_context on a changed file: the delta is numbered from the last
\* version the server accepted and only remembered, in the place of an earlier
\* one for the same pair of versions.  target stands for its target_hash.  The
\* same tuples emit nothing (compute returns None).
Recompile(target) ==
    LET base == Last(history)
        delta == [from |-> Len(history), to |-> Len(history) + 1, target |-> target,
                  edits |-> ComputeEdits(base, target)]
    IN  /\ target # base
        /\ emitted' = emitted \union {delta}
        /\ remembered' = {other \in remembered : other.from # delta.from} \union {delta}
        /\ UNCHANGED <<history, acknowledged, replica, followed>>

\* apply_delta: the very transition that is remembered, on the server's own state.
Acknowledge(delta) ==
    LET file == ApplySequence(Live, delta)
    IN  /\ delta \in remembered /\ file # Live
        /\ history' = Append(history, file.instructions)
        /\ acknowledged' = acknowledged \union {delta}
        /\ remembered' = remembered \ {delta}
        /\ UNCHANGED <<emitted, replica, followed>>

\* compress_code_context, provide_code_context and apply_edit publish a compiled
\* file as the next version, without a delta; apply_edit forgets the remembered
\* transitions with it.
Publish(target) ==
    /\ history' = Append(history, target)
    /\ remembered' \in {remembered, {}}
    /\ UNCHANGED <<emitted, acknowledged, replica, followed>>

\* A refresh retires the remembered transitions of the file.
ForgetPending ==
    /\ remembered # {}
    /\ remembered' = {}
    /\ UNCHANGED <<history, emitted, acknowledged, replica, followed>>

\* A full IR overwrites whatever the replica had; an old one may arrive late.
LoadIr(version) ==
    /\ replica' = [tracked |-> TRUE, version |-> version, instructions |-> history[version]]
    /\ followed' = {}
    /\ UNCHANGED acceptedVars

\* A delivery does not consume the delta: the next one repeats it.
Deliver(delta) ==
    /\ replica' = ApplySequence(replica, delta)
    /\ followed' = IF replica' = replica THEN followed ELSE followed \union {delta}
    /\ UNCHANGED acceptedVars

DropFile ==
    /\ replica.tracked
    /\ replica' = UntrackedFile /\ followed' = {}
    /\ UNCHANGED acceptedVars

ReplayNext ==
    \/ \E target \in Compilable : Recompile(target) \/ Publish(target)
    \/ \E version \in DOMAIN history : LoadIr(version)
    \/ \E delta \in emitted : Acknowledge(delta) \/ Deliver(delta)
    \/ ForgetPending
    \/ DropFile

ReplaySpec == ReplayInit /\ [][ReplayNext]_replayVars

-----------------------------------------------------------------------------
\* Whatever was lost, repeated or reordered, and whichever came first, the
\* replica's copy of a delta or the server's acknowledgement of it: a replica
\* all of whose deltas the server accepted holds the instructions the server
\* accepted as that version (apply_sequence, remember_pending_transition).
ReplicaExact ==
    replica.tracked /\ followed \subseteq acknowledged
        => replica.version \in DOMAIN history /\ replica.instructions = history[replica.version]

\* Every delta the server sent, accepted or not, leads from the version it
\* names to the target it was computed for: no position or occurrence recorded
\* on the server's working copy conflicts during replay.
DeltaApplies ==
    \A delta \in emitted :
        Replay(history[delta.from], delta) = [ok |-> TRUE, work |-> delta.target]

\* "Validate version chains to prevent out-of-order application"
\* (src/src/ir/replay.rs:11): a replica holds nothing but lists that were
\* compiled.  A delta the server replaced before it was accepted has the
\* versions of another one, and an insertion names no tuple of its base.
ReplicaHoldsCompiled ==
    replica.tracked => replica.instructions \in Range(history) \union {delta.target : delta \in emitted}
=============================================================================
