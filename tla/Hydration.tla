----------------------------- MODULE Hydration ------------------------------
(***************************************************************************)
(* Semantic hydration of workspace queries: which files a name may occur   *)
(* in is discovered through CBM or a filesystem scan, the candidates are   *)
(* compiled and published under their publication clocks, and completion   *)
(* is recorded in a discovery cache whose generations invalidate it.  The  *)
(* shared source cache is the read boundary of all of it; refresh_workspace*)
(* and apply_edit invalidate, other programs write behind the server.      *)
(* With a durable store an edit leaves an intent that the next request for *)
(* the file recovers.                                                      *)
(*                                                                         *)
(* One workspace root, one target name and one discovery mode: scopes,     *)
(* names and modes never share a cache entry.  The WorkspaceIndex is here  *)
(* what each file contributes to it (module WorkspaceIndex shows that the  *)
(* maps follow).                                                           *)
(***************************************************************************)
EXTENDS Naturals, FiniteSets

CONSTANTS
    Workers, Files,
    Contents,     \* possible contents of a file
    Mentions,     \* the contents that hold the target name and its facts
    Absent,       \* a file that does not exist
    None,
    Mixes         \* kinds of session, see MixType

Handlers == {"query", "inspect", "edit", "refresh", "reindex"}
Scopes == {"cbm", "filesystem"}
Requirements == {"edit", "semantic"}

MixType == [handlers: SUBSET Handlers, calls: Nat, writes: Nat,
            serial: BOOLEAN,    \* one request at a time
            hidden: BOOLEAN,    \* a write may keep mtime and size
            bridge: BOOLEAN,    \* CBM is available
            store: BOOLEAN]     \* the durable store is enabled

ASSUME HydrationAssumption ==
    /\ Mentions \subseteq Contents /\ Absent \notin Contents
    /\ Mixes \subseteq MixType
    /\ None \notin Workers \union Nat
    /\ None \notin [src: Contents, covered: BOOLEAN]
    /\ None \notin [prior: Contents, target: Contents]

VARIABLES
    mix,
    disk,       \* file -> [src, stamp]; stamp stands for (mtime, size)
    cache,      \* source_cache: file -> None or [src, stamp]
    index,      \* file -> None or [src, covered]
    gens,       \* discovery generations: scope -> None (untracked) or Nat
    done,       \* <<scope, requirement>> -> None or generation
    graph,      \* CBM: file -> the content it last indexed (external)
    dirty,      \* CBM: the project must be reindexed
    intent,     \* durable edit intents: file -> None or [prior, target]
    nextGen, committed, clock,   \* publication clock of each file
    calls, writes,
    unseen,     \* history: files other programs changed since the last refresh
    ungraphed,  \* history: files written since the last index_repository and not
                \* marked dirty: by other programs, by edits that failed, and
                \* while the bridge was down
    torn,       \* history: files left with the bytes of a failed edit, until they
                \* are recovered, edited again or refreshed
    pc, op, req, file, todo, found, marks, failed, stamp, got, ret, built, gen

world  == <<mix, disk, graph, dirty, intent, unseen, ungraphed, torn>>
shared == <<cache, index, gens, done>>
clocks == <<nextGen, committed, clock>>
budget == <<calls, writes>>
locals == <<req, file, todo, found, marks, failed, stamp, got, ret, built, gen>>
vars   == <<world, shared, clocks, budget, pc, op, locals>>

Everyone(v) == [w \in Workers |-> v]

Init ==
    /\ mix \in Mixes
    /\ disk \in [Files -> [src: Contents, stamp: {0}]]
    /\ cache = [f \in Files |-> None] /\ index = [f \in Files |-> None]
    /\ gens = [s \in Scopes |-> None]
    /\ done = [t \in Scopes \X Requirements |-> None]
    /\ graph = [f \in Files |-> disk[f].src] /\ dirty = FALSE
    /\ nextGen = [f \in Files |-> 0] /\ committed = nextGen
    /\ clock = [f \in Files |-> None]
    /\ calls = 0 /\ writes = 0 /\ unseen = {} /\ ungraphed = {}
    /\ intent = [f \in Files |-> None] /\ torn = {}
    /\ pc = Everyone("idle") /\ op = Everyone("query") /\ req = Everyone("edit")
    /\ file = Everyone(None) /\ todo = Everyone({}) /\ found = Everyone({})
    /\ marks = Everyone({}) /\ failed = Everyone(FALSE) /\ stamp = Everyone(0)
    /\ got = Everyone(Absent) /\ ret = Everyone("idle")
    /\ built = Everyone(Absent) /\ gen = Everyone(0)

-----------------------------------------------------------------------------
(* The discovery cache *)

Generation(s) == IF gens[s] = None THEN 0 ELSE gens[s]

\* is_complete_for
IsComplete(s, r) == done[<<s, r>>] # None /\ done[<<s, r>>] = Generation(s)

\* Mutant: an untracked scope is not recorded, so it cannot be invalidated.
MarkCompleteUntracked(S, r) ==
    /\ gens' = gens
    /\ done' = [t \in DOMAIN done |->
                  IF t[1] \in S /\ t[2] = r THEN Generation(t[1]) ELSE done[t]]

\* mark_complete_for: the generation it finds, tracked from now on.
MarkComplete(S, r) ==
    /\ gens' = [s \in Scopes |-> IF s \in S THEN Generation(s) ELSE gens[s]]
    /\ done' = [t \in DOMAIN done |->
                  IF t[1] \in S /\ t[2] = r THEN Generation(t[1]) ELSE done[t]]

\* invalidate_all; with one root invalidate_root is the same.
InvalidateAll ==
    gens' = [s \in Scopes |-> IF gens[s] = None THEN None ELSE gens[s] + 1]

-----------------------------------------------------------------------------
(* Control *)

Goto(w, from, to) == pc[w] = from /\ pc' = [pc EXCEPT ![w] = to]

Forget(w) ==
    /\ req' = [req EXCEPT ![w] = "edit"] /\ file' = [file EXCEPT ![w] = None]
    /\ todo' = [todo EXCEPT ![w] = {}] /\ found' = [found EXCEPT ![w] = {}]
    /\ marks' = [marks EXCEPT ![w] = {}] /\ failed' = [failed EXCEPT ![w] = FALSE]
    /\ stamp' = [stamp EXCEPT ![w] = 0] /\ got' = [got EXCEPT ![w] = Absent]
    /\ ret' = [ret EXCEPT ![w] = "idle"] /\ built' = [built EXCEPT ![w] = Absent]
    /\ gen' = [gen EXCEPT ![w] = 0]

Release(w) == clock' = [f \in Files |-> IF clock[f] = w THEN None ELSE clock[f]]

Return(w) ==
    /\ pc' = [pc EXCEPT ![w] = "idle"]
    /\ Release(w)
    /\ Forget(w)
    /\ UNCHANGED op

Begin(w, o) ==
    /\ Goto(w, "idle", CASE o = "query" -> "discover"
                         [] o = "inspect" -> "stat"
                         [] o = "edit" -> "edit"
                         [] o = "refresh" -> "refreshCache"
                         [] o = "reindex" -> "reindex")
    /\ calls < mix.calls
    /\ mix.serial => \A v \in Workers : pc[v] = "idle"
    /\ calls' = calls + 1
    /\ op' = [op EXCEPT ![w] = o]
    /\ \E r \in Requirements, f \in Files :
          /\ req' = [req EXCEPT ![w] = IF o = "query" THEN r ELSE @]
          /\ file' = [file EXCEPT ![w] = IF o \in {"inspect", "edit"} THEN f ELSE @]
    /\ ret' = [ret EXCEPT ![w] = "inspected"]
    /\ UNCHANGED <<world, shared, clocks, writes, todo, found, marks, failed,
                   stamp, got, built, gen>>

-----------------------------------------------------------------------------
(* read_source: stat, look up, read without the lock, insert *)

\* Call read_source for a file and continue at `to`.
Call(w, f, to) ==
    /\ pc' = [pc EXCEPT ![w] = "stat"]
    /\ file' = [file EXCEPT ![w] = f]
    /\ ret' = [ret EXCEPT ![w] = to]

\* What a query and entities_in_file do with the bytes they compile.
Compilation(w) == IF op[w] = "inspect" THEN "inspectPublish" ELSE "compiled"

\* What the caller does with an I/O error: a scan is incomplete, a candidate
\* that cannot be compiled failed, a recovered context is not loaded, otherwise
\* the request fails.
ReadError(w) ==
    CASE ret[w] = "scanned" ->
           /\ pc' = [pc EXCEPT ![w] = "scan"]
           /\ marks' = [marks EXCEPT ![w] = {}]
           /\ todo' = [todo EXCEPT ![w] = @ \ {file[w]}]
           /\ UNCHANGED <<clock, op, req, file, found, failed, stamp, got, ret, built, gen>>
      [] ret[w] = "compiled" ->
           /\ pc' = [pc EXCEPT ![w] = "compile"]
           /\ failed' = [failed EXCEPT ![w] = TRUE]
           /\ todo' = [todo EXCEPT ![w] = @ \ {file[w]}]
           /\ UNCHANGED <<clock, op, req, file, found, marks, stamp, got, ret, built, gen>>
      [] ret[w] = "recovered" ->
           /\ Call(w, file[w], Compilation(w))
           /\ UNCHANGED <<clock, op, req, todo, found, marks, failed, stamp, got, built, gen>>
      [] OTHER -> Return(w)

ReadStat(w) ==
    LET f == file[w]
        hit == cache[f] # None /\ cache[f].stamp = disk[f].stamp
    IN  /\ pc[w] = "stat"
        /\ IF disk[f].src = Absent
           THEN ReadError(w) /\ UNCHANGED gens
           ELSE /\ stamp' = [stamp EXCEPT ![w] = disk[f].stamp]
                /\ pc' = [pc EXCEPT ![w] = IF hit THEN ret[w] ELSE "read"]
                /\ got' = [got EXCEPT ![w] = IF hit THEN cache[f].src ELSE @]
                /\ IF cache[f] # None /\ ~hit THEN InvalidateAll ELSE UNCHANGED gens
                /\ UNCHANGED <<clock, op, req, file, todo, found, marks, failed,
                               ret, built, gen>>
        /\ UNCHANGED <<world, cache, index, done, nextGen, committed, budget>>

ReadBytes(w) ==
    /\ pc[w] = "read"
    /\ IF disk[file[w]].src = Absent
       THEN ReadError(w)
       ELSE /\ pc' = [pc EXCEPT ![w] = "insert"]
            /\ got' = [got EXCEPT ![w] = disk[file[w]].src]
            /\ UNCHANGED <<clock, op, req, file, todo, found, marks, failed, stamp,
                           ret, built, gen>>
    /\ UNCHANGED <<world, shared, nextGen, committed, budget>>

\* Mutant: the entry carries the metadata of after the read.
ReadInsertLate(w) ==
    /\ Goto(w, "insert", ret[w])
    /\ cache' = [cache EXCEPT ![file[w]] = [src |-> got[w], stamp |-> disk[file[w]].stamp]]
    /\ UNCHANGED <<world, index, gens, done, clocks, budget, op, locals>>

ReadInsert(w) ==
    /\ Goto(w, "insert", ret[w])
    /\ cache' = [cache EXCEPT ![file[w]] = [src |-> got[w], stamp |-> stamp[w]]]
    /\ UNCHANGED <<world, index, gens, done, clocks, budget, op, locals>>

-----------------------------------------------------------------------------
(* discover_candidate_paths *)

\* A filesystem scan unless its scope is complete: the walk lists the files.
Scan(w) ==
    IF IsComplete("filesystem", req[w])
    THEN /\ pc' = [pc EXCEPT ![w] = "select"]
         /\ UNCHANGED <<todo, marks>>
    ELSE /\ pc' = [pc EXCEPT ![w] = "scan"]
         /\ todo' = [todo EXCEPT ![w] = {f \in Files : disk[f].src # Absent}]
         /\ marks' = [marks EXCEPT ![w] = {"filesystem"}]

DiscoverFiles(w) ==
    /\ pc[w] = "discover" /\ ~mix.bridge
    /\ Scan(w)
    /\ UNCHANGED <<world, shared, clocks, budget, op, req, file, found, failed,
                   stamp, got, ret, built, gen>>

DiscoverCached(w) ==
    /\ Goto(w, "discover", "select") /\ mix.bridge
    /\ IsComplete("cbm", req[w])
    /\ UNCHANGED <<world, shared, clocks, budget, op, locals>>

\* ensure_indexed_for reindexes a dirty project; an answer is recorded as
\* complete only when it was ready.
DiscoverGraph(w) ==
    /\ Goto(w, "discover", "select") /\ mix.bridge
    /\ ~IsComplete("cbm", req[w])
    /\ \/ /\ graph' = IF dirty THEN [f \in Files |-> disk[f].src] ELSE graph
          /\ dirty' = FALSE
          /\ marks' = [marks EXCEPT ![w] = {"cbm"}]
       \/ UNCHANGED <<graph, dirty, marks>>
    /\ found' = [found EXCEPT ![w] = {f \in Files : graph'[f] \in Mentions}]
    /\ UNCHANGED <<mix, disk, intent, unseen, ungraphed, torn, shared, clocks, budget, op, req,
                   file, todo, failed, stamp, got, ret, built, gen>>

\* The search fails: the root falls back to the filesystem.
DiscoverFails(w) ==
    /\ pc[w] = "discover" /\ mix.bridge
    /\ ~IsComplete("cbm", req[w])
    /\ Scan(w)
    /\ UNCHANGED <<world, shared, clocks, budget, op, req, file, found, failed,
                   stamp, got, ret, built, gen>>

ScanNext(w) ==
    /\ pc[w] = "scan"
    /\ \E f \in todo[w] : Call(w, f, "scanned")
    /\ UNCHANGED <<world, shared, clocks, budget, op, req, todo, found, marks,
                   failed, stamp, got, built, gen>>

Scanned(w) ==
    /\ Goto(w, "scanned", "scan")
    /\ todo' = [todo EXCEPT ![w] = @ \ {file[w]}]
    /\ found' = [found EXCEPT ![w] = IF got[w] \in Mentions THEN @ \union {file[w]} ELSE @]
    /\ UNCHANGED <<world, shared, clocks, budget, op, req, file, marks, failed,
                   stamp, got, ret, built, gen>>

ScanDone(w) ==
    /\ Goto(w, "scan", "select") /\ todo[w] = {}
    /\ UNCHANGED <<world, shared, clocks, budget, op, locals>>

\* select_candidates: files that exist; below Semantic only the unindexed.
Select(w) ==
    /\ Goto(w, "select", "compile")
    /\ todo' = [todo EXCEPT ![w] =
                  {f \in found[w] : disk[f].src # Absent /\ (req[w] = "edit" => index[f] = None)}]
    /\ UNCHANGED <<world, shared, clocks, budget, op, req, file, found, marks,
                   failed, stamp, got, ret, built, gen>>

-----------------------------------------------------------------------------
(* compile_candidate_for *)

NextGeneration(w, f) ==
    /\ clock[f] = None
    /\ nextGen' = [nextGen EXCEPT ![f] = @ + 1]
    /\ gen' = [gen EXCEPT ![w] = nextGen[f] + 1]
    /\ UNCHANGED <<committed, clock>>

\* Compile a file; with a durable store its edits are recovered first.
Compile(w, f) ==
    /\ pc' = [pc EXCEPT ![w] = IF mix.store THEN "preflight" ELSE "stat"]
    /\ file' = [file EXCEPT ![w] = f]
    /\ ret' = [ret EXCEPT ![w] = Compilation(w)]

CompileNext(w) ==
    /\ pc[w] = "compile"
    /\ \E f \in todo[w] :
          /\ NextGeneration(w, f)
          /\ IF req[w] = "semantic" THEN Call(w, f, "hashed") ELSE Compile(w, f)
    /\ UNCHANGED <<world, shared, budget, op, req, todo, found, marks, failed,
                   stamp, got, built>>

\* has_current_semantic_projection
IsCurrent(f, c) == index[f] # None /\ index[f].covered /\ index[f].src = c

Hashed(w) ==
    /\ pc[w] = "hashed"
    /\ IF IsCurrent(file[w], got[w])
       THEN /\ pc' = [pc EXCEPT ![w] = "compile"]
            /\ todo' = [todo EXCEPT ![w] = @ \ {file[w]}]
            /\ UNCHANGED <<file, ret>>
       ELSE Compile(w, file[w]) /\ UNCHANGED todo
    /\ UNCHANGED <<world, shared, clocks, budget, op, req, found, marks, failed,
                   stamp, got, built, gen>>

Compiled(w) ==
    /\ Goto(w, "compiled", "commit")
    /\ built' = [built EXCEPT ![w] = got[w]]
    /\ UNCHANGED <<world, shared, clocks, budget, op, req, file, todo, found,
                   marks, failed, stamp, got, ret, gen>>

\* SemanticPublicationTicket::commit: generation first, then the source.
CommitSuperseded(w) ==
    /\ Goto(w, "commit", "compile") /\ clock[file[w]] = None
    /\ gen[w] <= committed[file[w]]
    /\ failed' = [failed EXCEPT ![w] = TRUE]
    /\ todo' = [todo EXCEPT ![w] = @ \ {file[w]}]
    /\ UNCHANGED <<world, shared, clocks, budget, op, req, file, found, marks,
                   stamp, got, ret, built, gen>>

CommitCheck(w) ==
    /\ pc[w] = "commit" /\ clock[file[w]] = None
    /\ gen[w] > committed[file[w]]
    /\ clock' = [clock EXCEPT ![file[w]] = w]
    /\ Call(w, file[w], "checked")
    /\ UNCHANGED <<world, shared, nextGen, committed, budget, op, req, todo,
                   found, marks, failed, stamp, got, built, gen>>

\* Mutant: the bytes are not compared again under the clock.
PublishableUnchecked(w) == TRUE

Publishable(w) == got[w] = built[w]

\* At Edit fidelity a compilation without facts leaves the index alone.
Commit(w) ==
    LET f == file[w] IN
    /\ Goto(w, "checked", "compile")
    /\ IF Publishable(w)
       THEN /\ index' = IF req[w] = "semantic" \/ built[w] \in Mentions
                        THEN [index EXCEPT ![f] = [src |-> built[w],
                                                   covered |-> req[w] = "semantic"]]
                        ELSE index
            /\ committed' = [committed EXCEPT ![f] = gen[w]]
            /\ UNCHANGED failed
       ELSE /\ failed' = [failed EXCEPT ![w] = TRUE]
            /\ UNCHANGED <<index, committed>>
    /\ Release(w)
    /\ todo' = [todo EXCEPT ![w] = @ \ {f}]
    /\ UNCHANGED <<world, cache, gens, done, nextGen, budget, op, req, file,
                   found, marks, stamp, got, ret, built, gen>>

\* Completion is recorded when no publication failed; the answer follows.
Answer(w) ==
    /\ pc[w] = "compile" /\ todo[w] = {}
    /\ MarkComplete(IF failed[w] THEN {} ELSE marks[w], req[w])
    /\ Return(w)
    /\ UNCHANGED <<world, cache, index, nextGen, committed, budget>>

-----------------------------------------------------------------------------
(* entities_in_file compiles and publishes without a ticket *)

Inspected(w) ==
    /\ pc[w] = "inspected"
    /\ IF IsCurrent(file[w], got[w])
       THEN Return(w)
       ELSE Compile(w, file[w])
            /\ UNCHANGED <<clock, op, req, todo, found, marks, failed, stamp, got,
                           built, gen>>
    /\ UNCHANGED <<world, shared, nextGen, committed, budget>>

InspectPublish(w) ==
    /\ pc[w] = "inspectPublish"
    /\ index' = [index EXCEPT ![file[w]] = [src |-> got[w], covered |-> TRUE]]
    /\ Return(w)
    /\ UNCHANGED <<world, cache, gens, done, nextGen, committed, budget>>

-----------------------------------------------------------------------------
(* preflight_semantic_publication *)

\* recover_edit_intent: the file holds the bytes from before the edit, or those
\* the edit wrote.
Recoverable(f) == intent[f] # None /\ disk[f].src \in {intent[f].prior, intent[f].target}

PreflightNone(w) ==
    /\ pc[w] = "preflight" /\ intent[file[w]] = None
    /\ Call(w, file[w], Compilation(w))
    /\ UNCHANGED <<world, shared, clocks, budget, op, req, todo, found, marks, failed,
                   stamp, got, built, gen>>

\* The intent is resolved and its durable context is to be loaded.
PreflightRecovers(w) ==
    LET f == file[w] IN
    /\ pc[w] = "preflight" /\ Recoverable(f)
    /\ intent' = [intent EXCEPT ![f] = None]
    /\ built' = [built EXCEPT ![w] = disk[f].src]
    /\ Call(w, f, "recovered")
    /\ UNCHANGED <<mix, disk, graph, dirty, unseen, ungraphed, torn, shared, clocks, budget,
                   op, req, todo, found, marks, failed, stamp, got, gen>>

\* Bytes that belong to neither side of the edit, or a failing store.
PreflightFails(w) ==
    /\ pc[w] = "preflight"
    /\ intent' \in {intent, [intent EXCEPT ![file[w]] = IF Recoverable(file[w]) THEN None ELSE @]}
    /\ Return(w)
    /\ UNCHANGED <<mix, disk, graph, dirty, unseen, ungraphed, torn, shared, nextGen,
                   committed, budget>>

\* hydrate_recovered_durable_state publishes the recovered context under the
\* clock, without a ticket, if it is one of the bytes that were read.
HydrateRecovered(w) ==
    LET f == file[w] IN
    /\ pc[w] = "recovered"
    /\ \/ /\ got[w] = built[w] /\ clock[f] = None
          /\ \E covered \in BOOLEAN :
                index' = [index EXCEPT ![f] =
                            IF covered \/ built[w] \in Mentions
                            THEN [src |-> built[w], covered |-> covered] ELSE None]
          /\ torn' = torn \ {f}
       \/ UNCHANGED <<index, torn>>
    /\ Call(w, f, Compilation(w))
    /\ UNCHANGED <<mix, disk, graph, dirty, intent, unseen, ungraphed, cache, gens, done, clocks,
                   budget, op, req, todo, found, marks, failed, stamp, got, built, gen>>

-----------------------------------------------------------------------------
(* apply_edit *)

NewStamp(f) == IF mix.hidden THEN {disk[f].stamp, disk[f].stamp + 1} ELSE {disk[f].stamp + 1}

\* The ticket is drawn before the file is read.
EditBegin(w) ==
    /\ Goto(w, "edit", "editRead")
    /\ NextGeneration(w, file[w])
    /\ UNCHANGED <<world, shared, budget, op, req, file, todo, found, marks, failed,
                   stamp, got, ret, built>>

\* recover_pending_edit, the read past the cache, and the edit in memory.
EditRead(w) ==
    LET f == file[w] IN
    /\ Goto(w, "editRead", "editCommit")
    /\ disk[f].src # Absent
    /\ intent[f] # None => disk[f].src = intent[f].prior
    /\ intent' = [intent EXCEPT ![f] = None]
    /\ got' = [got EXCEPT ![w] = disk[f].src]
    /\ \E c \in Contents : built' = [built EXCEPT ![w] = c]
    /\ UNCHANGED <<mix, disk, graph, dirty, unseen, ungraphed, torn, shared, clocks, budget, op,
                   req, file, todo, found, marks, failed, stamp, ret, gen>>

\* An interrupted edit was completed durably: the caller must restore first.
EditRecovered(w) ==
    /\ pc[w] = "editRead" /\ Recoverable(file[w])
    /\ intent' = [intent EXCEPT ![file[w]] = None]
    /\ Return(w)
    /\ UNCHANGED <<mix, disk, graph, dirty, unseen, ungraphed, torn, shared, nextGen,
                   committed, budget>>

\* Nothing written yet: not an edit of this file, stale bytes, a superseded
\* ticket, an intent that cannot be recovered or established.
EditRefused(w) ==
    /\ pc[w] \in {"edit", "editRead", "editCommit"}
    /\ Return(w)
    /\ UNCHANGED <<world, shared, nextGen, committed, budget>>

\* The commit lock of all edits, then the clock, its generation, the bytes of
\* the file, and the intent.
InCommit == {"editRename", "editCache", "editPublish", "editRestored"}

EditCheck(w) ==
    LET f == file[w] IN
    /\ Goto(w, "editCommit", "editRename")
    /\ clock[f] = None /\ \A v \in Workers : pc[v] \notin InCommit
    /\ gen[w] > committed[f] /\ disk[f].src = got[w]
    /\ clock' = [clock EXCEPT ![f] = w]
    /\ IF mix.store
       THEN /\ intent[f] = None
            /\ intent' = [intent EXCEPT ![f] = [prior |-> got[w], target |-> built[w]]]
       ELSE UNCHANGED intent
    /\ UNCHANGED <<mix, disk, graph, dirty, unseen, ungraphed, torn, shared, nextGen, committed,
                   budget, op, locals>>

EditRename(w) ==
    LET f == file[w] IN
    /\ Goto(w, "editRename", "editCache")
    /\ \E t \in NewStamp(f) : disk' = [disk EXCEPT ![f] = [src |-> built[w], stamp |-> t]]
    /\ UNCHANGED <<mix, graph, dirty, intent, unseen, ungraphed, torn, shared, clocks, budget, op, locals>>

\* clear_edit_intent, whose failure is only logged.
IntentCleared(w) == intent' \in {intent, [intent EXCEPT ![file[w]] = None]}

EditRenameFails(w) ==
    /\ pc[w] = "editRename"
    /\ IntentCleared(w)
    /\ Return(w)
    /\ UNCHANGED <<mix, disk, graph, dirty, unseen, ungraphed, torn, shared, nextGen, committed, budget>>

\* invalidate_source_cache
EditCache(w) ==
    /\ Goto(w, "editCache", "editPublish")
    /\ cache' = [cache EXCEPT ![file[w]] = None]
    /\ UNCHANGED <<world, index, gens, done, clocks, budget, op, locals>>

\* The durable commit, if there is a store, and the live publication.
EditPublish(w) ==
    LET f == file[w] IN
    /\ Goto(w, "editPublish", "editDiscovery")
    /\ IntentCleared(w)
    /\ index' = [index EXCEPT ![f] =
                   IF built[w] \in Mentions THEN [src |-> built[w], covered |-> FALSE] ELSE None]
    /\ committed' = [committed EXCEPT ![f] = gen[w]]
    /\ torn' = torn \ {f}
    /\ Release(w)
    /\ UNCHANGED <<mix, disk, graph, dirty, unseen, ungraphed, cache, gens, done, nextGen, budget,
                   op, locals>>

\* The durable commit fails and the bytes from before the edit are put back.
EditRestore(w) ==
    LET f == file[w] IN
    /\ Goto(w, "editPublish", "editRestored") /\ mix.store
    /\ \E t \in NewStamp(f) : disk' = [disk EXCEPT ![f] = [src |-> got[w], stamp |-> t]]
    /\ ungraphed' = ungraphed \union {f}
    /\ UNCHANGED <<mix, graph, dirty, intent, unseen, torn, shared, clocks, budget, op, locals>>

EditRestored(w) ==
    /\ pc[w] = "editRestored"
    /\ cache' = [cache EXCEPT ![file[w]] = None]
    /\ IntentCleared(w)
    /\ Return(w)
    /\ UNCHANGED <<mix, disk, graph, dirty, unseen, ungraphed, torn, index, gens, done, nextGen,
                   committed, budget>>

\* ... or cannot be put back: the file keeps the bytes of the edit, the index,
\* the discovery and the graph what they had, and the intent stays.
EditTorn(w) ==
    /\ pc[w] = "editPublish" /\ mix.store
    /\ torn' = torn \union {file[w]}
    /\ ungraphed' = ungraphed \union {file[w]}
    /\ Return(w)
    /\ UNCHANGED <<mix, disk, graph, dirty, intent, unseen, shared, nextGen, committed, budget>>

\* mark_project_dirty, which a bridge that is down is not told of, then
\* invalidate_discovery_for_edited_path
EditDiscovery(w) ==
    /\ pc[w] = "editDiscovery"
    /\ \/ mix.bridge /\ dirty' = TRUE /\ UNCHANGED ungraphed
       \/ mix.bridge /\ ungraphed' = ungraphed \union {file[w]} /\ UNCHANGED dirty
       \/ ~mix.bridge /\ UNCHANGED <<dirty, ungraphed>>
    /\ InvalidateAll
    /\ Return(w)
    /\ UNCHANGED <<mix, disk, graph, intent, unseen, torn, cache, index, done,
                   nextGen, committed, budget>>

-----------------------------------------------------------------------------
(* reconcile_external_refresh_for_root *)

\* index_repository reindexes the graph and then reconciles like a refresh.
Reindex(w) ==
    /\ Goto(w, "reindex", "refreshCache") /\ mix.bridge
    /\ graph' = [f \in Files |-> disk[f].src]
    /\ ungraphed' = {}
    /\ UNCHANGED <<mix, disk, dirty, intent, unseen, torn, shared, clocks, budget, op, locals>>

\* A failed or refused call reconciles nothing.
ReindexFails(w) ==
    /\ pc[w] = "reindex"
    /\ Return(w)
    /\ UNCHANGED <<world, shared, nextGen, committed, budget>>

RefreshCache(w) ==
    /\ Goto(w, "refreshCache", "refreshIndex")
    /\ cache' = [f \in Files |-> None]
    /\ UNCHANGED <<world, index, gens, done, clocks, budget, op, locals>>

RefreshIndex(w) ==
    /\ Goto(w, "refreshIndex", "refreshDiscovery")
    /\ index' = [f \in Files |-> None]
    /\ UNCHANGED <<world, cache, gens, done, clocks, budget, op, locals>>

RefreshDiscovery(w) ==
    /\ pc[w] = "refreshDiscovery"
    /\ InvalidateAll
    /\ unseen' = {} /\ torn' = {}
    /\ Return(w)
    /\ UNCHANGED <<mix, disk, graph, dirty, intent, ungraphed, cache, index, done, nextGen,
                   committed, budget>>

-----------------------------------------------------------------------------
(* The world: another program writes; CBM follows at its own pace (external) *)

OutsideWrite(f) ==
    /\ writes < mix.writes
    /\ writes' = writes + 1
    /\ \E c \in (Contents \union {Absent}) \ {disk[f].src}, t \in NewStamp(f) :
          disk' = [disk EXCEPT ![f] = [src |-> c, stamp |-> t]]
    /\ unseen' = unseen \union {f} /\ ungraphed' = ungraphed \union {f}
    /\ UNCHANGED <<mix, graph, dirty, intent, torn, shared, clocks, calls, pc, op, locals>>

CbmFollows ==
    /\ mix.bridge
    /\ graph # [f \in Files |-> disk[f].src]
    /\ graph' = [f \in Files |-> disk[f].src]
    /\ UNCHANGED <<mix, disk, dirty, intent, unseen, ungraphed, torn, shared, clocks, budget,
                   pc, op, locals>>

Step(w) ==
    \/ \E o \in mix.handlers : Begin(w, o)
    \/ ReadStat(w) \/ ReadBytes(w) \/ ReadInsert(w)
    \/ DiscoverFiles(w) \/ DiscoverCached(w) \/ DiscoverGraph(w) \/ DiscoverFails(w)
    \/ ScanNext(w) \/ Scanned(w) \/ ScanDone(w) \/ Select(w)
    \/ CompileNext(w) \/ Hashed(w) \/ Compiled(w)
    \/ CommitSuperseded(w) \/ CommitCheck(w) \/ Commit(w) \/ Answer(w)
    \/ Inspected(w) \/ InspectPublish(w)
    \/ PreflightNone(w) \/ PreflightRecovers(w) \/ PreflightFails(w) \/ HydrateRecovered(w)
    \/ EditBegin(w) \/ EditRead(w) \/ EditRecovered(w) \/ EditRefused(w) \/ EditCheck(w)
    \/ EditRename(w) \/ EditRenameFails(w) \/ EditCache(w) \/ EditPublish(w)
    \/ EditRestore(w) \/ EditRestored(w) \/ EditTorn(w) \/ EditDiscovery(w)
    \/ Reindex(w) \/ ReindexFails(w) \/ RefreshCache(w) \/ RefreshIndex(w) \/ RefreshDiscovery(w)

Next ==
    \/ \E w \in Workers : Step(w)
    \/ \E f \in Files : OutsideWrite(f)
    \/ CbmFollows

Spec == Init /\ [][Next]_vars

-----------------------------------------------------------------------------
(* Properties *)

\* An edit of f between its rename and the end of its invalidations.
Editing(f) ==
    \E w \in Workers : file[w] = f /\ pc[w] \in {"editCache", "editPublish", "editRestored", "editDiscovery"}

\* A refresh or index_repository that has not invalidated discovery yet.
Reconciling == \E w \in Workers : op[w] \in {"refresh", "reindex"} /\ pc[w] # "idle"

\* The source cache never serves bytes the file no longer has, except what a
\* program outside wrote since the last refresh: the metadata is taken before
\* the bytes, so an entry is at worst older than it says (source_cache.rs).
SnapshotsCurrent ==
    \A f \in Files \ unseen :
        cache[f] # None /\ cache[f].stamp = disk[f].stamp /\ ~Editing(f) =>
            cache[f].src = disk[f].src

\* The index holds no facts of bytes a file no longer has (WSC-010), but for
\* what other programs changed and for an edit that could neither be committed
\* nor undone (edit.rs, "recovery intent retained").
FactsCurrent ==
    \A f \in Files \ (unseen \union torn) :
        index[f] # None /\ ~Editing(f) => index[f].src = disk[f].src

\* Where discovery is recorded as complete, no query will look again: every
\* file that mentions the name must then be in the index (hydration.rs), but
\* for what other programs changed and the workspace or the graph was not
\* refreshed for, and for an edit that could neither be committed nor undone.
HydratedWhenComplete ==
    \A s \in Scopes, r \in Requirements, f \in Files \ (unseen \union torn) :
        /\ IsComplete(s, r) /\ disk[f].src \in Mentions
        /\ ~Editing(f) /\ ~Reconciling
        /\ s = "cbm" => f \notin ungraphed
        =>
            index[f] # None /\ index[f].src = disk[f].src

\* Sessions in which no refresh, index_repository or entities_in_file and no
\* recovery of an edit runs beside another request, and concurrent writes change
\* the metadata.
Orderly ==
    \/ mix.serial
    \/ ~mix.hidden /\ ~mix.store /\ mix.handlers \intersect {"refresh", "reindex", "inspect"} = {}

OrderlySnapshots == Orderly => SnapshotsCurrent
OrderlyFacts     == Orderly => FactsCurrent
OrderlyDiscovery == Orderly => HydratedWhenComplete

\* Every lock is free when no request holds it, and the generations of a
\* clock only count what was handed out.
TypeOK ==
    /\ mix \in Mixes
    /\ disk \in [Files -> [src: Contents \union {Absent}, stamp: Nat]]
    /\ cache \in [Files -> [src: Contents, stamp: Nat] \union {None}]
    /\ index \in [Files -> [src: Contents, covered: BOOLEAN] \union {None}]
    /\ intent \in [Files -> [prior: Contents, target: Contents] \union {None}]
    /\ torn \subseteq Files
    /\ gens \in [Scopes -> Nat \union {None}]
    /\ done \in [Scopes \X Requirements -> Nat \union {None}]
    /\ \A t \in DOMAIN done : done[t] # None => gens[t[1]] # None /\ done[t] <= gens[t[1]]
    /\ \A f \in Files : committed[f] <= nextGen[f]
    /\ \A f \in Files : clock[f] # None => file[clock[f]] = f
=============================================================================
