---------------------------- MODULE GraphBridge -----------------------------
(***************************************************************************)
(* The bridge to the CBM graph: which project is active, whether its graph *)
(* was indexed, whether edits made it dirty, and the cache of answers in   *)
(* memory and on disk.  A request holds graph_bridge_lock throughout; the  *)
(* background indexers take only the client's lock, and files are written  *)
(* under neither.                                                          *)
(*                                                                         *)
(* Content is a generation: the number of edits of the project's files.    *)
(* A root stands for the project its slug names.  The client is its status *)
(* alone; a call succeeds or fails (CbmClient).  CBM (external) keeps one  *)
(* graph per project and refuses a query of a project it never indexed.    *)
(***************************************************************************)
EXTENDS Naturals

CONSTANTS
    ConfiguredRoots,
    LateRoots,      \* roots first named at runtime
    Primary,        \* the primary root
    Ghost,          \* a slug of no root
    Nothing,
    MaxEdits,       \* bound: edits of a project
    MaxRequests,    \* bound: requests
    MaxFailed,      \* bound: failed calls of the client
    MaxRestarts     \* bound: restarts of the server

ASSUME PrimaryAssumption == Primary \in ConfiguredRoots

Projects == ConfiguredRoots \union LateRoots

VARIABLES
    disk,       \* project -> generation of its files
    graph,      \* project -> generation CBM indexed, or Nothing
    active,     \* project
    root,       \* project_root
    paths,      \* domain of project_ids and project_paths
    indexing,   \* indexing_state: project -> "absent", "progress", "complete" or "failed"
    indexer,    \* background threads: project -> "none", "start", "ok" or "error"
    dirty, indexed,     \* freshness: project -> generation
    memory, stored,     \* the cache: project -> generation or Nothing
    degraded,   \* the client's status
    down,       \* the bridge's copy of it
    request,    \* the request that passed the gate: [kind, of, asked] or Nothing
    edits,      \* project -> edits written and not yet reported to the bridge
    marked,     \* history: the generation of the last edit marked in this session
    misplaced,  \* history: projects whose reindexing went to another root
    unswept,    \* history: projects whose row on disk outlived an invalidation
    answer,     \* history: the last answer
    arrivals, failed, restarts      \* requests, failed calls and restarts so far

bridgeVars == <<active, root, paths, indexing, dirty, indexed, memory, down>>
cbmVars == <<graph, degraded, failed>>
graphBridgeVars == <<disk, stored, indexer, request, edits, marked, misplaced, unswept, answer,
                     arrivals, restarts, bridgeVars, cbmVars>>

NoAnswer == [of |-> Nothing, asked |-> Nothing, gen |-> 0, owed |-> 0, swept |-> TRUE]

\* try_create_with_roots: every configured root starts indexing.
Started == [p \in Projects |-> IF p \in ConfiguredRoots THEN "progress" ELSE "absent"]
Spawned == [p \in Projects |-> IF p \in ConfiguredRoots THEN "start" ELSE "none"]
Zero == [p \in Projects |-> 0]
Unknown == [p \in Projects |-> Nothing]

BridgeInit ==
    /\ disk = Zero /\ graph = Unknown /\ stored = Unknown
    /\ active = Primary /\ root = Primary /\ paths = ConfiguredRoots
    /\ indexing = Started /\ indexer = Spawned
    /\ dirty = Zero /\ indexed = Zero /\ memory = Unknown
    /\ degraded = FALSE /\ down = FALSE
    /\ request = Nothing /\ edits = Zero /\ marked = Zero
    /\ misplaced = {} /\ unswept = {} /\ answer = NoAnswer
    /\ arrivals = 0 /\ failed = 0 /\ restarts = 0

-----------------------------------------------------------------------------
(* Calls of the client *)

CallOk(g) == graph' = g /\ degraded' = FALSE /\ UNCHANGED failed

\* A transport error degrades the client at once, others after a while.
CallFails ==
    /\ failed < MaxFailed /\ failed' = failed + 1
    /\ degraded' \in {degraded, TRUE} /\ UNCHANGED graph

Indexed(p) == [graph EXCEPT ![p] = disk[p]]

-----------------------------------------------------------------------------
(* Background indexing: start_indexing_for's thread *)

BackgroundIndex(p) ==
    /\ indexer[p] = "start"
    /\ \/ CallOk(Indexed(p)) /\ indexer' = [indexer EXCEPT ![p] = "ok"]
       \/ CallFails /\ indexer' = [indexer EXCEPT ![p] = "error"]
    /\ UNCHANGED bridgeVars
    /\ UNCHANGED <<disk, stored, request, edits, marked, misplaced, unswept, answer, arrivals, restarts>>

\* The thread publishes its state, after releasing the client.
BackgroundDone(p) ==
    /\ indexer[p] \in {"ok", "error"}
    /\ indexing' = [indexing EXCEPT ![p] = IF indexer[p] = "ok" THEN "complete" ELSE "failed"]
    /\ indexer' = [indexer EXCEPT ![p] = "none"]
    /\ degraded' \in IF indexer[p] = "ok" THEN {degraded} ELSE {degraded, TRUE}
    /\ UNCHANGED <<disk, graph, failed, active, root, paths, dirty, indexed, memory, down,
                   stored, request, edits, marked, misplaced, unswept, answer, arrivals, restarts>>

-----------------------------------------------------------------------------
(* apply_edit, of files under the configured roots: the file is written,   *)
(* and later the bridge is told                                            *)

EditWrite(p) ==
    /\ p \in ConfiguredRoots /\ disk[p] < MaxEdits
    /\ disk' = [disk EXCEPT ![p] = @ + 1]
    /\ edits' = [edits EXCEPT ![p] = @ + 1]
    /\ UNCHANGED bridgeVars /\ UNCHANGED cbmVars
    /\ UNCHANGED <<stored, indexer, request, marked, misplaced, unswept, answer, arrivals, restarts>>

\* mark_project_dirty; a bridge that is not available is not told.
EditMark(p) ==
    /\ request = Nothing /\ edits[p] > 0
    /\ edits' = [edits EXCEPT ![p] = @ - 1]
    /\ IF down THEN UNCHANGED <<dirty, marked>>
       ELSE /\ dirty' = [dirty EXCEPT ![p] = @ + 1]
            /\ marked' = [marked EXCEPT ![p] = disk[p] - (edits[p] - 1)]
    /\ UNCHANGED cbmVars
    /\ UNCHANGED <<active, root, paths, indexing, indexed, memory, down,
                   disk, stored, indexer, request, misplaced, unswept, answer, arrivals, restarts>>

-----------------------------------------------------------------------------
(* Selecting the project *)

\* set_project: project_root stays.
SetProject(p) == active' = p /\ UNCHANGED <<root, paths>>

\* set_workspace_root: nothing when the root is project_root already.
SetWorkspaceRoot(r) ==
    IF root = r THEN UNCHANGED <<active, root, paths>>
    ELSE active' = r /\ root' = r /\ paths' = paths \union {r}

\* What a request names: a project, a workspace root or nothing.
Selections == {[by |-> "none", of |-> Nothing]}
                \union [by : {"project"}, of : Projects \union {Ghost}]
                \union [by : {"root"}, of : Projects]

\* set_project_from_params
Select(sel) ==
    CASE sel.by = "project" -> SetProject(sel.of)
      [] sel.by = "root"    -> SetWorkspaceRoot(sel.of)
      [] sel.by = "none"    -> UNCHANGED <<active, root, paths>>

\* ensure_tracked
MustTrack(p) == p \in paths' /\ indexing[p] = "absent"

-----------------------------------------------------------------------------
(* The gate: ensure_indexed and ensure_indexed_for *)

IsDirty(p) == p \in Projects /\ dirty[p] > indexed[p]

Invalidated(cache, p) == [cache EXCEPT ![p] = Nothing]

\* Mutant: only the memory is invalidated.
InvalidateMemory(p) == memory' = Invalidated(memory, p) /\ UNCHANGED <<stored, unswept>>

\* invalidate_project_cache: a DELETE that fails on disk is ignored, and nothing
\* asks for it again.
InvalidateProjectCache(p) ==
    /\ memory' = Invalidated(memory, p)
    /\ stored' \in {Invalidated(stored, p), stored}
    /\ unswept' = IF stored'[p] = Nothing THEN unswept \ {p} ELSE unswept \union {p}

\* reindex_active_project for the active project p, whose repository is
\* project_root; the same with its own path for another project.
Reindex(p, repo) ==
    /\ CallOk(Indexed(repo))
    /\ indexed' = [indexed EXCEPT ![p] = dirty[p]]
    /\ InvalidateProjectCache(p)
    /\ misplaced' = IF p = repo THEN misplaced ELSE misplaced \union {p}

\* The verdict on a project that is clean: an indexing that takes over a
\* minute is declared failed.
Verdicts(p) ==
    IF p \notin Projects THEN {"wait"}
    ELSE CASE indexing[p] = "complete" -> {"ready"}
           [] indexing[p] = "progress" -> {"wait", "timeout"}
           [] indexing[p] = "failed"   -> {"error"}
           [] indexing[p] = "absent"   -> {"wait"}

\* The gate of a request about p: a dirty project is reindexed first, then
\* its indexing state decides whether the request goes on.
Gate(kind, p, repo, asked) ==
    /\ \/ /\ ~IsDirty(p)
          /\ UNCHANGED <<graph, degraded, failed, indexed, memory, stored, misplaced, unswept>>
       \/ IsDirty(p) /\ Reindex(p, repo)
    /\ \E v \in Verdicts(p) :
          /\ indexing' = IF v = "timeout" THEN [indexing EXCEPT ![p] = "failed"] ELSE indexing
          /\ request' = IF v = "ready" THEN [kind |-> kind, of |-> p, asked |-> asked]
                        ELSE Nothing

\* The reindexing fails and the request with it.
GateFails(p) ==
    /\ IsDirty(p) /\ CallFails
    /\ request' = Nothing
    /\ UNCHANGED <<indexed, memory, stored, misplaced, unswept, indexing>>

-----------------------------------------------------------------------------
(* Requests *)

Arrive == request = Nothing /\ arrivals < MaxRequests /\ arrivals' = arrivals + 1

requestVars == <<disk, edits, marked, restarts, dirty>>

\* A graph tool: with_bridge, set_project_from_params, ensure_indexed.
GraphTool(sel) ==
    /\ Arrive /\ ~down
    /\ Select(sel)
    /\ LET p == active' IN
       /\ p = Ghost \/ ~MustTrack(p)
       /\ Gate("tool", p, root', IF sel.by = "none" THEN p ELSE sel.of) \/ GateFails(p)
    /\ UNCHANGED <<indexer, down, answer>> /\ UNCHANGED requestVars

\* The root is new: its indexing starts and the request is told to wait.
GraphToolNewRoot(sel) ==
    /\ Arrive /\ ~down
    /\ Select(sel)
    /\ MustTrack(active')
    /\ indexing' = [indexing EXCEPT ![active'] = "progress"]
    /\ indexer' = [indexer EXCEPT ![active'] = "start"]
    /\ UNCHANGED <<request, indexed, memory, stored, misplaced, unswept, down, answer>>
    /\ UNCHANGED cbmVars /\ UNCHANGED requestVars

\* cbm_proxy about a project; one that is not active and of no known root
\* passes the gate.
ProxyTool(p) ==
    /\ Arrive /\ ~down
    /\ IF p # active /\ p \notin paths
       THEN /\ request' = [kind |-> "proxy", of |-> p, asked |-> p]
            /\ UNCHANGED <<indexing, indexed, memory, stored, misplaced, unswept>>
            /\ UNCHANGED cbmVars
       ELSE Gate("proxy", p, IF p = active THEN root ELSE p, p) \/ GateFails(p)
    /\ UNCHANGED <<active, root, paths, indexer, down, answer>> /\ UNCHANGED requestVars

\* cbm_proxy without a project: list_projects and index_repository, which no
\* gate stops.
ProxyList ==
    /\ Arrive
    /\ CallOk(graph) \/ CallFails
    /\ down' = degraded'
    /\ UNCHANGED <<request, active, root, paths, indexing, indexed, memory, stored, misplaced,
                   unswept, indexer, answer>>
    /\ UNCHANGED requestVars

ProxyIndex(p) ==
    /\ Arrive
    /\ CallOk(Indexed(p)) \/ CallFails
    /\ down' = degraded'
    /\ UNCHANGED <<request, active, root, paths, indexing, indexed, memory, stored, misplaced,
                   unswept, indexer, answer>>
    /\ UNCHANGED requestVars

\* What the request is answered with.
Answer(p, gen, swept) ==
    answer' = [of |-> p, asked |-> request.asked, gen |-> gen, owed |-> marked[p], swept |-> swept]

Done == request' = Nothing /\ UNCHANGED <<active, root, paths, indexing, indexed, indexer,
                                          misplaced, unswept, arrivals>> /\ UNCHANGED requestVars

Cached(p) == IF memory[p] # Nothing THEN memory[p] ELSE stored[p]

\* cached_value_for: a hit, hydrated from the disk cache if need be.
CacheHit ==
    /\ request # Nothing /\ request.kind = "tool" /\ Cached(request.of) # Nothing
    /\ memory' = [memory EXCEPT ![request.of] = Cached(request.of)]
    /\ Answer(request.of, Cached(request.of), request.of \notin unswept)
    /\ UNCHANGED <<stored, down>> /\ UNCHANGED cbmVars /\ Done

\* An entry expires, in memory or on disk, each by its own clock.
Expire(p) ==
    /\ \/ memory[p] # Nothing /\ memory' = Invalidated(memory, p) /\ UNCHANGED stored
       \/ stored[p] # Nothing /\ stored' = Invalidated(stored, p) /\ UNCHANGED memory
    /\ unswept' = IF memory'[p] = Nothing /\ stored'[p] = Nothing THEN unswept \ {p} ELSE unswept
    /\ UNCHANGED <<disk, indexer, request, edits, marked, misplaced, answer, arrivals, restarts,
                   active, root, paths, indexing, dirty, indexed, down>>
    /\ UNCHANGED cbmVars

\* A miss: a row on disk that cannot be read is one.
Missed == request.kind = "tool" => memory[request.of] = Nothing

\* The query reaches CBM, and its answer the cache, on disk unless the write
\* fails; the proxy caches nothing.
Query ==
    /\ request # Nothing /\ Missed
    /\ request.of \in Projects /\ graph[request.of] # Nothing
    /\ CallOk(graph)
    /\ LET p == request.of IN
       /\ Answer(p, graph[p], TRUE)
       /\ IF request.kind = "tool"
          THEN /\ memory' = [memory EXCEPT ![p] = graph[p]]
               /\ stored' \in {[stored EXCEPT ![p] = graph[p]], stored}
          ELSE UNCHANGED <<memory, stored>>
    /\ down' = FALSE /\ Done

\* CBM does not have the project: an error to a typed call, a response to the
\* proxy's raw one.
QueryRefused ==
    /\ request # Nothing /\ Missed
    /\ request.of \in Projects => graph[request.of] = Nothing
    /\ degraded' \in IF request.kind = "proxy" THEN {FALSE} ELSE {degraded, TRUE}
    /\ down' = degraded'
    /\ UNCHANGED <<graph, failed, memory, stored, answer>> /\ Done

QueryFails ==
    /\ request # Nothing /\ Missed
    /\ CallFails
    /\ down' = degraded'
    /\ UNCHANGED <<memory, stored, answer>> /\ Done

-----------------------------------------------------------------------------
\* The server restarts: the disk cache and CBM's graphs survive.
Restart ==
    /\ restarts < MaxRestarts /\ restarts' = restarts + 1
    /\ active' = Primary /\ root' = Primary /\ paths' = ConfiguredRoots
    /\ indexing' = Started /\ indexer' = Spawned
    /\ dirty' = Zero /\ indexed' = Zero /\ memory' = Unknown
    /\ degraded' = FALSE /\ down' = FALSE
    /\ request' = Nothing /\ edits' = Zero /\ marked' = Zero
    /\ misplaced' = {} /\ unswept' = {} /\ answer' = NoAnswer
    /\ UNCHANGED <<disk, graph, stored, failed, arrivals>>

BridgeNext ==
    \/ \E p \in Projects :
          BackgroundIndex(p) \/ BackgroundDone(p) \/ EditWrite(p) \/ EditMark(p) \/ Expire(p)
    \/ \E sel \in Selections : GraphTool(sel) \/ GraphToolNewRoot(sel)
    \/ \E p \in Projects \union {Ghost} : ProxyTool(p)
    \/ \E p \in Projects : ProxyIndex(p)
    \/ ProxyList \/ CacheHit \/ Query \/ QueryRefused \/ QueryFails
    \/ Restart

BridgeSpec == BridgeInit /\ [][BridgeNext]_graphBridgeVars

-----------------------------------------------------------------------------
(* Properties *)

\* The answer of a gated query shows every edit the bridge was told of in this
\* session, whichever cache or graph it comes from; but for a project that was
\* reindexed while project_root named another, and for a hit on a project whose
\* row on disk outlived the last invalidation (the freshness gate of
\* ensure_indexed and ensure_indexed_for).
FreshAnswers ==
    answer.of \in Projects \ misplaced /\ answer.swept => answer.gen >= answer.owed

\* The same without the second exception: invalidate_project_cache exists "so
\* pre-edit entries are not served" (indexing.rs:160).
NoPreEditAnswers ==
    answer.of \in Projects \ misplaced => answer.gen >= answer.owed

\* A request is answered about the project it names (set_workspace_root
\* "Updates both the canonicalized `project_root` and the canonical project
\* identity").
AnswersAsked == answer.of = answer.asked
=============================================================================
