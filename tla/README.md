# Verification of Clean-CTX

Clean-CTX is an MCP server (Rust, `src/src`; a separate HTTP proxy in `src/proxy`) that serves compressed views of
source files to a language model, remembers what it served, persists it in SQLite and applies structural edits to
the files. This directory holds TLA+ models of the parts of it that are concurrent, that must survive a crash, that
must keep several copies of one fact in agreement or that compute positions and totals incrementally; the TLC
configurations that check them on small instances; and TLAPS proofs of invariants for every instance.

Paths below are relative to `src/src/mcp` unless they start with `src/`, `proxy/` or `docs/`.

## 1. Inventory

| Component | State it keeps | Operations | Hard behaviour | Modelled in |
|---|---|---|---|---|
| Server loop (`server.rs`) | position in stdin | `run`, `read_request_line`, `drain_line` | oversize, unreadable and unterminated lines; end of input while work is queued | `Server` |
| Dispatcher (`dispatcher.rs`) | bounded channels, round-robin counter, traces, shutdown flag, thread handles | `spawn`, worker loop, `shutdown`, `Drop` | concurrent submitters, full channels, hung or panicking handlers, shutdown races | `Dispatcher` |
| Publication clock (`state/publication.rs`) | next and committed generation per owner | `begin_semantic_publication`, `commit`, `with_semantic_authority_*` | operations finish out of order | `EditTransaction`, `Authority`, `Hydration` |
| Edit transaction (`tool_handlers/edit.rs`, `sqlite_store/edit_intent.rs`) | file bytes, staged file, `edit_intents` row | `apply_edit`, `recover_edit_intent` | crash between any two writes, failing rename or save, outside editors | `EditTransaction` |
| Edit application (`src/edit`) | none | `resolve`, `apply`, `validate_disjoint`, `splice` | offsets of a batch move under one another, line endings | `EditSplice` |
| Recovery preflight (`durable_semantics.rs`) | live context, persisted paths | `preflight_semantic_publication`, `hydrate_recovered_durable_state` | runs beside newer publications | `EditTransaction`, `Hydration` |
| `provide_code_context`, `restore_context` | live context, durable baseline | read, compile or adopt, publish | source read twice, superseded candidates | `EditTransaction`, `Authority` |
| Authority handlers (`tool_handlers/core`, `tool_handlers/persistence`) | live context, pending transitions, delta chain, snapshots | compress, delta, apply_delta, save, replay_history, delete, purge | save writes after it released the clock; compress and delete draw no ticket | `Authority`, `OrderedAuthority`, `DeltaReplay` |
| Delta protocol (`src/ir/delta`, `src/ir/replay`) | instructions and version per file | `compute`, `apply_sequence`, `load_ir` | lost, repeated, reordered and replaced deltas; positions on a moving list | `DeltaReplay` |
| SQLite store (`sqlite_store*`) | contexts, deltas, snapshots, intents | save, load, append, purge, delete | transactions that fail; chains without a snapshot | with the handlers |
| Buffered store (`buffered_store.rs`) | pending writes | queue, `flush`, `clear_file` | retry, splice-back, clear beside a flush, failed COMMIT, statements whose failure is only logged | `BufferedStore` |
| Discovery, refresh, source cache (`discovery_cache.rs`, `state/source_cache.rs`, `tool_handlers/hydration`) | completed discoveries with generations, bytes by (mtime, size) | discover, compile, publish, mark, invalidate | invalidation during a discovery; metadata read before the bytes | `Hydration` |
| Workspace index and queries (`src/workspace`) | eight maps and a counter over semantic edges | `add_edges`, `remove_file(s)`, projection; lookups, traversal, cycles | redundant maps, shared keys, two workspaces | `WorkspaceIndex`, `IndexLookups`, `IndexQueries` |
| CBM client (`src/cbm/client.rs`) | child process, pipes, circuit breaker | `call_tool`, reader thread, kill | ids never compared, timeouts, multi-line answers | `CbmClient` |
| CBM bridge (`src/cbm/bridge`) | active project, dirty marks, indexing state, two caches | select, gate, reindex, query | background indexers, edits during indexing, invalidations that fail on disk, restarts | `GraphBridge` |
| Session statistics (`session_stats.rs`, `tool_handlers/stats`) | entries, totals, domains | record, merge, rebuild, dashboard | incremental totals by saturating subtraction | `SessionStats` |
| Identity contract and class tree (`src/ir/identity`, `src/ir/hierarchical`) | none between calls | validate, project, reduce, decode | facts and members ahead of their definitions; facts that may be said once | `HierarchicalCodec` |
| Proxy transformations (`proxy/src/transform.rs`, `cache.rs`) | none between requests | `age_tool_results`, `inject_breakpoints` | the same conversation transformed again with every turn | `ProxyWindow` |
| Proxy server, router, intelligence algorithms, structure diff, other IR encodings, language layers | see §5 | | | not modelled |

Interaction: the reader thread of `run` parses lines and hands closures to the dispatcher; a worker thread runs one
handler at a time against the shared `McpState`, whose fields have their own mutexes. Handlers that publish semantics
of a file take a ticket from the file's publication clock, resolve a pending edit intent, select a candidate outside
every lock and commit it under the clock; the store mutex is taken inside that. A published file contributes edges to
the workspace index, which queries hydrate on demand. CBM is a child process behind one mutex; the proxy is a process
of its own. The SQLite database and the source files survive the process.

What correctness means: a request line is handled or refused exactly once and the server ends; handlers are neither
lost, run twice nor run after a refusal, and one stuck handler stops nobody else; an accepted edit is never
overwritten by another handler, is durable before it is visible, and leaves bytes and database reconcilable at every
instant; a batch of edits is one substitution; older operations do not replace newer authority; a delta advances
exactly the instructions it was computed from; a recorded completion means that the facts are there; every index map
says what the files assert now; a tree carries every instruction of its stream; an answer belongs to its request and
is no older than the last edit; totals are the sums of their entries; every operation ends.

## 2. Modules

| Module | Models | Uses |
|---|---|---|
| `EditTransaction` | `apply_edit`, `provide_code_context`, `restore_context` on one file, recovery, hydration, crashes, failures, outside writes | |
| `EditTransactionProofs` | invariants for any number of threads; crash recoverability with one | `EditTransaction` |
| `Dispatcher`, `DispatcherProofs` | channels, workers, `spawn`, `shutdown`, `Drop`; their invariants | |
| `Server`, `ServerProofs` | the reader thread, composed with `Dispatcher` as its only submitter; what becomes of every line | `Dispatcher`, `DispatcherProofs` |
| `Authority`, `AuthorityProofs` | ten handlers on one file's live and durable authority, crashes, outside writes, failing transactions; refinement, bases and replay proved | `OrderedAuthority` |
| `OrderedAuthority` | the abstract specification: what the clock promises of the live context | instantiated by `Authority` |
| `Hydration`, `HydrationProofs` | discovery, source cache, ticketed publication with its recovery preflight, edits and their failures, refresh, reindex; currency and hydration proved | |
| `WorkspaceIndex`, `WorkspaceIndexProofs` | the index and its updates; proofs | |
| `IndexLookups` | the lookups within a scope, against what the files assert; proved in `WorkspaceIndexProofs` | `WorkspaceIndex` |
| `IndexQueries` | traversal and cycle search against reference definitions | `IndexLookups` |
| `BufferedStore`, `CbmClient`, `GraphBridge`, `ProxyWindow`, `EditSplice`, `DeltaReplay`, `SessionStats`, `HierarchicalCodec` | one component each | |
| `CbmProofs` | answers belong to their requests and are fresh | `CbmClient`, `GraphBridge` |
| `ComponentProofs` | the store's books, the proxy's breakpoints and stubs, deltas that replay | `BufferedStore`, `ProxyWindow`, `DeltaReplay` |
| `MC…` | TLC instances; `MCComponents` extends the index and the five components with proofs and instantiates the other three | |

### EditTransaction

One file tracked at Edit fidelity with the store open. Bytes, their SHA-256 and their compilation are one abstract
content; a context is a content with a version. State: `disk` (bytes), `stage` (temporary files), `intent`
(`edit_intents` row), `durable` (context and snapshot rows), `live` (`ir_context`, edges and index entry), the two
generations of the clock, the owners of the clock and of the store mutex, and per worker its program counter and the
locals of the handler (ticket, bytes read, candidate). `writer` and `adversity` are history.

One action per step between two points where another thread, a crash or a failing call can intervene:

| Steps | Code |
|---|---|
| `Begin` | parameter gates, `begin_semantic_publication` (publication.rs:82) |
| `Recover…` | `recover_edit_intent` (edit_intent.rs:161) under the store mutex; the file is read and the row cleared in separate steps |
| `Hydrate…` | `hydrate_recovered_durable_state` (durable_semantics.rs:191) |
| `ReadSource`, `CheckLive`, `CheckDurable`, `CompileEdit` | edit.rs:146-264 |
| `ReuseLive`, `CompileRead`, `RereadSource` | evaluate.rs:95-224; `compile_file_ir_focused` reads the file a second time |
| `RestoreLoad`, `RestoreValidate` | restore.rs:93-125 |
| `EnterCommit`, `Superseded`, `Publish` | `SemanticPublicationTicket::commit` (publication.rs:29) and the publish closures |
| `StageBytes` … `ClearAborted` | the closure of edit.rs:272-366 and its helpers |
| `IoFailure`, `HandledFailure` | the error returns, and the failures a handler continues from |
| `SaveContext`, `LoadDurableContext` | the context and snapshot rows (sqlite_store/semantic_state.rs:149, 244) |
| `Crash`, `ExternalWrite` | the environment |

Abstractions: `read_source` returns the current bytes (its cache is in `Hydration`); the global edit `commit_lock` is
subsumed by the clock, because only one file is modelled; the compatibility identities are constant (one
configuration, one framework applicability), so validation of a durable context is the comparison of sources;
`invalidate_source_cache`, the rendered-text cache, the CBM dirty mark and the discovery invalidation after a commit
touch no state of this module (`Hydration` and `GraphBridge` have them). The transition id is represented by the
prior bytes and the target context it hashes. What an edit does to the bytes is `EditSplice`.

### Dispatcher and Server

`spawn` is three steps because two locks are taken in it: choosing a worker (atomic counter), locking its sender,
recording the trace and trying to send. Workers loop over the flag and `recv_timeout`. A dropped receiver discards
what is in its channel. Relaxed loads need no extra step: a stale value equals an earlier load. `shutdown()` is not
called by `run` but is part of the API, so it is modelled beside `Drop`. A channel bound of zero (a rendezvous
channel) is excluded by assumption; the default is 1000. The counter is a natural number: wrap-around after 2^64
requests is ignored. Requests are interchangeable, so the model spawns them in a fixed order (`Fresh`).

`Server` reads `NumLines` lines of five kinds. `LineRead` gives the outcome of `read_request_line` for each:
a read error (bytes that are not UTF-8) ends the input; the cap is tested before the terminator; an unterminated last
line is cleared by the iteration that meets end of file. The reader is the dispatcher's only submitter.

### Authority and OrderedAuthority

Several contents may compile to one instruction list (`Ir`), because a changed comment changes the hash and not the
instructions. State: the bytes, the durable row with its delta chain and snapshots, the live context, its alias and
side maps, the pending transitions and the retired ones, the clock, and the locals of each worker. A delta is the
pair of lists it was computed from; replayed on another base it yields `Mixed`. A session has a `mix`: which handlers
its clients call, how often, and how much may go wrong. Properties that fail when all handlers run together are
stated for the sessions in which they are promised (`DeltaSession`), and the disagreement is a run of its own.

`OrderedAuthority` says that the live context is replaced only by an operation with a later ticket than every
committed one, or advanced from its own version by a delta, or forgotten. `Authority` implements it with
`published <- live`, `stamp <- committed` (`ImplementsOrdered`). `compress_code_context` draws no ticket: a session
with it satisfies only the weaker order, in which `Overwrite` is allowed.

### Hydration

One root, one name and one discovery mode: these never share a cache entry. A query discovers candidate files through
CBM or a scan, reads each through the source cache (stat, lookup, read, insert are separate steps), resolves a pending
edit intent, compiles, publishes under a ticket and marks the discovery complete. `entities_in_file` (`Inspected`,
`InspectPublish`) does the same for one file without a ticket. `refresh_workspace` and `index_repository` invalidate in
the order of the code; other programs write behind the server, and a write may keep mtime and size.

| Steps | Code |
|---|---|
| `ReadStat`, `ReadBytes`, `ReadInsert` | `read_source` (state/source_cache.rs:115-223), called with the place to continue at (`ret`) |
| `Preflight…`, `HydrateRecovered` | `preflight_semantic_publication` (durable_semantics.rs:164-236): the recovered context is published under the clock, without a ticket, if it is one of the bytes read |
| `CompileNext` … `Commit` | `compile_candidate_for` (hydration/publication.rs:65-144): ticket, hash, preflight, compile, and under the clock generation and source |
| `EditBegin`, `EditRead`, `EditCheck` | edit.rs:132 (ticket), 133-262 (recovery, read, edit), 268-324 (commit lock, clock, generation, bytes, intent) |
| `EditRename`, `EditCache`, `EditPublish` | edit.rs:325 (rename), 335 (source cache), 336-388 (durable commit, live publication) |
| `EditRestore`, `EditRestored`, `EditTorn` | edit.rs:346-366: the durable commit failed, and the prior bytes were put back, or could not be |
| `EditDiscovery` | edit.rs:403-412: dirty mark (if the bridge is up) and discovery invalidation |

The ticket of an edit is drawn before it reads the file, so a hydration that begins later can be committed earlier and
an edit that begins later can be committed before a hydration's second look at the source. Failures between the clock
and the intent (staging, identities) change nothing and are part of `EditRefused`.

What the server cannot know is history and excused: `unseen` (written by other programs since the last refresh),
`ungraphed` (written since the last `index_repository` without a dirty mark: by other programs, by an edit that was
rolled back or failed, and while the bridge was down) and `torn` (left with the bytes of an edit that could be neither
committed nor undone). Of the last the code says "recovery intent retained"; until the intent is recovered, the file is
edited again or refreshed, the index answers with the facts from before the edit, and a recorded completion stands.

The properties are stated for orderly sessions (`Orderly`): serial ones, and concurrent ones without hidden writes and
without a store in which no `refresh_workspace`, `index_repository` or `entities_in_file` runs beside another request.
The first two remove facts a running query counts on, which is the subject of `hydration_refresh`; the third publishes
without a ticket; and with a store, overlapping requests for a file meet the recovery race of `edit_recovery_race` and
the late recovery of `EditHydrationOrder.cfg`, either of which leaves facts of other bytes in the index. With a store
the properties therefore cover one request at a time, with every failure of an edit in it and recovery by the next.

### WorkspaceIndex, IndexLookups and IndexQueries

The eight maps and the counter are one record; `AddEdges` and `RemoveFiles` update them as the code does, `Project` is
removal and addition under the index lock. `asserted` is what each file asserts now, the reference for every map.
`IndexLookups` has the scoped lookups, `IndexQueries` the breadth-first walk with its depth limit and the depth-first
cycle search, in the order of the code's sorted iteration; the references are set definitions (`FactsIn`, `Joined`).

### BufferedStore, CbmClient, GraphBridge, ProxyWindow

`BufferedStore`: the queue and the table have a mutex each; `flush` takes the queue, tries a transaction up to
`MaxRetries` times and puts the batch back in front; a failed COMMIT leaves its transaction open (`open` holds its
rows), and everything that reads or deletes rows afterwards does so inside it, because there is one connection
(`Visible`). The statement of a queued clear that fails is only logged (sqlite_store.rs:564-582) and its batch commits
without it: `swallowed` are the clears lost so. `clear_file` is its three critical sections, of which the lookup
and the deletion may fail. One thread flushes (`FlusherAssumption`): "flushed … by their explicit lifecycle owner"
(buffered_store.rs:5-13). Not modelled: `purge_old_deltas`, and an SQLite error that ends the whole transaction in the
middle of a batch (a full disk), after which a swallowed failure would be followed by statements outside any
transaction. `CbmClient`: the child (external) answers in order; lines cross a pipe and a channel, and any of them may
bring what was collected over the size limit; a deadline kills the child, one retry, every attempt counts in the
breaker; bytes the child had written when it was killed are dropped with it. `GraphBridge`: content is the number of
edits of a project; background indexers hold only the client's lock. An invalidation always empties the memory and,
unless its DELETE fails (`cache_store.rs:137-142` ignores the result), the disk; `unswept` are the projects with a row
on disk that outlived one, and `CacheHit` hydrates such a row like any other. `ProxyWindow`: one conversation, resent
and transformed with every turn; a block is its type, its path and the client's mark.

### EditSplice, DeltaReplay, SessionStats, HierarchicalCodec

`EditSplice` works on a sequence of tokens in which a line ending is a token. `Apply` is `apply()` from `resolve` to
the report; the syntax gate is a choice. `SubstitutedAt` defines, position by position, what all edits together mean;
which of several insertions at one position comes first is a parameter (`order`). `SpliceExact` leaves it open;
`CallerOrderAtAnchors` takes the order apply.rs promises, which is not the one it produces.
`DeltaReplay` plans the edit list as `SequenceDeltaComputer` does, applies it to a working copy edit by edit, records
keys and expected tuples on that copy as the code does, and replays it with the three checks of `apply_sequence`; a
delivery leaves the delta in the set, so it can be repeated, late or lost. The server's side is there too:
`Recompile` numbers a delta from the version the server accepted last and only remembers it (`remembered`), in the
place of an earlier one of the same versions, so two deltas with the same versions and different targets may be under
way; `Acknowledge` is `apply_delta` on the server's own state, which alone makes a target a version; `Publish` makes one
without a delta; `ForgetPending` retires what is remembered. A replica may be ahead of the server by a delta that is
accepted later, or never. Handlers that rewind or delete a file, and publications that overlap and share a version, are
in `Authority` only.
`SessionStats` keeps entries, totals and domains with the code's saturating arithmetic; counters are far below the
width of `usize`. `HierarchicalCodec` is the validation of an instruction stream, its grouping by owner in two passes
(definitions with the members that wait for a later owner, then facts by identity), the reduced envelope and the
flattening of a received tree. An instruction keeps its opcode and identities; its other operands are one value.

## 3. Runs

| Run | Instance | Shows |
|---|---|---|
| `edit_sequential` | 1 worker, 3 contents, 4 tickets, 4 adversities | bytes and recoverable context agree at every instant |
| `edit_progress` | 2 workers, 2 contents, 2 tickets, 1 adversity | no lost update, no self-made irreconcilable intent, durable before live; every operation ends |
| `edit_recovery_race` | 2 workers, 2 contents | violation: recovery clears the intent of a running edit |
| `dispatcher_safety` | 2 submitters, 4 requests, 2 workers, depth 1, 2 traces | one place per handler, even round robin, nothing running after joins, nothing accepted after closing |
| `dispatcher_progress` | 1 submitter, 5 requests, worker 0 hangs | spawn and closing return, the healthy worker makes progress, Drop returns unless a hung handler is running |
| `server_lines` | every mix of 3 lines, 2 workers | answered once, complete lines handled, server ends |
| `authority` | 3 workers, 3 contents, three session kinds | delta sessions stay coherent, loadable and durable; every session implements `OrderedAuthority` |
| `authority_save` | 2 workers, delta, apply and save | violation: a save undoes an acknowledged delta |
| `hydration` | 2 workers, 2 files, six session kinds, two of them with a store | current snapshots and facts, completion only when hydrated, through failed edits and their recovery |
| `hydration_refresh` | 2 workers, a query beside a refresh | violation: completion is recorded for facts the refresh removed |
| `components` | one instance of each of the nine independent components | the sixteen properties below |
| `edit_overlap` | batches of at most 3 operations | violation: overlapping edits are accepted |

`components` checks `IndexExact`, `CoverageHonest`, `IndexAnswersCurrent`, `IndexWitnessExact`,
`IndexDependenciesExact` (index and queries); `AcceptedOnceInOrder`, `ClearedStaysCleared` (buffered store);
`AnswersMatch` (CBM client); `FreshAnswers` (bridge); `BreakpointsOrdered`, `StubsStay` (proxy); `SpliceExact`
(edits); `ReplicaExact`, `DeltaApplies` (deltas); `TotalsExact` (statistics); `HierarchyExact` (class tree). These
components share no state with one another. A behaviour picks one of them (`part`) and runs it alone while the others
stay where they start, so the reachable states are the disjoint union of the components' own and each property is
checked on exactly the states it would be checked on in a run of its own.

### Bounds

* Edit transaction: three contents distinguish prior, target and anything else; four adversities allow a failed save,
  a failed restore, a crash and an outside write in one behaviour. Two tickets per incarnation give an older and a
  newer operation, and tickets restart with the process. The safety invariants of `edit_progress` are also proved for
  every number of workers, contents, tickets and adversities, so the instance only has to reach the interleavings
  that its mutants need. `TypeOK` is proved and not repeated in the run.
* Dispatcher, Server: depth 1 makes channels full with three requests; five requests fill the channel of a hung worker
  and leave one to be refused. `TypeOK` and `Bounded` are proved and not repeated in the run.
* Authority: three workers put a generation between the two halves of another handler beside a third; the third
  content compiles to the instructions of the first. Four calls are two deltas generated and applied.
* Hydration: two files, one edited while the other is compiled; the kinds of session separate serial sessions with
  hidden writes or a store from concurrent ones. Three calls are a query, an edit that fails, and the request that
  recovers it.
* Components: three queued writes, one failing statement, lookup or transaction and one clear; two calls of at most
  two lines, each with its retry, against a breaker that opens at two failures; three requests across one restart and
  one edit; conversations of four messages against a window of two; three operations per batch (the smallest with
  non-neighbours); three versions of at most three instructions, and lists whose lengths and numbers together stay
  within ten (`MaxTotal`: every list costs two more than its length); three recordings over two spellings of a file
  and another file; streams of at most five different instructions from four vocabularies, in every order (a member,
  its late owner, and facts before, between and after). The properties of store, client, bridge, proxy and deltas are
  also proved for every value of their bounds, so their instances only have to reach what their mutants break. The
  properties of store and bridge were checked on larger ones: two calls of `clear_file` (1,377,131 states), two edits
  of a project (247,934 states).

Deadlock checking is off because every bounded instance stops when its tickets, requests, lines or calls are used up;
that nobody waits for ever is what `OperationsEnd`, `SpawnReturns`, `ClosingEnds`, `DropReturns` and `ServerEnds`
say. Symmetry is used in safety runs only. `View` of `MCEditTransaction` ignores the locals of idle workers, which no
action reads before it overwrites them.

### Fairness

Each started operation, each `spawn`, each worker loop, the closing thread and the reader are weakly fair: threads are
scheduled and a released mutex is granted. `Begin`, crashes, failures and outside writes are not fair. Handlers return
only on `Healthy` workers: nothing in the code bounds a handler. `Authority`, `Hydration` and the components state no
fairness and no liveness.

### What the violations mean

* `edit_recovery_race`. `recover_edit_intent` holds the store mutex, a running edit holds the clock; the rename takes
  neither away from the other. A request that starts on the same file while an edit sits between its intent and its
  rename reads the prior bytes, and clears the intent after the rename. Until the edit's own durable save succeeds the
  file holds bytes that a restart cannot explain. A crash in that window leaves the file ahead of the durable context
  without an intent; the next read then recompiles, so what is lost is the edit's exact recovery, not the file.
* `authority_save`. `save_context` captures the live context under the clock and writes it after releasing it. An
  `apply_delta` that was appended and acknowledged in between is replaced in the database by the older capture.
* `hydration_refresh`. A query stamps its completion with the generation it finds when it ends. If a refresh removed
  the query's facts and began a new generation in between, the new generation is marked complete without them.
* `edit_overlap`. `validate_disjoint` compares neighbours of the request only. Two operations on one unit with a third
  between them pass, and the later splice uses offsets of text the earlier one has already replaced.

### Further disagreements

Configurations that TLC refutes, kept beside the runs:

| Configuration | Property | Disagreement |
|---|---|---|
| `EditHydrationOrder.cfg` | `NewerAuthorityWins` | the preflight of an older request publishes a recovered context over a newer commit; PUB-001 (docs/ARCHITECTURAL_INVARIANTS.md:677) excludes it |
| `ServerPartialLine.cfg` | `PartialLineHandled` | server.rs:349 promises the unterminated last line; the next iteration clears it |
| `ServerExit.cfg` | `QueuedWorkCompletes` | server.rs:295 promises the completion of queued work; the flag stops the workers first |
| `AuthorityVersions.cfg` | `VersionsAdvance` | tool_helpers.rs:245 speaks of a monotonic version; 488-490 takes the version read before the clock plus one, so two contexts share it |
| `AuthorityUnsaved.cfg` | `DeltaChainLoads` | without `auto_save`, two `apply_delta` both find no baseline row (tool_handlers/core/delta/persistence.rs:95-141 releases the store between the lookup and the write); the slower writes the old baseline again after the faster appended its delta, a third appends to the wrong base (`append_delta_with_semantics` compares only the path), and the rows no longer load. Found while proving the property; 37 steps, three workers |
| `CbmProject.cfg` | `AnswersAsked` | `set_workspace_root` returns early when the root is unchanged although `set_project` moved the active project |
| `CbmStaleRow.cfg` | `NoPreEditAnswers` | indexing.rs:160 invalidates the cache "so pre-edit entries are not served"; a DELETE that fails on disk is ignored (cache_store.rs:137-142), nothing asks for it again, and cache.rs:228-248 serves the row when memory no longer has the answer |
| `DeltaStray.cfg` | `ReplicaHoldsCompiled` | src/ir/replay.rs:11 validates version chains "to prevent out-of-order application"; a delta that the server replaced before accepting it has the versions of its successor (tool_handlers/core/delta.rs:231 numbers from the last accepted version), so a replica that applied the first takes a later delta onto the wrong list; an insertion expects no text, and the replica then holds a list nobody compiled |
| `EditAnchors.cfg` | `CallerOrderAtAnchors` | apply.rs:245 and 269 promise "caller order" for insertions at one position; each is spliced in front of the one before, so the last of the request ends up first |
| `EditReport.cfg` | `ReportInOrder` | apply.rs:301 and 313 promise the request order; the report is in ascending position, and edit.rs:427 zips it with the request |
| `StatsDomains.cfg` | `DomainsExact` | session_stats.rs:9 promises no double counting; a file recorded again in its domain is added again, one that changes domain is not counted where it arrives |

Excepted in a property or its comment, because the code does otherwise:

* An append queued between the second and the third critical section of `clear_file` names a context the third
  one deletes, belongs to no later `clear_file` (buffered_store.rs:388-401 collects ids of saves and of the committed
  row), and makes every flush that takes it fail, so nothing behind it commits. Found by a proof attempt.
* A `clear_file` call beside a transaction that a failed COMMIT left open looks up the context that transaction wrote.
  With a context of `s1` committed, an append to `s1` and a save of `s2` queued, a COMMIT that fails puts both back in
  the queue; the lookup then sees `s2` only, the append to `s1` stays queued, and its writes outlive the clear.
* A queued clear whose statement fails is lost although it was accepted (`swallowed`).
* An answer that is given up for its size at its last line, which happens when one answer exceeds the limit twice over,
  leaves the answer of the retried request to be read as the next call's (client.rs:445, with no comparison of ids).
  Found by a proof attempt.
* An edit whose durable save fails and whose bytes cannot be put back (edit.rs:346-355) leaves facts and completions of
  the old bytes (`torn`); one that was rolled back is not marked dirty, so a graph that indexed the edit's bytes keeps
  them (`ungraphed`).

Seen while modelling and stated without a configuration: rule 3 of `age_tool_results` ("appears anywhere later",
`LaterReferenceKeeps` in `ProxyWindow`), while proxy/src/transform.rs:357-367 looks at the recent messages only;
`Drop` joins without the timeout that dispatcher.rs:400 and 427 speak of, so a hung handler holds it up
(`DropReturns` says exactly that); `EditOutcome.start_byte` is an offset in the
old text although ops.rs says "in the NEW file"; units with the same qualified name replace each other in
`by_qualified` (locate.rs:178); an insertion followed by a range that contains it is not caught by
`validate_disjoint`; a rebuild of the domains drops `prompt_cache`, which has no file entry.

## 4. Proofs

All theorems hold for every choice of the constants under the assumptions named in the modules that declare them:
`NoneAssumption`, `BoundAssumption`, `SizesAssumption`, `NamesAssumption`, `ReaderAssumption`, `FactsAssumption`,
`AuthorityAssumption`, `HydrationAssumption`, `SentinelAssumption`, `NobodyAssumption`, `WindowAssumption`,
`MaxLenAssumption`, `PrimaryAssumption`, `FlusherAssumption`, `PathsAssumption`. They say that markers such as `None`
are no members of the sets they mark the absence from, that bounds are natural numbers (positive where the code clamps
them), that `Ir` is defined on the contents, that the bridge's primary root is one of the configured ones, that one
thread flushes, and that paths are sequences of components with no file below another. `OneThread` and `AutoSave` are
hypotheses of single theorems. Every invariant below was checked with TLC on an instance before it was proved.

| Theorem | States | For |
|---|---|---|
| `TypeCorrect` (four modules) | `TypeOK` | edit transaction, dispatcher, authority, hydration |
| `NoLostUpdates`, `IrreconcilableIsForeign`, `DurableIsBeforeLive` | the edit transaction's safety | any threads |
| `CrashRecoverable` | `SourceRecoverable` | one thread |
| `HandlersInOnePlace`, `ChannelsBounded`, `InFlightWorkCompletes`, `ClosedAcceptsNothing`, `RoundRobinEven` | the dispatcher's safety | any workers, submitters, requests |
| `LinesAnsweredOnce`, `NoLineLost` | reader and dispatcher together | any input |
| `OrderImplemented` | `Authority` implements `OrderedAuthority` | all sessions |
| `BasesKept` | `DeltaKeepsBase` | delta sessions |
| `ChainsLoad`, `AcceptedStaysDurable` | `DeltaChainLoads`, `DeltaAcceptedDurable` | delta sessions with `AutoSave` |
| `SnapshotsStayCurrent`, `FactsStayCurrent`, `DiscoveryStaysHydrated` | `OrderlySnapshots`, `OrderlyFacts`, `OrderlyDiscovery` | orderly sessions (with a store: one request at a time), but for `torn` files |
| `IndexStaysExact`, `CountStaysExact`, `CoverageStaysHonest` | the index maps | any files, roots, keys and facts |
| `AnswersStayCurrent` | the lookups within a scope | as above, no file below another |
| `ClientAnswers` | `AnswersMatch` | any calls, lines and failures |
| `BridgeFresh` | `FreshAnswers` | any projects, edits, failures and restarts; not hits on a row that outlived a failed DELETE |
| `StoreAccepts`, `StoreClears` | `AcceptedOnceInOrder`, `ClearedStaysCleared` | one flusher, any other threads, writes and failures, lost clears included; calls of `clear_file` that nothing disturbs |
| `WindowOrdered`, `WindowStubsStay` | `BreakpointsOrdered`, `StubsStay` | any conversation and window |
| `DeltasApply`, `ReplicaFollows` | `DeltaApplies`, `ReplicaExact` | any versions of any length, any deliveries and replacements; replicas all of whose deltas were accepted |

* `EditTransactionProofs`: `TypeOK`, `NoLostUpdate`, `IrreconcilableOnlyForeign` and `DurableBeforeLive` follow from
  one inductive invariant. It adds to the types that a worker in a clock step owns the clock and a worker in a store
  step owns the store (so at most one edit is between its check and its publication); that from the check to the
  rename the file holds the validated bytes unless an editor wrote it; that an intent, if present, has the file as
  its prior or its target unless an editor wrote it; and that after the durable save the context is the edit's until
  it is published. The lock ownership is what makes the rest inductive: only the clock owner writes the file.
  The parts are `LockInv`, `RecoveryInv`, `SourceInv`, `OwnIntentInv`, `EditStepInv` and `SavedInv`.
  With one thread (`OneThread`) `SourceRecoverable` is inductive together with the position of
  the edit inside its transaction. With two threads it is false, which `edit_recovery_race` shows; the assumption is
  therefore necessary.
* `DispatcherProofs`: `TypeOK`, `OnePlace`, `Bounded`, `InFlightCompletes` and the action property
  `NoAcceptAfterClose`. The invariant adds that a request inside `spawn` is known to one submitter only, that a sender
  is locked exactly while its submitter records or sends, that a worker runs a handler exactly in its run step, and
  that the join index has passed exited workers only. `EvenDistribution` rests on a second invariant
  (`LoadInv`): for some `q` every worker was chosen `q` times, and those before the worker whose turn it is once more;
  a request not yet spawned has no worker. `NextRemainder` says how the counter's remainder moves when it is increased,
  and from the last worker `q` becomes `q + 1`.
* `ServerProofs`: the invariant of the dispatcher, extended by where the reader is (inside `spawn` exactly with the
  line it read last), that lines ahead of it are untouched, and what became of each line behind it. Steps of the
  workers and of the closing thread only move accepted requests on (`Onward`), so they cannot turn an accepted request
  into a refused one; that is all the reader's part has to know of them.
* `AuthorityProofs` has three invariants, each resting on the one before.
  `IInv`, for all sessions: types, which locals a step may rely on (`ControlInv`, `LocalsInv`), who holds the clock,
  that a ticket being committed is later than every committed one unless the handler is `compress` (`TicketInv`), and
  that `delta_code_context` still sees the authority it captured while it holds the clock (`CaptureInv`). It gives `TypeOK`
  and the refinement: `OrderedStep` maps every step to a step of `OrderedAuthority` or to a stutter, action by action.
  `DInv`, for delta sessions: what is pending, held by a handler or captured is never newer than the live context, and
  is of its instructions when it is of its version (`NotNewer`). This is why the version test of `apply_delta` is enough:
  version numbers only grow in such a session, so equal versions mean equal instructions.
  `RowsInv`, with `AutoSave`: the rows replay to the live instructions, to the accepted context, and a context is
  persisted before it is live. Appending is `AppendedLoads`: rows that load as the base of a delta load as its target.
  Replay is a recursive function over the chain, so this needs an induction over the length of the chain
  (`ReplayedNext`). Without `AutoSave` the two theorems are false: see `AuthorityUnsaved.cfg`.
* `HydrationProofs` also has three. `TInv`, for all sessions: types, the step of its handler each worker is at
  (`read_source` counts as a step of its caller), one request at a time in serial sessions, that a file's clock is
  held exactly by the worker at a protected step for it, and that a ticket is a generation handed out (`TicketInv`).
  `SourceInv`, for orderly sessions: bytes read under a stamp
  are what the file holds as long as it has that stamp, because the stamp is taken first; what is about to be published
  was re-read inside the clock, which is needed because an edit may have drawn its ticket before and committed since;
  what an edit is about to rename over is what it read, and what it puts back is what the index was compiled from
  (`EditInv`, `UndoInv`); the index follows the file but for an edit between its rename and its publication and for a
  `torn` file.
  `HydrationInv`, for orderly sessions: what a query has neither failed at nor still to look at is hydrated
  (`PendingAt`); the graph knows every mention, or is dirty, or the file is being edited or was written unmarked
  (`GraphInv`, `Marking`); and a recorded
  completion may be believed (`DoneInv`). It rests on `Kept`: no step but a refresh takes a file's hydration away,
  so a file once looked at needs no second look, and a refresh is alone in an orderly session. While an edit
  has renamed and not published, `Hydrated` is about the bytes it would put back if there is a store, and nothing has to
  be known if there is none, because only a durable commit can fail. That a store makes a session serial is used where
  a recovered context is published without a ticket.
* `WorkspaceIndexProofs`: `IndexExact`, `CoverageHonest` and `CountExact` for any files, roots, keys and facts. The
  inductive invariant `IndexInv` says of the index and `asserted` together that each map is exact (`Exact`), the edge
  set finite and counted (`Counted`) and the coverage honest (`Honest`). Exactness of one map is not inductive: removal
  finds the edges to drop through `fileEdges` and the keys to drop through `fileMap`, and prunes the names by the
  entities that are left, so every map's step needs the others to be exact. The proof is modular: `RemovedExact` and
  `AddedExact` show that removing files from, or adding a file's edges to, a good index gives the index of the changed
  assertions; the three actions are compositions of them. The counter needs the removed edges to be a subset of the
  edges and the added ones to be new, which is where the deduplication of `add_edges` enters.
  `AnswersStayCurrent` states `AnswersCurrent`, which the run checks as `IndexAnswersCurrent` (guarded by `part`). It
  needs no invariant beyond `IndexInv`: on an exact index a bucket lookup filtered by `Admits` is a set of facts
  filtered by `Admits`, and `AdmitsIsInScope` shows that `Admits` is the prefix order of the paths. That last step is
  the only use of `PathsAssumption`, that no file lies below another: a narrowing to a file compares for equality
  (`exact`), where the reference asks for descendants.

* `CbmProofs`. `ClientInv`: since ids are never compared, that an answer is the right one depends on what pipe and
  channel can still hold when an attempt begins. Between attempts nothing is outstanding, or no child is left to send
  it, or what comes first is the middle of an abandoned answer (`Headless`), which can never parse
  (`BetweenAttempts`); while an attempt waits, exactly one answer is due and it is its own, or it is reading such a
  middle (`DuringAttempt`). `StreamOrdered` says that the lines of one answer are adjacent, which keeps `Headless`
  true as lines arrive. `BridgeInv`: a project that is not dirty, and was not reindexed under another project's root,
  has every marked edit in its graph, and in both caches if its last invalidation reached the disk (`CleanIsFresh`),
  and a request past the gate is about a project that is not dirty (`RequestClean`). An index or a cache may be as old
  as it likes while the project is dirty.
* `ComponentProofs`, buffered store. `StoreInv` keeps books (`Accounts`): the committed, the flying, the queued and the
  lost or dropped numbers are disjoint, are all numbers given out, and rise within and across the first three. Putting a
  batch back keeps them because whatever was queued meanwhile is younger (`Requeued`), and a batch that commits without
  some clears moves those from the flying to the lost. For `clear_file` it says of every call
  that is under way and undisturbed that what it covered and has not dropped is in the queue and will be owned
  (`Covering`); that a committed row shows only committed numbers makes this enough for the rows. `Without` and
  `ApplyBatch` are recursive functions; that such a function exists is `StepsExist`.
* `ComponentProofs`, delta replay. `WorkAfter` says what the working copy is after `k` edits: so much of the target,
  then so much of the base (`Mixed`). `PlanFacts` shows by the kind of the edit that each planned edit takes one such
  mixture to the next, `RecordedApplies` that an edit recorded on a copy fits that copy, `ReplayReaches` that replay
  therefore runs through the same copies and ends with the target. `ReplicaExact` is not inductive: a delta may reach the
  replica before the server accepts it. `ReplayInv` adds that every delta starts from an accepted version
  (`DeltasFromAccepted`), that what advanced the server led to the list it then accepted (`Acknowledged`), and that a
  replica is at an accepted version with its list or has followed a delta that is not accepted (`ReplicaKnown`): one
  the server has moved past, which it never will accept, or one on the server's own version, whose target the replica
  then holds (`Ahead`). Accepting that one puts the replica right; accepting another of the same versions makes it one
  the server has moved past.
* `ComponentProofs`, proxy. `WindowInv` says that stubs and marks are those of the conversation as it is. Injection has
  four slots of at most one mark, and the tail's is on the last block of the conversation that can take one, replacing
  the first message's when that is the same; messages only leave the window of recent ones, so a stub can only be
  undone by a reference.

Induction over data: the library's induction theorems take an operator as a parameter, which the installed provers
cannot instantiate. `AuthorityProofs` states induction over a set of numbers instead (`Induction`, from the
well-foundedness of the natural numbers), with the set of lengths for which a claim holds as its instance;
`ComponentProofs` looks at the least counterexample (`LeastNatural`) and proves once that a computation of `n` steps
exists (`StepsExist`) and is unique (`StepsDetermine`). This serves for recursive functions over numbers; what the
community modules' folds compute is a different matter, because their definitions go through a choice of a recursive
function over sequences or sets.

Only model-checked:

* everything temporal (`OperationsEnd`, `SpawnReturns`, `ClosingEnds`, `HealthyProgress`, `DropReturns`, `ServerEnds`):
  liveness under fairness is out of the prover's reach;
* the two properties of `IndexQueries`, whose walks are RECURSIVE operators; `SpliceExact`, `TotalsExact` and
  `HierarchyExact`, whose models compute with folds over sequences and sets.

## 5. Not modelled, and the plan

Left out:

* Language and framework layers (`src/compression`, `src/angular_meta`, `src/spring_meta` and the like), which are
  most of the repository's lines: extraction tables over syntax trees, no state and no protocol. The index takes what
  they extract as the constant `Facts`. Because of them the map covers about an eighth of the implementation, and
  modelling every protocol below would not bring it near a third.
* The other IR encodings (named tuples, string table, binary, compact), which treat one instruction at a time, and the
  upgrades of older hierarchical revisions, whose writers are not in the repository.
* Text rendering, token counting, presentation, the dashboards and the structure diff: no state.
* Intelligence algorithms (PageRank, scoring): floating point. The depth-limited walk they share is in `IndexQueries`.
* The proxy's HTTP forwarding and its rate limiter, a floating-point bucket over wall-clock time.
* The router, a stateless match from method to handler; process start-up, telemetry, schema migration.
* The legacy delta format, which production only reads, and semantic intents of a delta, which are display data.
* The in-memory mode without a store, and more than one compatibility identity.

Plan for what follows:

1. Prove `TotalsExact`: a sum over a set of files in terms of a recursive function over an enumeration of it.
2. Write the walks of `IndexQueries` as recursive functions over the number of steps, and prove what they reach from
   `FactsAreEdges`.
3. Compose `Hydration` with `WorkspaceIndex` in place of what each file contributes to it.
