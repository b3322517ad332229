--------------------------- MODULE SessionStats ----------------------------
(***************************************************************************)
(* The token accounting behind context_stats                               *)
(* (src/src/mcp/session_stats.rs): per-file entries, session totals and    *)
(* per-domain totals, kept incrementally by the recording calls, and the   *)
(* dashboard's copy, merged with what SQLite remembers.  Percentages,      *)
(* fidelity names and the hit counters are derived or display data.        *)
(***************************************************************************)
EXTENDS Naturals, FiniteSets, FiniteSetsExt

CONSTANTS
    Spellings,      \* the paths callers use
    Canonical,      \* canonical_identity_key: spelling -> file
    Events,         \* what callers record: [raw, compressed, strategy, domain]
    ToolEvents,     \* CBM interceptions and proxy filters: [raw, compressed]
    Rows,           \* persisted contexts: [raw, compressed, deltas]
    MaxEvents       \* bound on the recordings

VARIABLES
    session,        \* SessionStats of the server
    contexts,       \* the contexts table: file -> row
    persistent,     \* a persistence store is configured
    board,          \* the snapshot the last context_stats rendered, or NoBoard
    recorded

statsVars == <<session, contexts, persistent, board, recorded>>

Put(map, key, value) ==
    [k \in DOMAIN map \union {key} |-> IF k = key THEN value ELSE map[k]]

SaturatingSub(m, n) == IF m > n THEN m - n ELSE 0

Empty == [x \in {} |-> x]
NewStats == [files |-> Empty, raw |-> 0, compressed |-> 0, full |-> 0, delta |-> 0,
             cbm |-> 0, domains |-> Empty]
NoBoard == NewStats

DomainIn(domains, d) ==
    IF d \in DOMAIN domains THEN domains[d] ELSE [raw |-> 0, compressed |-> 0, files |-> 0]

-----------------------------------------------------------------------------
\* Mutant: the totals keep what a re-recorded file contributed before.
Deducted_never(known, before, event) == FALSE

\* A delta on top of a full compression keeps the full one's tokens.
Preserved(known, before, event) ==
    known /\ event.strategy = "delta" /\ before.strategy = "full"

\* A re-recorded file's previous tokens leave the session totals.
Deducted(known, before, event) == known /\ ~Preserved(known, before, event)

\* The old domain gives the file's previous tokens up when the domain changes.
LeaveDomain(domains, known, before, event) ==
    IF known /\ before.domain # event.domain
    THEN Put(domains, before.domain,
             [raw |-> SaturatingSub(domains[before.domain].raw, before.raw),
              compressed |-> SaturatingSub(domains[before.domain].compressed, before.compressed),
              files |-> SaturatingSub(domains[before.domain].files, 1)])
    ELSE domains

\* The new domain counts a file only on the file's very first recording.
EnterDomain(domains, event, preserved, version) ==
    LET was == DomainIn(domains, event.domain)
    IN  Put(domains, event.domain,
            [raw |-> was.raw + (IF preserved THEN 0 ELSE event.raw),
             compressed |-> was.compressed + (IF preserved THEN 0 ELSE event.compressed),
             files |-> was.files + (IF version = 1 THEN 1 ELSE 0)])

RecordCompression(stats, spelling, event) ==
    LET file == IF spelling \in DOMAIN stats.files THEN spelling ELSE Canonical[spelling]
        known == file \in DOMAIN stats.files
        before == IF known THEN stats.files[file]
                  ELSE [raw |-> 0, compressed |-> 0, version |-> 0, deltas |-> 0,
                        strategy |-> event.strategy, domain |-> event.domain]
        preserved == Preserved(known, before, event)
        Total(total, old, new) ==
            (IF Deducted(known, before, event) THEN SaturatingSub(total, old) ELSE total)
            + (IF preserved THEN 0 ELSE new)
        Count(count, strategy) ==
            LET left == known /\ ~preserved /\ before.strategy = strategy
                            /\ event.strategy # strategy
            IN  (IF left THEN SaturatingSub(count, 1) ELSE count)
                + (IF event.strategy = strategy THEN 1 ELSE 0)
    IN  [stats EXCEPT
            !.files = Put(@, file,
                [raw |-> IF preserved THEN before.raw ELSE event.raw,
                 compressed |-> IF preserved THEN before.compressed ELSE event.compressed,
                 version |-> before.version + 1,
                 deltas |-> before.deltas + (IF event.strategy = "delta" THEN 1 ELSE 0),
                 strategy |-> event.strategy, domain |-> event.domain]),
            !.raw = Total(@, before.raw, event.raw),
            !.compressed = Total(@, before.compressed, event.compressed),
            !.full = Count(@, "full"),
            !.delta = Count(@, "delta"),
            !.domains = EnterDomain(LeaveDomain(@, known, before, event), event, preserved,
                                    before.version + 1)]

\* Interceptions of one CBM tool accumulate in one entry.
RecordCbmProxy(stats, tool, event) ==
    LET known == tool \in DOMAIN stats.files
        before == IF known THEN stats.files[tool]
                  ELSE [raw |-> 0, compressed |-> 0, version |-> 0, deltas |-> 0,
                        strategy |-> "full", domain |-> "cbm_filter"]
        domain == DomainIn(stats.domains, "cbm_filter")
    IN  [stats EXCEPT
            !.raw = @ + event.raw, !.compressed = @ + event.compressed, !.cbm = @ + 1,
            !.files = Put(@, tool, [before EXCEPT !.raw = @ + event.raw,
                                        !.compressed = @ + event.compressed, !.version = @ + 1]),
            !.domains = Put(@, "cbm_filter",
                [raw |-> domain.raw + event.raw, compressed |-> domain.compressed + event.compressed,
                 files |-> domain.files + (IF known THEN 0 ELSE 1)])]

\* record_cache_hit and sync_cache_metrics: tokens never sent.
RecordCached(stats, tokens) ==
    [stats EXCEPT !.domains = Put(@, "prompt_cache",
        [DomainIn(@, "prompt_cache") EXCEPT !.raw = @ + tokens])]

-----------------------------------------------------------------------------
(* The dashboard. *)

SumOver(files, chosen, field) == MapThenSumSet(LAMBDA f : files[f][field], chosen)

InDomain(files, d) == {f \in DOMAIN files : files[f].domain = d}

\* rebuild_domain_stats: a domain without a file entry is not rebuilt.
RebuildDomains(files) ==
    [d \in {files[f].domain : f \in DOMAIN files} |->
        [raw |-> SumOver(files, InDomain(files, d), "raw"),
         compressed |-> SumOver(files, InDomain(files, d), "compressed"),
         files |-> Cardinality(InDomain(files, d))]]

\* In-memory entries win; the totals are recomputed from the merged entries.
Merge(stats, other) ==
    LET Larger(m, n) == IF m > n THEN m ELSE n
        both == DOMAIN stats.files \intersect DOMAIN other.files
        files == [f \in DOMAIN stats.files \union DOMAIN other.files |->
                     IF f \in both
                     THEN [stats.files[f] EXCEPT !.version = Larger(@, other.files[f].version),
                                                 !.deltas = @ + other.files[f].deltas]
                     ELSE IF f \in DOMAIN stats.files THEN stats.files[f] ELSE other.files[f]]
    IN  [files |-> files,
         raw |-> SumOver(files, DOMAIN files, "raw"),
         compressed |-> SumOver(files, DOMAIN files, "compressed"),
         full |-> Cardinality({f \in DOMAIN files :
                      files[f].strategy # "delta" /\ files[f].domain # "cbm_filter"}),
         delta |-> Cardinality({f \in DOMAIN files : files[f].strategy = "delta"}),
         cbm |-> stats.cbm + other.cbm,
         domains |-> RebuildDomains(files)]

\* SqliteContextStore.rebuild_stats: one recording per context row.
RebuildStats(table) ==
    LET EventOf(row) == [raw |-> row.raw, compressed |-> row.compressed,
                         strategy |-> IF row.deltas > 0 THEN "delta" ELSE "full",
                         domain |-> "ir_compression"]
    IN  FoldSet(LAMBDA file, stats : RecordCompression(stats, file, EventOf(table[file])),
                NewStats, DOMAIN table)

\* handle_context_stats: the figures of a proxy that answers go into the copy only.
Dashboard(answers, filtered, cached) ==
    LET merged == IF persistent THEN Merge(session, RebuildStats(contexts)) ELSE session
        filter == [raw |-> filtered.raw, compressed |-> filtered.compressed,
                   strategy |-> "full", domain |-> "tool_filter"]
    IN  RecordCached(IF answers THEN RecordCompression(merged, "__proxy__", filter) ELSE merged,
                     cached)

-----------------------------------------------------------------------------
StatsInit ==
    /\ session = NewStats
    /\ contexts = Empty
    /\ persistent \in BOOLEAN
    /\ board = NoBoard
    /\ recorded = 0

Recorded == recorded < MaxEvents /\ recorded' = recorded + 1 /\ board' = NoBoard

Compress(spelling, event) ==
    /\ Recorded
    /\ session' = RecordCompression(session, spelling, event)
    /\ UNCHANGED <<contexts, persistent>>

ProxyCbm(tool, event) ==
    /\ Recorded
    /\ session' = RecordCbmProxy(session, tool, event)
    /\ UNCHANGED <<contexts, persistent>>

\* A handler saved a context, or one was there from an earlier session.
Persist(file, row) ==
    /\ persistent /\ board = NoBoard
    /\ contexts' = Put(contexts, file, row)
    /\ UNCHANGED <<session, persistent, board, recorded>>

ContextStats(filtered, cached) ==
    /\ board = NoBoard
    /\ \E answers \in BOOLEAN : board' = Dashboard(answers, filtered, cached)
    /\ UNCHANGED <<session, contexts, persistent, recorded>>

StatsNext ==
    \/ \E spelling \in Spellings, event \in Events : Compress(spelling, event)
    \/ \E event \in ToolEvents : ProxyCbm("cbm://", event)
    \/ \E file \in {Canonical[s] : s \in Spellings}, row \in Rows : Persist(file, row)
    \/ \E filtered \in ToolEvents : ContextStats(filtered, 1)

-----------------------------------------------------------------------------
TotalsMatch(stats) ==
    /\ stats.raw = SumOver(stats.files, DOMAIN stats.files, "raw")
    /\ stats.compressed = SumOver(stats.files, DOMAIN stats.files, "compressed")

DomainsMatch(stats) ==
    \A d \in DOMAIN stats.domains \ {"prompt_cache"} :
        stats.domains[d] = [raw |-> SumOver(stats.files, InDomain(stats.files, d), "raw"),
                            compressed |-> SumOver(stats.files, InDomain(stats.files, d), "compressed"),
                            files |-> Cardinality(InDomain(stats.files, d))]

\* The incremental totals, with their saturating subtractions, never drift from
\* the entries, in the session or on the dashboard, and with a store the
\* dashboard's domains add up to them too: no file is counted twice.
TotalsExact ==
    /\ TotalsMatch(session)
    /\ TotalsMatch(board)
    /\ persistent => DomainsMatch(board)

\* "each compression event is tagged with a SavingsDomain so the dashboard can
\* show per-domain breakdowns without double-counting" (session_stats.rs:9).
\* Fails: a file recorded again in its domain is added again, and one that
\* changes domain is not counted where it goes.
DomainsExact == DomainsMatch(session)
=============================================================================
