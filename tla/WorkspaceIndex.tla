--------------------------- MODULE WorkspaceIndex ---------------------------
(***************************************************************************)
(* The cross-file semantic index of a session (WorkspaceIndex): eight      *)
(* redundant maps over the edges each file asserts, kept in step by        *)
(* add_edges, remove_file, remove_files_in_root and                        *)
(* replace_semantic_projection.  Every operation runs under the index lock *)
(* and is one step.  Vectors are sets here: the order of a bucket is the   *)
(* order of insertion and no operation depends on it.                      *)
(*                                                                         *)
(* A file is a sequence of path components; an entity key is an element of *)
(* Keys, and Name[k] its third component.  An edge [rel, subj, obj] stands *)
(* for one occurrence identity, call evidence included.                    *)
(***************************************************************************)
EXTENDS Naturals, Sequences, FiniteSets

CONSTANTS
    Files,      \* canonical paths, as sequences of components
    Roots,      \* workspace roots, as sequences of components
    Keys,       \* entity keys
    Name,       \* Name[k]: the entity name of a key
    Sources,    \* source hashes
    Facts       \* Facts[<<s, q>>]: the edges a compilation of s at q extracts

Low == 1
High == 3
Edit == 4    \* Edit and Verbatim compilations publish no coverage

Fidelities == {Low, High, Edit}

Relation == {e.rel : e \in UNION {Facts[p] : p \in Sources \X Fidelities}}

\* An extraction asserts finitely many edges, between known keys.
ASSUME FactsAssumption ==
    /\ Facts \in [Sources \X Fidelities -> SUBSET [rel: Relation, subj: Keys, obj: Keys]]
    /\ \A p \in Sources \X Fidelities : IsFiniteSet(Facts[p])

VARIABLES
    ix,         \* the index: a record of its maps, see Empty
    asserted    \* history: the edges each file asserts

vars == <<ix, asserted>>

Empty ==
    [entities |-> {},       \* <<key, file>>: entity occurrences
     forward  |-> <<>>,     \* subject -> its StoredEdges
     reverse  |-> <<>>,     \* object -> its StoredEdges
     edges    |-> {},       \* edge_set, of [file, edge]
     fileMap  |-> <<>>,     \* file -> its entity keys
     fileEdges |-> <<>>,    \* file -> its edge keys
     names    |-> <<>>,     \* name -> entity keys
     coverage |-> <<>>,     \* file -> [fidelity, hash]
     count    |-> 0]        \* edge_count

Bucket(m, k) == IF k \in DOMAIN m THEN m[k] ELSE {}

Present(i, k) == \E f \in Files : <<k, f>> \in i.entities

-----------------------------------------------------------------------------
(* add_edges *)

Ends(E) == {e.subj : e \in E} \union {e.obj : e \in E}

\* A self-referential Defines only registers its entity.
IsRegistration(e) == e.rel = "Defines" /\ e.subj = e.obj
Relationships(E) == {e \in E : ~IsRegistration(e)}

\* The keys and the edge occurrences that file f did not assert before.
NewKeys(i, f, E) == {k \in Ends(E) : <<k, f>> \notin i.entities}
Fresh(i, f, E) == {[file |-> f, edge |-> e] : e \in Relationships(E)} \ i.edges

\* m with the elements of S added to the bucket of k.
Filed(m, k, S) ==
    [x \in DOMAIN m \union (IF S = {} THEN {} ELSE {k}) |->
        IF x = k THEN Bucket(m, k) \union S ELSE m[x]]

AddEdges(i, f, E) ==
    LET fresh == Fresh(i, f, E)
    IN  [entities |-> i.entities \union {<<k, f>> : k \in NewKeys(i, f, E)},
         names |-> [n \in DOMAIN i.names \union {Name[k] : k \in Ends(E)} |->
                      Bucket(i.names, n) \union {k \in Ends(E) : Name[k] = n}],
         edges |-> i.edges \union fresh,
         count |-> i.count + Cardinality(fresh),
         forward |-> [k \in DOMAIN i.forward \union {s.edge.subj : s \in fresh} |->
                        Bucket(i.forward, k) \union {s \in fresh : s.edge.subj = k}],
         reverse |-> [k \in DOMAIN i.reverse \union {s.edge.obj : s \in fresh} |->
                        Bucket(i.reverse, k) \union {s \in fresh : s.edge.obj = k}],
         fileEdges |-> Filed(i.fileEdges, f, fresh),
         fileMap |-> Filed(i.fileMap, f, NewKeys(i, f, E)),
         coverage |-> i.coverage]

-----------------------------------------------------------------------------
(* remove_file, for each file of F in turn: the removals commute *)

RemovedEdges(i, F) == UNION {Bucket(i.fileEdges, f) : f \in F}
RemovedKeys(i, F) == UNION {Bucket(i.fileMap, f) : f \in F}

\* Mutant: every occurrence of the removed identities goes.
KeptEntitiesByKey(i, F) == {p \in i.entities : p[1] \notin RemovedKeys(i, F)}

KeptEntities(i, F) ==
    i.entities \ {p \in RemovedKeys(i, F) \X F : p[1] \in Bucket(i.fileMap, p[2])}

\* Mutant: one edge per file is counted off.
KeptCountPerFile(i, F) == i.count - Cardinality(F \intersect DOMAIN i.fileEdges)

KeptCount(i, F) ==
    LET n == Cardinality(RemovedEdges(i, F)) IN IF n > i.count THEN 0 ELSE i.count - n

\* Mutant: the coverage of a removed file stays.
KeptCoverageOfAll(i, F) == i.coverage

KeptCoverage(i, F) == [f \in DOMAIN i.coverage \ F |-> i.coverage[f]]

\* The keys of the files F that no other file asserts.
GoneKeys(i, F) ==
    {k \in RemovedKeys(i, F) : ~\E f \in Files : <<k, f>> \in KeptEntities(i, F)}

\* Only the buckets of the removed names are cleaned.
LeftNamed(i, F, n) ==
    IF n \in {Name[k] : k \in RemovedKeys(i, F)}
    THEN {k \in i.names[n] : \E f \in Files : <<k, f>> \in KeptEntities(i, F)}
    ELSE i.names[n]

KeptNames(i, F) ==
    {n \in DOMAIN i.names : n \in {Name[k] : k \in RemovedKeys(i, F)} => LeftNamed(i, F, n) # {}}

RemoveFiles(i, F) ==
    LET dropped == RemovedEdges(i, F)
    IN  [coverage |-> KeptCoverage(i, F),
         fileEdges |-> [f \in DOMAIN i.fileEdges \ F |-> i.fileEdges[f]],
         fileMap |-> [f \in DOMAIN i.fileMap \ F |-> i.fileMap[f]],
         count |-> KeptCount(i, F),
         edges |-> i.edges \ dropped,
         forward |-> [k \in DOMAIN i.forward \ GoneKeys(i, F) |->
                        i.forward[k] \ {s \in dropped : s.edge.subj = k}],
         reverse |-> [k \in DOMAIN i.reverse \ GoneKeys(i, F) |->
                        i.reverse[k] \ {s \in dropped : s.edge.obj = k}],
         entities |-> KeptEntities(i, F),
         names |-> [n \in KeptNames(i, F) |-> LeftNamed(i, F, n)]]

-----------------------------------------------------------------------------
(* path_identity.rs: the root itself or a descendant, by components *)

IsWithinRoot(f, r) == Len(f) >= Len(r) /\ SubSeq(f, 1, Len(r)) = r

Owners(i, r) ==
    {f \in DOMAIN i.fileMap \union DOMAIN i.fileEdges \union DOMAIN i.coverage :
        IsWithinRoot(f, r)}

\* has_current_semantic_projection
HasCurrentProjection(i, f, q, s) ==
    /\ f \in DOMAIN i.coverage
    /\ i.coverage[f].hash = s
    /\ i.coverage[f].fidelity >= q

\* replace_semantic_projection; at Edit fidelity the handlers call remove_file
\* and add_edges, which leaves no coverage behind.
Projected(i, f, s, q) ==
    LET j == AddEdges(RemoveFiles(i, {f}), f, Facts[<<s, q>>])
    IN  IF q = Edit THEN j
        ELSE [j EXCEPT !.coverage = [g \in DOMAIN @ \union {f} |->
                 IF g = f THEN [fidelity |-> q, hash |-> s] ELSE @[g]]]

-----------------------------------------------------------------------------
Init == ix = Empty /\ asserted = [f \in Files |-> {}]

Project(f, s, q) ==
    /\ ix' = Projected(ix, f, s, q)
    /\ asserted' = [asserted EXCEPT ![f] = Facts[<<s, q>>]]

\* delete_context
RemoveFile(f) ==
    /\ ix' = RemoveFiles(ix, {f})
    /\ asserted' = [asserted EXCEPT ![f] = {}]

\* refresh_workspace
RemoveFilesInRoot(r) ==
    /\ ix' = RemoveFiles(ix, Owners(ix, r))
    /\ asserted' = [f \in Files |-> IF IsWithinRoot(f, r) THEN {} ELSE asserted[f]]

Next ==
    \/ \E f \in Files, s \in Sources, q \in Fidelities : Project(f, s, q)
    \/ \E f \in Files : RemoveFile(f)
    \/ \E r \in Roots : RemoveFilesInRoot(r)

Spec == Init /\ [][Next]_vars

-----------------------------------------------------------------------------
(* Properties *)

AssertedEdges ==
    {s \in [file: Files, edge: UNION {asserted[f] : f \in Files}] :
        s.edge \in Relationships(asserted[s.file])}

\* Every map of the index says exactly what the files assert now: no edge or
\* entity of a recompiled, deleted or refreshed file survives in any of them,
\* and none of another file's is lost, identical triples and names included
\* (edges.rs, remove.rs).
EntitiesExact ==
    ix.entities = {p \in Keys \X Files : p[1] \in Ends(asserted[p[2]])}

EdgesExact == ix.edges = AssertedEdges

AdjacencyExact ==
    /\ \A k \in Keys : Bucket(ix.forward, k) = {s \in ix.edges : s.edge.subj = k}
    /\ \A k \in Keys : Bucket(ix.reverse, k) = {s \in ix.edges : s.edge.obj = k}
    /\ \A k \in DOMAIN ix.forward \union DOMAIN ix.reverse : k \in Keys /\ Present(ix, k)

FilesExact ==
    /\ \A f \in Files : Bucket(ix.fileMap, f) = Ends(asserted[f])
    /\ \A f \in Files : Bucket(ix.fileEdges, f) = {s \in ix.edges : s.file = f}
    /\ DOMAIN ix.fileMap \union DOMAIN ix.fileEdges \subseteq Files

NamesExact ==
    /\ DOMAIN ix.names = {Name[k] : k \in {j \in Keys : Present(ix, j)}}
    /\ \A n \in DOMAIN ix.names :
          ix.names[n] = {k \in Keys : Present(ix, k) /\ Name[k] = n}

IndexExact ==
    EntitiesExact /\ EdgesExact /\ AdjacencyExact /\ FilesExact /\ NamesExact

\* edge_count never drifts from the edge set (saturating_sub would hide it).
CountExact == ix.count = Cardinality(ix.edges)

\* A file reported as covered holds the facts of exactly the source and the
\* fidelity it is reported at, so a query that skips recompilation
\* (has_current_semantic_projection) reads current facts (coverage.rs).
CoverageHonest ==
    \A f \in DOMAIN ix.coverage :
        LET c == ix.coverage[f]
        IN  /\ f \in Files
            /\ asserted[f] = Facts[<<c.hash, c.fidelity>>]
=============================================================================
