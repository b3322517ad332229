---------------------------- MODULE IndexQueries ----------------------------
(***************************************************************************)
(* The walks workspace_query takes through a WorkspaceIndex: bounded       *)
(* dependency traversal and the dependency-cycle witness, within an        *)
(* optional workspace scope.                                               *)
(***************************************************************************)
EXTENDS IndexLookups

CONSTANTS
    KeyOrder,    \* the keys in the order of their names
    FileOrder    \* the files in the order of their paths

Relations ==
    {"Defines", "Injects", "Autowired", "ImportsModule", "HandlesAction",
     "CallsService", "HasEntity", "MapsFrom", "ConfigurationProperties",
     "HasSelector", "Calls"}
DependencyRelations ==
    {"Injects", "Autowired", "ImportsModule", "HandlesAction", "CallsService",
     "HasEntity", "MapsFrom", "ConfigurationProperties"}
CycleRelations == {"Injects", "ImportsModule"}

-----------------------------------------------------------------------------
(* Traversal *)

\* build_node_index
Nodes(i) ==
    {p[1] : p \in i.entities} \union DOMAIN i.forward \union DOMAIN i.reverse

Position(seq, x) == CHOOSE n \in 1..Len(seq) : seq[n] = x

\* Ordered by relation, object and asserting file.
Before(s, t) ==
    LET Rank(u) == <<IF u.edge.rel = "Injects" THEN 0 ELSE 1,
                     Position(KeyOrder, u.edge.obj), Position(FileOrder, u.file)>>
        a == Rank(s)
        b == Rank(t)
    IN  \E n \in 1..3 : a[n] < b[n] /\ \A m \in 1..(n - 1) : a[m] = b[m]

\* Mutant: the scope filters the answer, not the walk.
FollowedUnscoped(i, k, rels, scope) ==
    {s \in Bucket(i.forward, k) : s.edge.rel \in rels /\ s.edge.obj \in Nodes(i)}

Followed(i, k, rels, scope) ==
    {s \in ForwardEdges(i, k, scope) : s.edge.rel \in rels /\ s.edge.obj \in Nodes(i)}

\* The path of parent edges from `top` down to `node`, closed by `s`.
RECURSIVE PathFrom(_, _, _)
PathFrom(parent, top, node) ==
    IF node = top THEN <<>>
    ELSE Append(PathFrom(parent, top, parent[node].edge.subj), parent[node])

\* Three-colour depth-first search: stack of <<node, unexplored edges>>.
RECURSIVE Search(_, _, _, _, _, _)
Search(i, scope, todo, stack, colour, parent) ==
    LET Out(k) == SetToSortSeq(Followed(i, k, CycleRelations, scope), Before)
    IN
    IF stack = <<>>
    THEN LET white == {n \in 1..Len(todo) : colour[todo[n]] = 0}
         IN  IF white = {} THEN <<>>
             ELSE LET k == todo[CHOOSE n \in white : \A m \in white : n <= m]
                  IN  Search(i, scope, todo, <<<<k, Out(k)>>>>,
                             [colour EXCEPT ![k] = 1], parent)
    ELSE LET node == stack[Len(stack)][1]
             rest == stack[Len(stack)][2]
             below == Front(stack)
         IN  IF rest = <<>>
             THEN Search(i, scope, todo, below, [colour EXCEPT ![node] = 2], parent)
             ELSE LET s == Head(rest)
                      k == s.edge.obj
                      here == Append(below, <<node, Tail(rest)>>)
                  IN  CASE colour[k] = 0 ->
                             Search(i, scope, todo, Append(here, <<k, Out(k)>>),
                                    [colour EXCEPT ![k] = 1], [parent EXCEPT ![k] = s])
                        [] colour[k] = 1 -> Append(PathFrom(parent, k, node), s)
                        [] OTHER -> Search(i, scope, todo, here, colour, parent)

\* dependency_cycle_witness_with_scope; the empty sequence is None.
CycleWitness(i, scope) ==
    Search(i, scope, SelectSeq(KeyOrder, LAMBDA k : k \in Nodes(i)), <<>>,
           [k \in Keys |-> 0], [k \in Keys |-> None])

\* Mutant: one level too many.
AtLimitExclusive(limit, depth) == limit > 0 /\ depth > limit

\* A depth of 0 is unlimited.
AtLimit(limit, depth) == limit > 0 /\ depth >= limit

\* graph_utils::transitive_dependencies: breadth first, a queue of <<node,
\* depth>>; a node is marked when it is queued.
RECURSIVE Explore(_, _, _, _, _)
Explore(i, scope, limit, queue, visited) ==
    IF queue = <<>> THEN visited
    ELSE LET node  == Head(queue)[1]
             depth == Head(queue)[2]
             next  == {s.edge.obj : s \in Followed(i, node, DependencyRelations, scope)}
                        \ visited
         IN  IF AtLimit(limit, depth)
             THEN Explore(i, scope, limit, Tail(queue), visited)
             ELSE Explore(i, scope, limit,
                          Tail(queue) \o SetToSeq({<<k, depth + 1>> : k \in next}),
                          visited \union next)

TransitiveDependencies(i, k, limit, scope) ==
    IF k \notin DOMAIN i.forward \/ ~\E f \in Files : <<k, f>> \in i.entities /\ Admits(scope, f)
    THEN {}
    ELSE Explore(i, scope, limit, <<<<k, 0>>>>, {k}) \ {k}

-----------------------------------------------------------------------------
(* Properties *)

\* The pairs joined by at most n edges of the relations, from the facts alone.
Joined(scope, rels, n) ==
    LET step == {<<s.edge.subj, s.edge.obj>> : s \in {t \in FactsIn(scope) : t.edge.rel \in rels}}
        within[m \in 0..n] ==
            IF m = 0 THEN {}
            ELSE step \union within[m - 1] \union
                 {<<a, b>> \in Keys \X Keys :
                     \E c \in Keys : <<a, c>> \in within[m - 1] /\ <<c, b>> \in step}
    IN  within[n]

\* The witness is a simple closed path of the admitted evidence, and there is
\* none exactly when that evidence is acyclic: a cycle is never assembled from
\* two workspaces, and stale buckets never close one (traversal.rs).
WitnessExact ==
    \A scope \in Scopes :
        LET w == CycleWitness(ix, scope)
        IN  IF w = <<>>
            THEN \A k \in Keys :
                    <<k, k>> \notin Joined(scope, CycleRelations, Cardinality(Keys))
            ELSE /\ \A n \in 1..Len(w) :
                       /\ w[n] \in FactsIn(scope) /\ w[n].edge.rel \in CycleRelations
                       /\ w[n].edge.obj = w[(n % Len(w)) + 1].edge.subj
                 /\ \A m, n \in 1..Len(w) : w[m].edge.subj = w[n].edge.subj => m = n

\* Traversal reports exactly the identities within `depth` steps of admitted
\* evidence from a start the workspace contains (traversal.rs, graph_utils.rs).
DependenciesExact ==
    \A scope \in Scopes, k \in Keys, depth \in 0..2 :
        TransitiveDependencies(ix, k, depth, scope) =
            IF \E f \in InScope(scope) : k \in Ends(asserted[f])
            THEN {j \in Keys \ {k} :
                     <<k, j>> \in Joined(scope, DependencyRelations,
                                         IF depth = 0 THEN Cardinality(Keys) ELSE depth)}
            ELSE {}
=============================================================================
