---------------------------- MODULE IndexLookups ----------------------------
(***************************************************************************)
(* The queries workspace_query answers from one bucket of a WorkspaceIndex:*)
(* lookup by name and file, forward and reverse edges, selector and        *)
(* injection targets, each within an optional workspace scope.  A scope is *)
(* None or a record [roots, within, exact]: the authorized roots and the   *)
(* optional withinPath narrowing (None), which is an existing file when    *)
(* exact.                                                                  *)
(***************************************************************************)
EXTENDS WorkspaceIndex, SequencesExt

CONSTANT None    \* no scope, no narrowing

Component == UNION {Range(p) : p \in Files \union Roots}

\* Paths are sequences of components, and a file is not a directory: no other
\* file lies below it.
ASSUME PathsAssumption ==
    /\ Files \union Roots \subseteq Seq(Component)
    /\ \A f, g \in Files : IsPrefix(f, g) => f = g

-----------------------------------------------------------------------------
(* workspace/scope.rs *)

\* Mutant: withinPath does not narrow.
AdmitsRoots(scope, f) ==
    \/ scope = None
    \/ scope.roots = {} \/ \E r \in scope.roots : IsWithinRoot(f, r)

\* WorkspaceScope::admits
Admits(scope, f) ==
    \/ scope = None
    \/ /\ scope.roots = {} \/ \E r \in scope.roots : IsWithinRoot(f, r)
       /\ \/ scope.within = None
          \/ scope.exact /\ f = scope.within
          \/ ~scope.exact /\ IsWithinRoot(f, scope.within)

\* WorkspaceScope::new and narrowed: a narrowing outside every root is refused.
ScopeFor(roots, within) ==
    IF within = None THEN {[roots |-> roots, within |-> None, exact |-> FALSE]}
    ELSE IF \E r \in roots : IsWithinRoot(within, r)
    THEN {[roots |-> roots, within |-> within, exact |-> within \in Files]}
    ELSE {}

-----------------------------------------------------------------------------
(* Lookups *)

FindEntitiesByName(i, n, scope) ==
    {p \in i.entities : p[1] \in Bucket(i.names, n) /\ Admits(scope, p[2])}

EntitiesInFile(i, f) ==
    {p \in i.entities : p[1] \in Bucket(i.fileMap, f) /\ p[2] = f}

ForwardEdges(i, k, scope) == {s \in Bucket(i.forward, k) : Admits(scope, s.file)}
ReverseEdges(i, k, scope) == {s \in Bucket(i.reverse, k) : Admits(scope, s.file)}

ResolveInjectType(i, n) ==
    {p \in i.entities :
        /\ p[1] \in Bucket(i.names, n)
        /\ \E s \in Bucket(i.reverse, p[1]) : s.edge.rel \in {"Injects", "Autowired"}}

ResolveSelector(i, n) ==
    {p \in i.entities :
        \E m \in Bucket(i.names, n) : \E s \in Bucket(i.reverse, m) :
            s.edge.rel = "HasSelector" /\ s.edge.subj = p[1]}

-----------------------------------------------------------------------------
(* Properties *)

Withins == {None} \union Roots \union Files
Scopes ==
    {None} \union UNION {ScopeFor(rs, w) : rs \in (SUBSET Roots) \ {{}}, w \in Withins}

\* The workspace a query is issued for, intersected with withinPath.
InScope(scope) ==
    {f \in Files : scope = None \/
        /\ \E r \in scope.roots : IsPrefix(r, f)
        /\ scope.within = None \/ IsPrefix(scope.within, f)}

FactsIn(scope) ==
    UNION {{[file |-> f, edge |-> e] : e \in Relationships(asserted[f])} :
              f \in InScope(scope)}

OccursIn(scope) ==
    {p \in Keys \X Files : p[2] \in InScope(scope) /\ p[1] \in Ends(asserted[p[2]])}

ScopedCurrent ==
    \A scope \in Scopes, k \in Keys :
        /\ FindEntitiesByName(ix, Name[k], scope) =
              {p \in OccursIn(scope) : Name[p[1]] = Name[k]}
        /\ ForwardEdges(ix, k, scope) = {s \in FactsIn(scope) : s.edge.subj = k}
        /\ ReverseEdges(ix, k, scope) = {s \in FactsIn(scope) : s.edge.obj = k}

FilesCurrent ==
    \A f \in Files : EntitiesInFile(ix, f) = {<<k, f>> : k \in Ends(asserted[f])}

ResolvedCurrent ==
    \A k \in Keys :
        /\ ResolveSelector(ix, Name[k]) =
              {p \in OccursIn(None) : \E s \in FactsIn(None) :
                  s.edge.rel = "HasSelector" /\ s.edge.subj = p[1] /\ Name[s.edge.obj] = Name[k]}
        /\ ResolveInjectType(ix, Name[k]) =
              {p \in OccursIn(None) : Name[p[1]] = Name[k] /\ \E s \in FactsIn(None) :
                  s.edge.rel \in {"Injects", "Autowired"} /\ s.edge.obj = p[1]}

\* Every lookup answers with what the admitted files assert now, whatever was
\* published and retracted before, and never with another workspace's
\* evidence for the same identity (index.rs, scope.rs).
AnswersCurrent == ScopedCurrent /\ FilesCurrent /\ ResolvedCurrent
=============================================================================
