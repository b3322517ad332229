------------------------ MODULE WorkspaceIndexProofs ------------------------
(***************************************************************************)
(* The maps of a WorkspaceIndex say what the files assert, for every set   *)
(* of files, roots, keys and facts.  The argument is the same for each     *)
(* operation: it turns an index that is exact for the assertions A into    *)
(* one that is exact for the assertions after it.                          *)
(***************************************************************************)
EXTENDS IndexLookups, FiniteSetTheorems, SequenceTheorems, TLAPS

Edges == [rel: Relation, subj: Keys, obj: Keys]
StoredEdges == [file: Files, edge: Edges]

\* What the index i says, when file f asserts the edges A[f].
ExactSets(i, A) ==
    /\ i.entities = {p \in Keys \X Files : p[1] \in Ends(A[p[2]])}
    /\ i.edges = {s \in StoredEdges : s.edge \in Relationships(A[s.file])}

ExactAdjacency(i) ==
    /\ \A k \in Keys : Bucket(i.forward, k) = {s \in i.edges : s.edge.subj = k}
    /\ \A k \in Keys : Bucket(i.reverse, k) = {s \in i.edges : s.edge.obj = k}
    /\ \A k \in DOMAIN i.forward \union DOMAIN i.reverse : k \in Keys /\ Present(i, k)

ExactFiles(i, A) ==
    /\ \A f \in Files : Bucket(i.fileMap, f) = Ends(A[f])
    /\ \A f \in Files : Bucket(i.fileEdges, f) = {s \in i.edges : s.file = f}
    /\ DOMAIN i.fileMap \union DOMAIN i.fileEdges \subseteq Files

ExactNames(i) ==
    /\ DOMAIN i.names = {Name[k] : k \in {j \in Keys : Present(i, j)}}
    /\ \A n \in DOMAIN i.names : i.names[n] = {k \in Keys : Present(i, k) /\ Name[k] = n}

Exact(i, A) == ExactSets(i, A) /\ ExactAdjacency(i) /\ ExactFiles(i, A) /\ ExactNames(i)

Assertions == [Files -> SUBSET Edges]

-----------------------------------------------------------------------------
\* The ends of a set of edges are keys; only the empty set has none.
LEMMA EndsAreKeys ==
    ASSUME NEW E \in SUBSET Edges
    PROVE  Ends(E) \subseteq Keys /\ (Ends(E) = {} => E = {}) /\ Relationships(E) \subseteq E
BY DEF Ends, Edges, Relationships

\* What filing S under k does to the buckets of a map.
LEMMA FiledBucket ==
    ASSUME NEW m, NEW k, NEW S, NEW x
    PROVE  Bucket(Filed(m, k, S), x) = IF x = k THEN Bucket(m, k) \union S ELSE Bucket(m, x)
<1> DEFINE D == DOMAIN m \union (IF S = {} THEN {} ELSE {k})
<1>0. /\ DOMAIN Filed(m, k, S) = D
      /\ \A y \in D : Filed(m, k, S)[y] = IF y = k THEN Bucket(m, k) \union S ELSE m[y]
  BY DEF Filed
<1>1. CASE x = k /\ k \in D
  BY <1>0, <1>1 DEF Bucket
<1>2. CASE x = k /\ k \notin D
  BY <1>0, <1>2 DEF Bucket
<1>3. CASE x # k
  BY <1>0, <1>3 DEF Bucket
<1> QED BY <1>1, <1>2, <1>3

\* add_edges on a file that asserts nothing.
LEMMA AddedExact ==
    ASSUME NEW i, NEW A \in Assertions, Exact(i, A),
           NEW f \in Files, A[f] = {}, NEW E \in SUBSET Edges
    PROVE  Exact(AddEdges(i, f, E), [A EXCEPT ![f] = E])
<1> DEFINE j == AddEdges(i, f, E)
           B == [A EXCEPT ![f] = E]
           fresh == {[file |-> f, edge |-> e] : e \in Relationships(E)}
<1>a. /\ Ends(E) \subseteq Keys /\ Relationships(E) \subseteq Edges
      /\ Ends({}) = {} /\ Relationships({}) = {}
  BY EndsAreKeys DEF Ends, Relationships
<1>b. B \in Assertions /\ B[f] = E /\ \A g \in Files : g # f => B[g] = A[g]
  BY DEF Assertions
<1>c. Fresh(i, f, E) = fresh /\ fresh \subseteq StoredEdges
  <2>1. fresh \subseteq StoredEdges
    BY <1>a DEF StoredEdges
  <2>2. \A s \in fresh : s \notin i.edges
    <3>1. \A s \in i.edges : s.edge \in Relationships(A[s.file])
      BY DEF Exact, ExactSets
    <3>2. \A s \in fresh : s.file = f
      OBVIOUS
    <3> QED BY <3>1, <3>2, <1>a
  <2> QED BY <2>1, <2>2 DEF Fresh
<1>d. NewKeys(i, f, E) = Ends(E)
  BY <1>a DEF NewKeys, Exact, ExactSets
<1>e. j.entities = i.entities \union {<<k, f>> : k \in Ends(E)} /\ j.edges = i.edges \union fresh
  BY <1>c, <1>d DEF AddEdges
<1>1. ExactSets(j, B)
  <2>1. j.entities = {p \in Keys \X Files : p[1] \in Ends(B[p[2]])}
    <3>1. j.entities \subseteq Keys \X Files
      BY <1>a, <1>e DEF Exact, ExactSets
    <3>2. ASSUME NEW k \in Keys, NEW g \in Files
          PROVE  <<k, g>> \in j.entities <=> k \in Ends(B[g])
      <4>1. <<k, g>> \in i.entities <=> k \in Ends(A[g])
        BY DEF Exact, ExactSets
      <4> QED BY <4>1, <1>a, <1>b, <1>e
    <3> QED BY <3>1, <3>2
  <2>2. j.edges = {s \in StoredEdges : s.edge \in Relationships(B[s.file])}
    <3>1. \A s \in j.edges : s \in StoredEdges /\ s.edge \in Relationships(B[s.file])
      <4>1. \A s \in i.edges : s \in StoredEdges /\ s.edge \in Relationships(A[s.file])
        BY DEF Exact, ExactSets
      <4>2. \A s \in i.edges : s.file \in Files /\ s.file # f
        BY <4>1, <1>a DEF StoredEdges
      <4>3. \A s \in fresh : s \in StoredEdges /\ s.file = f /\ s.edge \in Relationships(E)
        BY <1>c
      <4> QED BY <4>1, <4>2, <4>3, <1>b, <1>e
    <3>2. ASSUME NEW s \in StoredEdges, s.edge \in Relationships(B[s.file])
          PROVE  s \in j.edges
      <4>1. s.file \in Files /\ s = [file |-> s.file, edge |-> s.edge]
        BY DEF StoredEdges
      <4> QED BY <3>2, <4>1, <1>b, <1>e DEF Exact, ExactSets
    <3> QED BY <3>1, <3>2
  <2> QED BY <2>1, <2>2 DEF ExactSets
<1>2. ExactAdjacency(j)
  <2>p. \A k \in Keys : Present(j, k) <=> Present(i, k) \/ k \in Ends(E)
    BY <1>e DEF Present
  <2>f. j.forward = [k \in DOMAIN i.forward \union {s.edge.subj : s \in fresh} |->
                        Bucket(i.forward, k) \union {s \in fresh : s.edge.subj = k}]
    BY <1>c DEF AddEdges
  <2>r. j.reverse = [k \in DOMAIN i.reverse \union {s.edge.obj : s \in fresh} |->
                        Bucket(i.reverse, k) \union {s \in fresh : s.edge.obj = k}]
    BY <1>c DEF AddEdges
  <2>e. \A s \in fresh : s.edge.subj \in Ends(E) /\ s.edge.obj \in Ends(E)
    BY <1>a DEF Ends, Relationships
  <2>1. \A k \in Keys : Bucket(j.forward, k) = {s \in j.edges : s.edge.subj = k}
    BY <1>e, <2>f DEF Bucket, Exact, ExactAdjacency
  <2>2. \A k \in Keys : Bucket(j.reverse, k) = {s \in j.edges : s.edge.obj = k}
    BY <1>e, <2>r DEF Bucket, Exact, ExactAdjacency
  <2>3. \A k \in DOMAIN j.forward \union DOMAIN j.reverse : k \in Keys /\ Present(j, k)
    BY <1>a, <2>p, <2>f, <2>r, <2>e DEF Exact, ExactAdjacency
  <2> QED BY <2>1, <2>2, <2>3 DEF ExactAdjacency
<1>3. ExactFiles(j, B)
  <2>m. j.fileMap = Filed(i.fileMap, f, Ends(E)) /\ j.fileEdges = Filed(i.fileEdges, f, fresh)
    BY <1>c, <1>d DEF AddEdges
  <2>0. Bucket(i.fileMap, f) = {} /\ Bucket(i.fileEdges, f) = {}
    BY <1>a DEF Exact, ExactSets, ExactFiles
  <2>1. ASSUME NEW g \in Files PROVE Bucket(j.fileMap, g) = Ends(B[g])
    <3>1. CASE g = f
      <4>1. Bucket(Filed(i.fileMap, f, Ends(E)), f) = Bucket(i.fileMap, f) \union Ends(E)
        BY FiledBucket
      <4> QED BY <3>1, <4>1, <1>b, <2>m, <2>0
    <3>2. CASE g # f
      <4>1. Bucket(j.fileMap, g) = Bucket(i.fileMap, g)
        BY <3>2, <2>m, FiledBucket
      <4> QED BY <3>2, <4>1, <1>b DEF Exact, ExactFiles
    <3> QED BY <3>1, <3>2
  <2>2. ASSUME NEW g \in Files PROVE Bucket(j.fileEdges, g) = {s \in j.edges : s.file = g}
    <3>1. CASE g = f
      <4>1. {s \in i.edges : s.file = f} = {} /\ \A s \in fresh : s.file = f
        BY <2>0 DEF Exact, ExactFiles
      <4>2. Bucket(j.fileEdges, f) = fresh
        BY <2>m, <2>0, FiledBucket
      <4> QED BY <3>1, <4>1, <4>2, <1>e
    <3>2. CASE g # f
      <4>1. Bucket(j.fileEdges, g) = Bucket(i.fileEdges, g)
        BY <3>2, <2>m, FiledBucket
      <4>2. \A s \in fresh : s.file # g
        BY <3>2
      <4> QED BY <4>1, <4>2, <1>e DEF Exact, ExactFiles
    <3> QED BY <3>1, <3>2
  <2>3. DOMAIN j.fileMap \union DOMAIN j.fileEdges \subseteq Files
    BY <2>m DEF Filed, Exact, ExactFiles
  <2> QED BY <2>1, <2>2, <2>3 DEF ExactFiles
<1>4. ExactNames(j)
  <2>p. \A k \in Keys : Present(j, k) <=> Present(i, k) \/ k \in Ends(E)
    BY <1>e DEF Present
  <2>n. j.names = [n \in DOMAIN i.names \union {Name[k] : k \in Ends(E)} |->
                      Bucket(i.names, n) \union {k \in Ends(E) : Name[k] = n}]
    BY DEF AddEdges
  <2>1. DOMAIN j.names = {Name[k] : k \in {l \in Keys : Present(j, l)}}
    BY <1>a, <2>p, <2>n DEF Exact, ExactNames
  <2>2. ASSUME NEW n \in DOMAIN j.names
        PROVE  j.names[n] = {k \in Keys : Present(j, k) /\ Name[k] = n}
    <3>1. Bucket(i.names, n) = {k \in Keys : Present(i, k) /\ Name[k] = n}
      BY DEF Bucket, Exact, ExactNames
    <3> QED BY <3>1, <1>a, <2>p, <2>n
  <2> QED BY <2>1, <2>2 DEF ExactNames
<1> QED BY <1>1, <1>2, <1>3, <1>4 DEF Exact

\* remove_file for the files F: they assert nothing any more.
LEMMA RemovedExact ==
    ASSUME NEW i, NEW A \in Assertions, Exact(i, A), NEW F \in SUBSET Files
    PROVE  Exact(RemoveFiles(i, F), [f \in Files |-> IF f \in F THEN {} ELSE A[f]])
<1> DEFINE j == RemoveFiles(i, F)
           B == [f \in Files |-> IF f \in F THEN {} ELSE A[f]]
<1>a. Ends({}) = {} /\ Relationships({}) = {} /\ \A f \in Files : Ends(A[f]) \subseteq Keys
  BY EndsAreKeys DEF Ends, Relationships, Assertions
<1>b. \A f \in F : f \in Files
  OBVIOUS
<1>c. RemovedEdges(i, F) = {s \in i.edges : s.file \in F}
  BY DEF RemovedEdges, Exact, ExactFiles
<1>d. \A k : k \in RemovedKeys(i, F) <=> \E f \in F : k \in Ends(A[f])
  BY DEF RemovedKeys, Exact, ExactFiles
<1>e. j.entities = {p \in i.entities : p[2] \notin F}
  <2>1. j.entities = KeptEntities(i, F)
    BY DEF RemoveFiles
  <2>2. ASSUME NEW k \in Keys, NEW f \in Files, <<k, f>> \in i.entities
        PROVE  <<k, f>> \in KeptEntities(i, F) <=> f \notin F
    <3>1. k \in Ends(A[f]) /\ Bucket(i.fileMap, f) = Ends(A[f])
      BY <2>2 DEF Exact, ExactSets, ExactFiles
    <3> QED BY <2>2, <3>1, <1>d DEF KeptEntities
  <2>3. i.entities \subseteq Keys \X Files
    BY DEF Exact, ExactSets
  <2> QED BY <2>1, <2>2, <2>3 DEF KeptEntities
<1>f. j.edges = {s \in i.edges : s.file \notin F}
  BY <1>c DEF RemoveFiles
<1>g. \A k \in Keys : Present(j, k) <=> \E f \in Files \ F : k \in Ends(A[f])
  <2>1. \A k \in Keys, f \in Files : <<k, f>> \in i.entities <=> k \in Ends(A[f])
    BY DEF Exact, ExactSets
  <2> QED BY <1>e, <2>1 DEF Present
<1>h. GoneKeys(i, F) = {k \in RemovedKeys(i, F) : ~Present(j, k)}
  BY DEF GoneKeys, Present, RemoveFiles
<1>s. i.edges \subseteq StoredEdges
  BY DEF Exact, ExactSets
<1>t. ASSUME NEW s \in j.edges
      PROVE  /\ s.edge.subj \in Keys /\ s.edge.obj \in Keys
             /\ Present(j, s.edge.subj) /\ Present(j, s.edge.obj)
  <2>1. s \in StoredEdges /\ s.file \in Files \ F /\ s.edge \in Relationships(A[s.file])
    BY <1>f DEF Exact, ExactSets, StoredEdges
  <2>2. s.edge \in A[s.file] /\ s.edge \in Edges
    BY <2>1 DEF Relationships, StoredEdges
  <2>3. s.edge.subj \in Ends(A[s.file]) /\ s.edge.obj \in Ends(A[s.file])
    BY <2>2 DEF Ends
  <2> QED BY <2>1, <2>2, <2>3, <1>g DEF Edges
<1>1. ExactSets(j, B)
  <2>1. j.entities = {p \in Keys \X Files : p[1] \in Ends(B[p[2]])}
    <3>1. \A k \in Keys, f \in Files : <<k, f>> \in j.entities <=> k \in Ends(B[f])
      BY <1>a, <1>e DEF Exact, ExactSets
    <3>2. j.entities \subseteq Keys \X Files
      BY <1>e DEF Exact, ExactSets
    <3> QED BY <3>1, <3>2
  <2>2. j.edges = {s \in StoredEdges : s.edge \in Relationships(B[s.file])}
    <3>1. \A s \in StoredEdges : s.file \in Files
      BY DEF StoredEdges
    <3> QED BY <1>a, <1>f, <3>1 DEF Exact, ExactSets
  <2> QED BY <2>1, <2>2 DEF ExactSets
<1>2. ExactAdjacency(j)
  <2>f. j.forward = [k \in DOMAIN i.forward \ GoneKeys(i, F) |->
                        i.forward[k] \ {s \in RemovedEdges(i, F) : s.edge.subj = k}]
    BY DEF RemoveFiles
  <2>r. j.reverse = [k \in DOMAIN i.reverse \ GoneKeys(i, F) |->
                        i.reverse[k] \ {s \in RemovedEdges(i, F) : s.edge.obj = k}]
    BY DEF RemoveFiles
  <2>1. ASSUME NEW k \in Keys PROVE Bucket(j.forward, k) = {s \in j.edges : s.edge.subj = k}
    <3>0. Bucket(i.forward, k) = {s \in i.edges : s.edge.subj = k}
      BY DEF Exact, ExactAdjacency
    <3>1. CASE k \in GoneKeys(i, F)
      <4>1. Bucket(j.forward, k) = {}
        BY <3>1, <2>f DEF Bucket
      <4>2. ~Present(j, k)
        BY <3>1, <1>h
      <4> QED BY <4>1, <4>2, <1>t
    <3>2. CASE k \notin GoneKeys(i, F)
      BY <3>2, <3>0, <2>f, <1>c, <1>f DEF Bucket
    <3> QED BY <3>1, <3>2
  <2>2. ASSUME NEW k \in Keys PROVE Bucket(j.reverse, k) = {s \in j.edges : s.edge.obj = k}
    <3>0. Bucket(i.reverse, k) = {s \in i.edges : s.edge.obj = k}
      BY DEF Exact, ExactAdjacency
    <3>1. CASE k \in GoneKeys(i, F)
      <4>1. Bucket(j.reverse, k) = {}
        BY <3>1, <2>r DEF Bucket
      <4>2. ~Present(j, k)
        BY <3>1, <1>h
      <4> QED BY <4>1, <4>2, <1>t
    <3>2. CASE k \notin GoneKeys(i, F)
      BY <3>2, <3>0, <2>r, <1>c, <1>f DEF Bucket
    <3> QED BY <3>1, <3>2
  <2>3. ASSUME NEW k \in DOMAIN j.forward \union DOMAIN j.reverse
        PROVE  k \in Keys /\ Present(j, k)
    <3>1. k \in DOMAIN i.forward \union DOMAIN i.reverse /\ k \notin GoneKeys(i, F)
      BY <2>f, <2>r
    <3>2. k \in Keys /\ Present(i, k)
      BY <3>1 DEF Exact, ExactAdjacency
    <3>3. PICK f \in Files : k \in Ends(A[f])
      BY <3>2 DEF Present, Exact, ExactSets
    <3> QED BY <3>1, <3>2, <3>3, <1>d, <1>g, <1>h
  <2> QED BY <2>1, <2>2, <2>3 DEF ExactAdjacency
<1>3. ExactFiles(j, B)
  <2>m. /\ j.fileMap = [f \in DOMAIN i.fileMap \ F |-> i.fileMap[f]]
        /\ j.fileEdges = [f \in DOMAIN i.fileEdges \ F |-> i.fileEdges[f]]
    BY DEF RemoveFiles
  <2>1. \A f \in Files : Bucket(j.fileMap, f) = Ends(B[f])
    BY <1>a, <2>m DEF Bucket, Exact, ExactFiles
  <2>2. \A f \in Files : Bucket(j.fileEdges, f) = {s \in j.edges : s.file = f}
    BY <1>f, <2>m DEF Bucket, Exact, ExactFiles
  <2>3. DOMAIN j.fileMap \union DOMAIN j.fileEdges \subseteq Files
    BY <2>m DEF Exact, ExactFiles
  <2> QED BY <2>1, <2>2, <2>3 DEF ExactFiles
<1>4. ExactNames(j)
  <2>n. j.names = [n \in KeptNames(i, F) |-> LeftNamed(i, F, n)]
    BY DEF RemoveFiles
  <2>p. \A k \in Keys : Present(j, k) <=> \E f \in Files : <<k, f>> \in KeptEntities(i, F)
    BY DEF Present, RemoveFiles
  <2>q. \A k \in Keys : /\ Present(j, k) => Present(i, k)
                        /\ Present(i, k) => Present(j, k) \/ k \in RemovedKeys(i, F)
    BY <1>d, <1>g DEF Present, Exact, ExactSets
  <2>1. ASSUME NEW n \in DOMAIN i.names
        PROVE  LeftNamed(i, F, n) = {k \in Keys : Present(j, k) /\ Name[k] = n}
    <3>1. i.names[n] = {k \in Keys : Present(i, k) /\ Name[k] = n}
      BY DEF Exact, ExactNames
    <3>2. CASE n \in {Name[k] : k \in RemovedKeys(i, F)}
      <4>1. LeftNamed(i, F, n) =
              {k \in i.names[n] : \E f \in Files : <<k, f>> \in KeptEntities(i, F)}
        BY <3>2 DEF LeftNamed
      <4> HIDE DEF j
      <4> QED BY <3>1, <4>1, <2>p, <2>q
    <3>3. CASE n \notin {Name[k] : k \in RemovedKeys(i, F)}
      <4>1. LeftNamed(i, F, n) = i.names[n]
        BY <3>3 DEF LeftNamed
      <4>2. \A k \in i.names[n] : k \notin RemovedKeys(i, F)
        BY <3>1, <3>3
      <4> HIDE DEF j
      <4> QED BY <3>1, <4>1, <4>2, <2>q
    <3> QED BY <3>2, <3>3
  <2>2. DOMAIN i.names = {Name[k] : k \in {l \in Keys : Present(i, l)}}
    BY DEF Exact, ExactNames
  <2>3. DOMAIN j.names = {Name[k] : k \in {l \in Keys : Present(j, l)}}
    <3>1. DOMAIN j.names = KeptNames(i, F)
      BY <2>n
    <3>2. ASSUME NEW n \in KeptNames(i, F)
          PROVE  \E k \in Keys : Present(j, k) /\ Name[k] = n
      <4>1. n \in DOMAIN i.names
        BY DEF KeptNames
      <4>2. PICK k \in Keys : Present(i, k) /\ Name[k] = n
        BY <4>1, <2>2
      <4>3. LeftNamed(i, F, n) # {} \/ k \notin RemovedKeys(i, F)
        BY <4>2 DEF KeptNames
      <4> QED BY <4>1, <4>2, <4>3, <2>1, <2>q
    <3>3. ASSUME NEW k \in Keys, Present(j, k) PROVE Name[k] \in KeptNames(i, F)
      <4>1. Name[k] \in DOMAIN i.names
        <5> HIDE DEF j
        <5> QED BY <3>3, <2>2, <2>q
      <4>2. k \in LeftNamed(i, F, Name[k])
        BY <3>3, <4>1, <2>1
      <4> QED BY <4>1, <4>2 DEF KeptNames
    <3> QED BY <3>1, <3>2, <3>3
  <2>4. \A n \in DOMAIN j.names : j.names[n] = {k \in Keys : Present(j, k) /\ Name[k] = n}
    BY <2>1, <2>n DEF KeptNames
  <2> QED BY <2>3, <2>4 DEF ExactNames
<1> QED BY <1>1, <1>2, <1>3, <1>4 DEF Exact

-----------------------------------------------------------------------------
\* The count after add_edges: the fresh occurrences are new and finitely many.
Counted(i) == IsFiniteSet(i.edges) /\ i.count = Cardinality(i.edges)

LEMMA AddedCounted ==
    ASSUME NEW i, Counted(i), NEW f, NEW E, IsFiniteSet(E)
    PROVE  Counted(AddEdges(i, f, E))
<1> DEFINE occurrences == {[file |-> f, edge |-> e] : e \in Relationships(E)}
           fresh == Fresh(i, f, E)
<1>1. IsFiniteSet(Relationships(E))
  BY FS_Subset DEF Relationships
<1>2. IsFiniteSet(occurrences)
  <2> DEFINE g == [e \in Relationships(E) |-> [file |-> f, edge |-> e]]
  <2>1. g \in Surjection(Relationships(E), occurrences)
    BY DEF Surjection
  <2> QED BY <1>1, <2>1, FS_Surjection
<1>3. IsFiniteSet(fresh) /\ i.edges \intersect fresh = {}
  BY <1>2, FS_Subset DEF Fresh
<1>4. /\ IsFiniteSet(i.edges \union fresh)
      /\ Cardinality(i.edges \union fresh) =
           Cardinality(i.edges) + Cardinality(fresh) - Cardinality(i.edges \intersect fresh)
  BY <1>3, FS_Union DEF Counted
<1>5. /\ Cardinality(i.edges \intersect fresh) = 0
      /\ Cardinality(i.edges) \in Nat /\ Cardinality(fresh) \in Nat
  BY <1>3, FS_EmptySet, FS_CardinalityType DEF Counted
<1>6. Cardinality(i.edges \union fresh) = Cardinality(i.edges) + Cardinality(fresh)
  <2> HIDE DEF fresh
  <2> QED BY <1>4, <1>5
<1>7. /\ AddEdges(i, f, E).edges = i.edges \union fresh
      /\ AddEdges(i, f, E).count = i.count + Cardinality(fresh)
  BY DEF AddEdges
<1> QED BY <1>4, <1>6, <1>7 DEF Counted

\* The count after remove_file: only edges of the set are counted off.
LEMMA RemovedCounted ==
    ASSUME NEW i, Counted(i), NEW F, RemovedEdges(i, F) \subseteq i.edges
    PROVE  Counted(RemoveFiles(i, F))
<1> DEFINE dropped == RemovedEdges(i, F)
<1>1. IsFiniteSet(dropped) /\ Cardinality(dropped) <= Cardinality(i.edges)
  BY FS_Subset DEF Counted
<1>2. /\ IsFiniteSet(i.edges \ dropped)
      /\ Cardinality(i.edges \ dropped) =
           Cardinality(i.edges) - Cardinality(i.edges \intersect dropped)
  BY FS_Difference DEF Counted
<1>3. i.edges \intersect dropped = dropped
  OBVIOUS
<1>4. Cardinality(i.edges) \in Nat /\ Cardinality(dropped) \in Nat
  BY <1>1, FS_CardinalityType DEF Counted
<1>5. KeptCount(i, F) = i.count - Cardinality(dropped)
  BY <1>1, <1>4 DEF KeptCount, Counted
<1>6. RemoveFiles(i, F).edges = i.edges \ dropped /\ RemoveFiles(i, F).count = KeptCount(i, F)
  BY DEF RemoveFiles
<1> QED BY <1>2, <1>3, <1>5, <1>6 DEF Counted

-----------------------------------------------------------------------------
\* Coverage c of the files, honest about the assertions A.
Honest(c, A) ==
    \A f \in DOMAIN c : f \in Files /\ A[f] = Facts[<<c[f].hash, c[f].fidelity>>]

\* The inductive invariant.
IndexInv ==
    /\ asserted \in Assertions
    /\ Exact(ix, asserted)
    /\ Counted(ix)
    /\ Honest(ix.coverage, asserted)

LEMMA IndexInit == Init => IndexInv
<1> SUFFICES ASSUME Init PROVE IndexInv
  OBVIOUS
<1>0. asserted = [f \in Files |-> {}] /\ ix = Empty /\ DOMAIN <<>> = {}
  BY DEF Init
<1>1. asserted \in Assertions
  BY <1>0 DEF Assertions
<1>e. Ends({}) = {} /\ Relationships({}) = {}
  BY DEF Ends, Relationships
<1>2. /\ ix.entities = {} /\ ix.edges = {} /\ ix.forward = <<>> /\ ix.reverse = <<>>
      /\ ix.fileMap = <<>> /\ ix.fileEdges = <<>> /\ ix.names = <<>>
      /\ ix.coverage = <<>> /\ ix.count = 0
  BY <1>0 DEF Empty
<1>3. ExactSets(ix, asserted)
  <2>1. \A s \in StoredEdges : s.file \in Files
    BY DEF StoredEdges
  <2> QED BY <1>0, <1>2, <1>e, <2>1 DEF ExactSets
<1>4. ExactAdjacency(ix) /\ ExactNames(ix)
  BY <1>0, <1>2 DEF ExactAdjacency, ExactNames, Bucket, Present
<1>5. ExactFiles(ix, asserted)
  BY <1>0, <1>2, <1>e DEF ExactFiles, Bucket
<1>6. Counted(ix)
  BY <1>2, FS_EmptySet DEF Counted
<1>7. Honest(ix.coverage, asserted)
  BY <1>0, <1>2 DEF Honest
<1> QED BY <1>1, <1>3, <1>4, <1>5, <1>6, <1>7 DEF IndexInv, Exact

\* Removing the files F from a good index gives a good index.
LEMMA RemovedInv ==
    ASSUME IndexInv, NEW F \in SUBSET Files
    PROVE  LET j == RemoveFiles(ix, F)
               B == [f \in Files |-> IF f \in F THEN {} ELSE asserted[f]]
           IN  /\ B \in Assertions /\ Exact(j, B) /\ Counted(j) /\ Honest(j.coverage, B)
               /\ DOMAIN j.coverage \intersect F = {}
<1> DEFINE j == RemoveFiles(ix, F)
           B == [f \in Files |-> IF f \in F THEN {} ELSE asserted[f]]
<1>1. B \in Assertions
  BY DEF IndexInv, Assertions
<1>2. Exact(j, B)
  BY RemovedExact DEF IndexInv
<1>3. Counted(j)
  <2>1. RemovedEdges(ix, F) \subseteq ix.edges
    BY DEF RemovedEdges, IndexInv, Exact, ExactFiles
  <2> QED BY <2>1, RemovedCounted DEF IndexInv
<1>4. j.coverage = [f \in DOMAIN ix.coverage \ F |-> ix.coverage[f]]
  BY DEF RemoveFiles, KeptCoverage
<1>5. Honest(j.coverage, B)
  BY <1>4 DEF Honest, IndexInv
<1> QED BY <1>1, <1>2, <1>3, <1>4, <1>5

LEMMA ProjectStep ==
    ASSUME IndexInv, NEW f \in Files, NEW s \in Sources, NEW q \in Fidelities, Project(f, s, q)
    PROVE  IndexInv'
<1> DEFINE E == Facts[<<s, q>>]
           j == RemoveFiles(ix, {f})
           B == [g \in Files |-> IF g \in {f} THEN {} ELSE asserted[g]]
           k == AddEdges(j, f, E)
           C == [B EXCEPT ![f] = E]
<1>1. E \in SUBSET Edges /\ IsFiniteSet(E)
  BY FactsAssumption DEF Edges
<1>2. /\ B \in Assertions /\ Exact(j, B) /\ Counted(j) /\ Honest(j.coverage, B)
      /\ DOMAIN j.coverage \intersect {f} = {}
  BY RemovedInv
<1>3. Exact(k, C)
  BY <1>1, <1>2, AddedExact
<1>4. Counted(k)
  BY <1>1, <1>2, AddedCounted
<1>5. asserted' = C /\ C \in Assertions
  BY <1>1, <1>2 DEF Project, IndexInv, Assertions
<1>6. k.coverage = j.coverage
  BY DEF AddEdges
<1>7. Honest(k.coverage, C)
  BY <1>2, <1>6 DEF Honest
<1>8. CASE q = Edit
  BY <1>3, <1>4, <1>5, <1>7, <1>8 DEF Project, Projected, IndexInv
<1>9. CASE q # Edit
  <2> DEFINE c == [g \in DOMAIN k.coverage \union {f} |->
                     IF g = f THEN [fidelity |-> q, hash |-> s] ELSE k.coverage[g]]
  <2>1. ix' = [k EXCEPT !.coverage = c]
    BY <1>9 DEF Project, Projected
  <2>2. /\ ix'.entities = k.entities /\ ix'.edges = k.edges /\ ix'.count = k.count
        /\ ix'.forward = k.forward /\ ix'.reverse = k.reverse /\ ix'.names = k.names
        /\ ix'.fileMap = k.fileMap /\ ix'.fileEdges = k.fileEdges /\ ix'.coverage = c
    BY <2>1 DEF AddEdges
  <2> HIDE DEF k, C, c
  <2>3. Exact(ix', C) /\ Counted(ix')
    <3>1. \A x : Present(ix', x) <=> Present(k, x)
      BY <2>2 DEF Present
    <3>2. ExactSets(ix', C) /\ ExactFiles(ix', C)
      BY <1>3, <2>2 DEF Exact, ExactSets, ExactFiles
    <3>3. ExactAdjacency(ix')
      BY <1>3, <2>2, <3>1 DEF Exact, ExactAdjacency
    <3>4. ExactNames(ix')
      BY <1>3, <2>2, <3>1 DEF Exact, ExactNames
    <3>5. Counted(ix')
      BY <1>4, <2>2 DEF Counted
    <3> QED BY <3>2, <3>3, <3>4, <3>5 DEF Exact
  <2>4. Honest(c, C)
    BY <1>2, <1>5, <1>7 DEF Honest, c, C
  <2> QED BY <2>2, <2>3, <2>4, <1>5 DEF IndexInv
<1> QED BY <1>8, <1>9

LEMMA RemoveFileStep ==
    ASSUME IndexInv, NEW f \in Files, RemoveFile(f)
    PROVE  IndexInv'
<1> DEFINE B == [g \in Files |-> IF g \in {f} THEN {} ELSE asserted[g]]
<1>1. asserted' = B /\ ix' = RemoveFiles(ix, {f})
  BY DEF RemoveFile, IndexInv, Assertions
<1> QED BY <1>1, RemovedInv DEF IndexInv

\* A file below the root that owns nothing in the index asserts nothing.
LEMMA RemoveFilesInRootStep ==
    ASSUME IndexInv, NEW r \in Roots, RemoveFilesInRoot(r)
    PROVE  IndexInv'
<1> DEFINE F == Owners(ix, r)
           B == [f \in Files |-> IF f \in F THEN {} ELSE asserted[f]]
<1>1. F \in SUBSET Files
  BY DEF Owners, IndexInv, Exact, ExactFiles, Honest
<1>2. ASSUME NEW f \in Files, f \notin F, IsWithinRoot(f, r) PROVE asserted[f] = {}
  <2>1. f \notin DOMAIN ix.fileMap
    BY <1>2 DEF Owners
  <2>2. Ends(asserted[f]) = {}
    BY <2>1 DEF Bucket, IndexInv, Exact, ExactFiles
  <2>3. asserted[f] \in SUBSET Edges
    BY DEF IndexInv, Assertions
  <2> QED BY <2>2, <2>3, EndsAreKeys
<1>3. \A f \in F : IsWithinRoot(f, r)
  BY DEF Owners
<1>4. ix' = RemoveFiles(ix, F) /\ asserted' = B
  <2>1. asserted' = [f \in Files |-> IF IsWithinRoot(f, r) THEN {} ELSE asserted[f]]
    BY DEF RemoveFilesInRoot
  <2>2. \A f \in Files : (IF IsWithinRoot(f, r) THEN {} ELSE asserted[f]) = B[f]
    BY <1>2, <1>3
  <2> QED BY <2>1, <2>2 DEF RemoveFilesInRoot
<1> HIDE DEF F
<1> QED BY <1>1, <1>4, RemovedInv DEF IndexInv

LEMMA IndexNext == IndexInv /\ [Next]_vars => IndexInv'
<1> SUFFICES ASSUME IndexInv, [Next]_vars PROVE IndexInv'
  OBVIOUS
<1>1. CASE Next
  BY <1>1, ProjectStep, RemoveFileStep, RemoveFilesInRootStep DEF Next
<1>2. CASE UNCHANGED vars
  <2>1. ix' = ix /\ asserted' = asserted
    BY <1>2 DEF vars
  <2> QED BY <2>1 DEF IndexInv
<1> QED BY <1>1, <1>2

\* The index is good in every reachable state.
THEOREM IndexInvariant == Spec => []IndexInv
BY IndexInit, IndexNext, PTL DEF Spec

LEMMA ExactIsIndexExact == IndexInv => IndexExact
<1> SUFFICES ASSUME IndexInv PROVE IndexExact
  OBVIOUS
<1>1. ix.edges = AssertedEdges
  <2> DEFINE U == UNION {asserted[f] : f \in Files}
  <2>1. U \subseteq Edges
    BY DEF IndexInv, Assertions
  <2>2. ASSUME NEW s \in StoredEdges, s.edge \in Relationships(asserted[s.file])
        PROVE  s \in [file: Files, edge: U]
    <3>1. s.file \in Files /\ s = [file |-> s.file, edge |-> s.edge]
      BY DEF StoredEdges
    <3>2. s.edge \in asserted[s.file]
      BY <2>2 DEF Relationships
    <3> QED BY <3>1, <3>2
  <2>3. [file: Files, edge: U] \subseteq StoredEdges
    BY <2>1 DEF StoredEdges
  <2>4. ix.edges = {s \in StoredEdges : s.edge \in Relationships(asserted[s.file])}
    BY DEF IndexInv, Exact, ExactSets
  <2> HIDE DEF U
  <2>5. AssertedEdges = {s \in [file: Files, edge: U] : s.edge \in Relationships(asserted[s.file])}
    BY DEF AssertedEdges, U
  <2> QED BY <2>2, <2>3, <2>4, <2>5
<1> QED BY <1>1 DEF IndexInv, Exact, ExactSets, ExactAdjacency, ExactFiles, ExactNames,
                    IndexExact, EntitiesExact, EdgesExact, AdjacencyExact, FilesExact, NamesExact

\* For every set of files and roots and every extraction: after any sequence of
\* recompilations, deletions and refreshes each of the redundant maps holds
\* exactly what the files assert now (edges.rs, remove.rs).
THEOREM IndexStaysExact == Spec => []IndexExact
BY IndexInvariant, ExactIsIndexExact, PTL

\* edge_count is the number of stored edges in every reachable state, so its
\* saturating subtraction never saturates (edges.rs, remove.rs).
THEOREM CountStaysExact == Spec => []CountExact
<1>1. IndexInv => CountExact
  BY DEF IndexInv, Counted, CountExact
<1> QED BY <1>1, IndexInvariant, PTL

\* A file reported as covered asserts exactly the facts of the source and the
\* fidelity it is reported at (coverage.rs).
THEOREM CoverageStaysHonest == Spec => []CoverageHonest
<1>1. IndexInv => CoverageHonest
  BY DEF IndexInv, Honest, CoverageHonest
<1> QED BY <1>1, IndexInvariant, PTL

-----------------------------------------------------------------------------
(* What the lookups answer from an exact index *)

\* The containment of path_identity.rs is the prefix order of the components.
LEMMA WithinIsPrefix ==
    ASSUME NEW f \in Files, NEW r \in Files \union Roots
    PROVE  IsWithinRoot(f, r) <=> IsPrefix(r, f)
<1>1. f \in Seq(Component) /\ r \in Seq(Component)
  BY PathsAssumption
<1>2. SubSeq(r, 1, Len(r)) = r
  BY <1>1, SubSeqFull
<1> QED BY <1>1, <1>2 DEF IsWithinRoot, IsPrefix

\* What a scope is made of.
LEMMA ScopeParts ==
    ASSUME NEW scope \in Scopes, scope # None
    PROVE  /\ scope.roots \in SUBSET Roots /\ scope.roots # {}
           /\ scope.within # None => /\ scope.within \in Files \union Roots
                                     /\ scope.exact <=> scope.within \in Files
<1>1. PICK rs \in (SUBSET Roots) \ {{}}, w \in Withins : scope \in ScopeFor(rs, w)
  BY DEF Scopes
<1>2. scope.roots = rs /\ scope.within = w /\ (w # None => scope.exact = (w \in Files))
  BY <1>1 DEF ScopeFor
<1> QED BY <1>1, <1>2 DEF Withins

\* A scope admits exactly the files of its roots below its narrowing.
LEMMA AdmitsIsInScope ==
    ASSUME NEW scope \in Scopes, NEW f \in Files
    PROVE  Admits(scope, f) <=> f \in InScope(scope)
<1>1. CASE scope = None
  BY <1>1 DEF Admits, InScope
<1>2. CASE scope # None
  <2>1. \A r \in Roots \union Files : IsWithinRoot(f, r) <=> IsPrefix(r, f)
    BY WithinIsPrefix
  <2>2. ASSUME scope.within # None
        PROVE  IsPrefix(scope.within, f) <=>
                  \/ scope.exact /\ f = scope.within
                  \/ ~scope.exact /\ IsWithinRoot(f, scope.within)
    <3>1. CASE scope.within \in Files
      <4>1. IsPrefix(f, f)
        BY DEF IsPrefix
      <4> QED BY <1>2, <2>2, <3>1, <4>1, ScopeParts, PathsAssumption
    <3>2. CASE scope.within \notin Files
      BY <1>2, <2>1, <2>2, <3>2, ScopeParts
    <3> QED BY <3>1, <3>2
  <2>3. (\E r \in scope.roots : IsWithinRoot(f, r)) <=> (\E r \in scope.roots : IsPrefix(r, f))
    BY <1>2, <2>1, ScopeParts
  <2> QED BY <1>2, <2>2, <2>3, ScopeParts DEF Admits, InScope
<1> QED BY <1>1, <1>2

\* The stored edges of admitted files are the facts in scope.
LEMMA FactsAreEdges ==
    ASSUME IndexInv, NEW scope \in Scopes
    PROVE  FactsIn(scope) = {s \in ix.edges : Admits(scope, s.file)}
<1>1. asserted \in Assertions /\ InScope(scope) \subseteq Files
  BY DEF IndexInv, InScope
<1>2. ix.edges = {s \in StoredEdges : s.edge \in Relationships(asserted[s.file])}
  BY DEF IndexInv, Exact, ExactSets
<1>3. ASSUME NEW s \in FactsIn(scope)
      PROVE  s \in ix.edges /\ Admits(scope, s.file)
  <2>1. PICK f \in InScope(scope) : \E e \in Relationships(asserted[f]) : s = [file |-> f, edge |-> e]
    BY DEF FactsIn
  <2>2. PICK e \in Relationships(asserted[f]) : s = [file |-> f, edge |-> e]
    BY <2>1
  <2>3. e \in Edges
    BY <1>1, <2>2 DEF Relationships, Assertions
  <2>4. f \in Files
    BY <1>1
  <2> QED BY <1>2, <2>2, <2>3, <2>4, AdmitsIsInScope DEF StoredEdges
<1>4. ASSUME NEW s \in ix.edges, Admits(scope, s.file)
      PROVE  s \in FactsIn(scope)
  <2>1. s.file \in Files /\ s = [file |-> s.file, edge |-> s.edge]
    BY <1>2 DEF StoredEdges
  <2>2. s.file \in InScope(scope) /\ s.edge \in Relationships(asserted[s.file])
    BY <1>2, <1>4, <2>1, AdmitsIsInScope
  <2> QED BY <2>1, <2>2 DEF FactsIn
<1> QED BY <1>3, <1>4

\* The entities of admitted files are the occurrences in scope.
LEMMA OccurrencesAreEntities ==
    ASSUME IndexInv, NEW scope \in Scopes
    PROVE  OccursIn(scope) = {p \in ix.entities : Admits(scope, p[2])}
<1>1. ix.entities = {p \in Keys \X Files : p[1] \in Ends(asserted[p[2]])}
  BY DEF IndexInv, Exact, ExactSets
<1>2. \A p \in Keys \X Files : Admits(scope, p[2]) <=> p[2] \in InScope(scope)
  BY AdmitsIsInScope
<1> QED BY <1>1, <1>2 DEF OccursIn

\* The bucket of a key's name holds the present keys of that name.
LEMMA NameBucket ==
    ASSUME IndexInv, NEW k \in Keys
    PROVE  Bucket(ix.names, Name[k]) = {j \in Keys : Present(ix, j) /\ Name[j] = Name[k]}
BY DEF IndexInv, Exact, ExactNames, Bucket

\* An entity of the index is a present key.
LEMMA EntitiesPresent ==
    ASSUME IndexInv, NEW p \in ix.entities
    PROVE  p[1] \in Keys /\ p[2] \in Files /\ p = <<p[1], p[2]>> /\ Present(ix, p[1])
<1>1. p \in Keys \X Files
  BY DEF IndexInv, Exact, ExactSets
<1>2. p = <<p[1], p[2]>> /\ p[1] \in Keys /\ p[2] \in Files
  BY <1>1
<1> QED BY <1>2 DEF Present

LEMMA NoScope == None \in Scopes /\ \A f : Admits(None, f)
BY DEF Scopes, Admits

\* The ends of an edge a file asserts occur in that file.
LEMMA EdgeEndsPresent ==
    ASSUME IndexInv, NEW s \in ix.edges
    PROVE  /\ s.edge.subj \in Keys /\ Present(ix, s.edge.subj)
           /\ s.edge.obj \in Keys /\ Present(ix, s.edge.obj)
<1>1. s \in StoredEdges /\ s.edge \in asserted[s.file]
  BY DEF IndexInv, Exact, ExactSets, Relationships
<1>2. s.file \in Files /\ s.edge.subj \in Keys /\ s.edge.obj \in Keys
  BY <1>1 DEF StoredEdges, Edges
<1>3. s.edge.subj \in Ends(asserted[s.file]) /\ s.edge.obj \in Ends(asserted[s.file])
  BY <1>1 DEF Ends
<1>4. \A k \in Keys : k \in Ends(asserted[s.file]) => <<k, s.file>> \in ix.entities
  BY <1>2 DEF IndexInv, Exact, ExactSets
<1> QED BY <1>2, <1>3, <1>4 DEF Present

LEMMA ExactAnswers == IndexInv => AnswersCurrent
<1> SUFFICES ASSUME IndexInv PROVE AnswersCurrent
  OBVIOUS
<1>1. ASSUME NEW scope \in Scopes, NEW k \in Keys
      PROVE  /\ FindEntitiesByName(ix, Name[k], scope) =
                   {p \in OccursIn(scope) : Name[p[1]] = Name[k]}
             /\ ForwardEdges(ix, k, scope) = {s \in FactsIn(scope) : s.edge.subj = k}
             /\ ReverseEdges(ix, k, scope) = {s \in FactsIn(scope) : s.edge.obj = k}
  <2>1. FindEntitiesByName(ix, Name[k], scope) = {p \in OccursIn(scope) : Name[p[1]] = Name[k]}
    BY OccurrencesAreEntities, NameBucket, EntitiesPresent DEF FindEntitiesByName
  <2>2. ForwardEdges(ix, k, scope) = {s \in FactsIn(scope) : s.edge.subj = k}
    BY FactsAreEdges DEF ForwardEdges, IndexInv, Exact, ExactAdjacency
  <2>3. ReverseEdges(ix, k, scope) = {s \in FactsIn(scope) : s.edge.obj = k}
    BY FactsAreEdges DEF ReverseEdges, IndexInv, Exact, ExactAdjacency
  <2> QED BY <2>1, <2>2, <2>3
<1>2. ASSUME NEW f \in Files
      PROVE  EntitiesInFile(ix, f) = {<<k, f>> : k \in Ends(asserted[f])}
  <2>1. Bucket(ix.fileMap, f) = Ends(asserted[f])
    BY DEF IndexInv, Exact, ExactFiles
  <2>2. Ends(asserted[f]) \subseteq Keys
    BY EndsAreKeys DEF IndexInv, Assertions
  <2>3. \A k \in Ends(asserted[f]) : <<k, f>> \in ix.entities
    BY <2>2 DEF IndexInv, Exact, ExactSets
  <2>4. \A p \in ix.entities : p = <<p[1], p[2]>>
    BY EntitiesPresent
  <2> QED BY <2>1, <2>3, <2>4 DEF EntitiesInFile
<1>3. ASSUME NEW k \in Keys
      PROVE  /\ ResolveSelector(ix, Name[k]) =
                   {p \in OccursIn(None) : \E s \in FactsIn(None) :
                       s.edge.rel = "HasSelector" /\ s.edge.subj = p[1] /\ Name[s.edge.obj] = Name[k]}
             /\ ResolveInjectType(ix, Name[k]) =
                   {p \in OccursIn(None) : Name[p[1]] = Name[k] /\ \E s \in FactsIn(None) :
                       s.edge.rel \in {"Injects", "Autowired"} /\ s.edge.obj = p[1]}
  <2>1. OccursIn(None) = ix.entities /\ FactsIn(None) = ix.edges
    BY NoScope, OccurrencesAreEntities, FactsAreEdges
  <2>2. \A m \in Keys : Bucket(ix.reverse, m) = {s \in ix.edges : s.edge.obj = m}
    BY DEF IndexInv, Exact, ExactAdjacency
  <2>3. ASSUME NEW p \in ix.entities
        PROVE  (\E m \in Bucket(ix.names, Name[k]) : \E s \in Bucket(ix.reverse, m) :
                   s.edge.rel = "HasSelector" /\ s.edge.subj = p[1]) <=>
               (\E s \in ix.edges :
                   s.edge.rel = "HasSelector" /\ s.edge.subj = p[1] /\ Name[s.edge.obj] = Name[k])
    BY <2>2, NameBucket, EdgeEndsPresent
  <2>4. ASSUME NEW p \in ix.entities
        PROVE  /\ p[1] \in Bucket(ix.names, Name[k]) <=> Name[p[1]] = Name[k]
               /\ Bucket(ix.reverse, p[1]) = {s \in ix.edges : s.edge.obj = p[1]}
    BY <2>2, NameBucket, EntitiesPresent
  <2>5. ResolveSelector(ix, Name[k]) =
           {p \in OccursIn(None) : \E s \in FactsIn(None) :
               s.edge.rel = "HasSelector" /\ s.edge.subj = p[1] /\ Name[s.edge.obj] = Name[k]}
    BY <2>1, <2>3 DEF ResolveSelector
  <2>6. ResolveInjectType(ix, Name[k]) =
           {p \in OccursIn(None) : Name[p[1]] = Name[k] /\ \E s \in FactsIn(None) :
               s.edge.rel \in {"Injects", "Autowired"} /\ s.edge.obj = p[1]}
    BY <2>1, <2>4 DEF ResolveInjectType
  <2> QED BY <2>5, <2>6
<1> QED BY <1>1, <1>2, <1>3 DEF AnswersCurrent, ScopedCurrent, FilesCurrent, ResolvedCurrent

\* For every set of paths in which no file lies below another: after any
\* sequence of recompilations, deletions and refreshes every lookup answers with
\* what the files its scope admits assert now, and with nothing of another
\* workspace (index.rs, scope.rs).
THEOREM AnswersStayCurrent == Spec => []AnswersCurrent
BY IndexInvariant, ExactAnswers, PTL

=============================================================================
