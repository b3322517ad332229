-------------------------- MODULE HydrationProofs --------------------------
(***************************************************************************)
(* Proofs about Hydration for every set of workers, files and contents and *)
(* every kind of session.                                                  *)
(*                                                                         *)
(* Three invariants build on each other.  TInv, for all sessions: types,   *)
(* where each handler is, who holds which clock.  SourceInv, for orderly   *)
(* sessions: what was read under a stamp is what the file holds while it   *)
(* has that stamp, and the index follows the files.  HydrationInv, for     *)
(* orderly sessions: whatever a query no longer looks at is hydrated, so   *)
(* that a recorded completion may be believed.                             *)
(***************************************************************************)
EXTENDS Hydration, TLAPS

-----------------------------------------------------------------------------
(* Types, control and the publication clocks *)

\* Steps inside read_source, and the steps it returns to.
ReadAt == {"stat", "read", "insert"}
ReadFor == {"scanned", "hashed", "compiled", "checked", "inspected", "inspectPublish", "recovered"}

\* Steps of apply_edit, of a refresh, and of a query after its discovery.
EditAt == {"edit", "editRead", "editCommit", "editRename", "editCache", "editPublish",
           "editRestored", "editDiscovery"}
RefreshAt == {"refreshCache", "refreshIndex", "refreshDiscovery"}
RecoverAt == {"preflight", "recovered"}
QueryOwn == {"scan", "scanned", "select", "compile", "hashed", "compiled", "commit", "checked"}
QueryAt == QueryOwn \union RecoverAt
Steps == ReadAt \union ReadFor \union EditAt \union RefreshAt \union QueryAt
         \union {"idle", "discover", "reindex"}

\* The step of its handler a worker is at, read_source being part of its caller.
Where(w) == IF pc[w] \in ReadAt THEN ret[w] ELSE pc[w]

\* What a file may hold.
Bytes == Contents \union {Absent}

\* Types of what the workers share.
SharedType ==
    /\ mix \in Mixes
    /\ disk \in [Files -> [src: Bytes, stamp: Nat]]
    /\ cache \in [Files -> [src: Contents, stamp: Nat] \union {None}]
    /\ index \in [Files -> [src: Contents, covered: BOOLEAN] \union {None}]
    /\ graph \in [Files -> Bytes] /\ dirty \in BOOLEAN
    /\ nextGen \in [Files -> Nat] /\ committed \in [Files -> Nat]
    /\ clock \in [Files -> Workers \union {None}]
    /\ intent \in [Files -> [prior: Contents, target: Contents] \union {None}]
    /\ unseen \in SUBSET Files /\ ungraphed \in SUBSET Files /\ torn \in SUBSET Files

\* A recorded completion is of a tracked scope and of no later generation.
DiscoveryType ==
    /\ gens \in [Scopes -> Nat \union {None}]
    /\ done \in [Scopes \X Requirements -> Nat \union {None}]
    /\ \A s \in Scopes, r \in Requirements :
          done[<<s, r>>] # None => gens[s] # None /\ done[<<s, r>>] <= gens[s]

\* Types of the locals of the handlers.
LocalsType ==
    /\ pc \in [Workers -> Steps] /\ ret \in [Workers -> ReadFor \union {"idle"}]
    /\ op \in [Workers -> Handlers]
    /\ req \in [Workers -> Requirements]
    /\ file \in [Workers -> Files \union {None}]
    /\ todo \in [Workers -> SUBSET Files] /\ found \in [Workers -> SUBSET Files]
    /\ marks \in [Workers -> SUBSET Scopes] /\ failed \in [Workers -> BOOLEAN]
    /\ stamp \in [Workers -> Nat] /\ gen \in [Workers -> Nat]
    /\ got \in [Workers -> Bytes] /\ built \in [Workers -> Bytes]

\* A handler at a step is of a kind that has this step, and has written what
\* the step reads; only a query past its discovery has something to record.
ControlInv ==
    \A w \in Workers :
        /\ pc[w] \in ReadAt => ret[w] \in ReadFor
        /\ pc[w] # "idle" => op[w] \in mix.handlers
        /\ pc[w] \in ReadAt \union ReadFor \union EditAt \union {"commit", "preflight"} => file[w] \in Files
        /\ Where(w) \in {"inspected", "inspectPublish"} => op[w] = "inspect"
        /\ Where(w) \in QueryOwn \union {"discover"} => op[w] = "query"
        /\ Where(w) \in RecoverAt => op[w] \in {"query", "inspect"}
        /\ pc[w] \in RefreshAt \union {"reindex"} => op[w] \in {"refresh", "reindex"}
        /\ Where(w) \in RecoverAt \union {"editRestored"} => mix.store
        /\ pc[w] \in ReadFor \union {"insert"} => got[w] \in Contents
        /\ pc[w] \in {"editCommit"} \union InCommit => got[w] \in Contents
        /\ Where(w) \in {"commit", "checked", "recovered", "editCommit", "editRename", "editCache", "editPublish"}
              => built[w] \in Contents
        /\ marks[w] # {} => op[w] = "query" /\ Where(w) \in QueryAt

\* In a serial session one request runs at a time.
SerialInv ==
    mix.serial => \A v, w \in Workers : pc[v] # "idle" /\ pc[w] # "idle" => v = w

\* The steps a publication clock protects.
Holds(w) == Where(w) = "checked" \/ pc[w] \in InCommit

\* A clock is held by exactly the worker that is at such a step for its file.
ClockInv ==
    \A w \in Workers :
        /\ Holds(w) => clock[file[w]] = w
        /\ \A f \in Files : clock[f] = w => file[w] = f /\ Holds(w)

\* The steps at which a ticket is drawn and not used up.
QueryTicket == {"hashed", "compiled", "commit", "checked"}
EditTicket == {"editRead", "editCommit", "editRename", "editCache", "editPublish"}

\* Tickets count what was handed out, and only those are committed.
TicketInv ==
    /\ \A f \in Files : committed[f] <= nextGen[f]
    /\ \A w \in Workers :
          \/ Where(w) \in QueryTicket \union EditTicket
          \/ Where(w) \in RecoverAt /\ op[w] = "query"
          => gen[w] <= nextGen[file[w]]

\* The first invariant.
TInv == SharedType /\ DiscoveryType /\ LocalsType /\ ControlInv /\ SerialInv /\ ClockInv /\ TicketInv

USE HydrationAssumption
USE DEF Goto, Forget, Release, Call, world, shared, clocks, budget, locals
USE DEF SharedType, DiscoveryType, LocalsType, ControlInv, SerialInv, ClockInv,
     TicketInv, Where, Holds, Steps, ReadAt, ReadFor, EditAt, RefreshAt, RecoverAt, QueryOwn,
     QueryAt, InCommit, QueryTicket, EditTicket, Bytes

\* It holds when the server starts.
LEMMA InitTInv == Init => TInv
<1> SUFFICES ASSUME Init PROVE TInv
  OBVIOUS
<1>1. SharedType
  <2>1. disk \in [Files -> [src: Contents, stamp: {0}]] /\ graph = [f \in Files |-> disk[f].src]
    BY DEF Init
  <2>2. disk \in [Files -> [src: Bytes, stamp: Nat]] /\ graph \in [Files -> Bytes]
    BY <2>1
  <2> QED BY <2>2 DEF Init
<1>2. DiscoveryType
  <2>1. \A s \in Scopes, r \in Requirements : <<s, r>> \in Scopes \X Requirements
    OBVIOUS
  <2> QED BY <2>1 DEF Init
<1>3. LocalsType
  BY DEF Init, Everyone, Handlers, Requirements
<1>4. ControlInv
  BY DEF Init, Everyone
<1> QED BY <1>1, <1>2, <1>3, <1>4 DEF TInv, Init, Everyone

\* What a handler that ends leaves of the control state.
Control ==
    /\ clock \in [Files -> Workers \union {None}]
    /\ LocalsType /\ ControlInv /\ SerialInv /\ ClockInv /\ TicketInv

\* A handler that ends releases its clock and nothing else.
LEMMA ReturnControl ==
    ASSUME TInv, NEW w \in Workers, Return(w), UNCHANGED <<mix, nextGen, committed>>
    PROVE  Control'
<1>1. clock' \in [Files -> Workers \union {None}]
  BY DEF TInv, Return
<1>2. LocalsType'
  BY DEF TInv, Return, Requirements
<1>3. ControlInv'
  BY DEF TInv, Return
<1>4. SerialInv'
  BY DEF TInv, Return
<1>5. ClockInv'
  <2>1. ASSUME NEW v \in Workers, v # w, Holds(v)' PROVE clock'[file'[v]] = v
    <3>1. Holds(v) /\ file'[v] = file[v] /\ file[v] \in Files
      BY <2>1 DEF TInv, Return
    <3> QED BY <2>1, <3>1 DEF TInv, Return
  <2>2. ~ Holds(w)'
    BY DEF TInv, Return
  <2>3. ASSUME NEW f \in Files, NEW v \in Workers, clock'[f] = v PROVE file'[v] = f /\ Holds(v)'
    <3>1. v # w /\ clock[f] = v
      BY <2>3 DEF TInv, Return
    <3> QED BY <3>1 DEF TInv, Return
  <2> QED BY <2>1, <2>2, <2>3
<1>6. TicketInv'
  BY DEF TInv, Return
<1> QED BY <1>1, <1>2, <1>3, <1>4, <1>5, <1>6 DEF Control

\* After a recovery the file is compiled.
LEMMA CompilationControl ==
    ASSUME TInv, NEW w \in Workers, Where(w) \in RecoverAt, Call(w, file[w], Compilation(w)),
           UNCHANGED <<mix, nextGen, committed, clock, op, req, todo, found, marks, failed, stamp, got, gen>>,
           built' \in [Workers -> Bytes], \A v \in Workers \ {w} : built'[v] = built[v]
    PROVE  Control'
<1> DEFINE to == Compilation(w)
<1>1. /\ to \in {"compiled", "inspectPublish"} /\ (to = "compiled" => op[w] = "query")
      /\ (to = "inspectPublish" => op[w] = "inspect") /\ file[w] \in Files /\ pc[w] # "idle"
  BY DEF TInv, Compilation
<1>2. pc' = [pc EXCEPT ![w] = "stat"] /\ file' = [file EXCEPT ![w] = file[w]] /\ ret' = [ret EXCEPT ![w] = to]
  OBVIOUS
<1>3. ~ Holds(w) /\ ~ Holds(w)'
  BY <1>1, <1>2 DEF TInv
<1> HIDE DEF to
<1>4. /\ pc'[w] = "stat" /\ ret'[w] = to /\ file' = file
      /\ \A v \in Workers \ {w} : pc'[v] = pc[v] /\ ret'[v] = ret[v]
  BY <1>2 DEF TInv
<1>5. LocalsType'
  <2>1. /\ pc \in [Workers -> Steps] /\ ret \in [Workers -> ReadFor \union {"idle"}]
        /\ file \in [Workers -> Files \union {None}] /\ "stat" \in Steps /\ to \in ReadFor
    BY <1>1 DEF TInv
  <2>2. /\ pc' \in [Workers -> Steps] /\ ret' \in [Workers -> ReadFor \union {"idle"}]
        /\ file' \in [Workers -> Files \union {None}]
    <3> HIDE DEF Steps, ReadFor
    <3> QED BY <1>2, <1>4, <2>1
  <2> QED BY <2>2 DEF TInv
<1>6. ControlInv'
  <2>1. ASSUME NEW v \in Workers, v # w PROVE Where(v)' = Where(v)
    BY <1>4, <2>1
  <2>2. Where(w)' = to
    BY <1>4
  <2>3. marks[w] # {} => op[w] = "query"
    BY DEF TInv
  <2> QED BY <1>1, <1>4, <2>1, <2>2, <2>3 DEF TInv
<1>7. SerialInv' /\ TicketInv'
  <2>1. \A v \in Workers : pc'[v] # "idle" => pc[v] # "idle"
    BY <1>1, <1>4
  <2>2. ASSUME NEW v \in Workers,
               \/ Where(v)' \in QueryTicket \union EditTicket
               \/ Where(v)' \in RecoverAt /\ op[v] = "query"
        PROVE  gen[v] <= nextGen[file[v]]
    <3>1. v # w => Where(v)' = Where(v)
      BY <1>4
    <3>2. CASE v = w
      <4>1. Where(v)' = to
        BY <1>4, <3>2
      <4>2. Where(v) \in RecoverAt /\ op[v] = "query"
        BY <1>1, <2>2, <3>2, <4>1
      <4> QED BY <4>2 DEF TInv
    <3> QED BY <2>2, <3>1, <3>2 DEF TInv
  <2> QED BY <1>4, <2>1, <2>2 DEF TInv
<1>8. ClockInv'
  <2>1. ASSUME NEW v \in Workers PROVE Holds(v)' = Holds(v)
    BY <1>3, <1>4, <2>1
  <2> HIDE DEF Holds
  <2> QED BY <1>4, <2>1 DEF TInv
<1> QED BY <1>5, <1>6, <1>7, <1>8 DEF Control, TInv

\* A cleared intent leaves the others.
LEMMA ClearedType ==
    ASSUME TInv, NEW f, intent' \in {intent, [intent EXCEPT ![f] = None]}
    PROVE  intent' \in [Files -> [prior: Contents, target: Contents] \union {None}]
<1>1. intent \in [Files -> [prior: Contents, target: Contents] \union {None}]
  BY DEF TInv
<1>2. CASE intent' = intent
  BY <1>1, <1>2
<1>3. CASE intent' = [intent EXCEPT ![f] = None]
  BY <1>1, <1>3
<1> QED BY <1>2, <1>3

\* A file that cannot be read.
LEMMA ReadErrorControl ==
    ASSUME TInv, NEW w \in Workers, ReadError(w), pc[w] \in {"stat", "read"},
           UNCHANGED <<mix, nextGen, committed>>
    PROVE  Control'
<1>1. CASE ret[w] = "scanned"
  <2>1. pc' = [pc EXCEPT ![w] = "scan"] /\ marks' = [marks EXCEPT ![w] = {}]
        /\ todo' = [todo EXCEPT ![w] = @ \ {file[w]}]
        /\ UNCHANGED <<clock, op, req, file, found, failed, stamp, got, ret, built, gen>>
    BY <1>1 DEF ReadError
  <2> QED BY <1>1, <2>1 DEF TInv, Control
<1>2. CASE ret[w] = "compiled"
  <2>1. pc' = [pc EXCEPT ![w] = "compile"] /\ failed' = [failed EXCEPT ![w] = TRUE]
        /\ todo' = [todo EXCEPT ![w] = @ \ {file[w]}]
        /\ UNCHANGED <<clock, op, req, file, found, marks, stamp, got, ret, built, gen>>
    BY <1>2 DEF ReadError
  <2> QED BY <1>2, <2>1 DEF TInv, Control
<1>4. CASE ret[w] = "recovered"
  <2>1. Call(w, file[w], Compilation(w))
        /\ UNCHANGED <<clock, op, req, todo, found, marks, failed, stamp, got, built, gen>>
    BY <1>4 DEF ReadError
  <2>2. built \in [Workers -> Bytes] /\ Where(w) \in RecoverAt
    BY <1>4 DEF TInv
  <2> QED BY <2>1, <2>2, CompilationControl
<1>3. CASE ret[w] \notin {"scanned", "compiled", "recovered"}
  <2>1. Return(w)
    BY <1>3 DEF TInv, ReadError
  <2> QED BY <2>1, ReturnControl
<1> QED BY <1>1, <1>2, <1>3, <1>4

\* A request arrives.
LEMMA BeginTInv == ASSUME TInv, NEW w \in Workers, NEW o \in mix.handlers, Begin(w, o) PROVE TInv'
  BY DEF TInv, Begin, Handlers, Requirements, MixType

\* invalidate_all keeps completions behind their generation.
LEMMA InvalidateType == ASSUME TInv, InvalidateAll, UNCHANGED done PROVE DiscoveryType'
  BY DEF TInv, InvalidateAll

\* read_source.
LEMMA ReadTInv ==
   ASSUME TInv, NEW w \in Workers
   PROVE /\ ReadStat(w) => TInv'
         /\ ReadBytes(w) => TInv'
         /\ ReadInsert(w) => TInv'
<1>1. ASSUME ReadStat(w) PROVE TInv'
  <2>1. DiscoveryType'
    BY <1>1, InvalidateType DEF TInv, ReadStat
  <2>2. CASE disk[file[w]].src = Absent
    <3>1. Control'
      BY <1>1, <2>2, ReadErrorControl DEF ReadStat
    <3> QED BY <1>1, <2>1, <3>1 DEF TInv, ReadStat, Control
  <2>3. CASE disk[file[w]].src # Absent
    <3>1. disk[file[w]].stamp \in Nat /\ (cache[file[w]] # None => cache[file[w]].src \in Contents)
      BY <1>1 DEF TInv, ReadStat
    <3>2. pc[w] = "stat" /\ stamp' = [stamp EXCEPT ![w] = disk[file[w]].stamp]
          /\ UNCHANGED <<world, cache, index, nextGen, committed, clock, op, req, file,
                         todo, found, marks, failed, ret, built, gen>>
      BY <1>1, <2>3 DEF ReadStat
    <3>3. CASE cache[file[w]] # None /\ cache[file[w]].stamp = disk[file[w]].stamp
      <4>1. pc' = [pc EXCEPT ![w] = ret[w]] /\ got' = [got EXCEPT ![w] = cache[file[w]].src]
        BY <1>1, <2>3, <3>3 DEF ReadStat
      <4> QED BY <2>1, <3>1, <3>2, <3>3, <4>1 DEF TInv
    <3>4. CASE ~ (cache[file[w]] # None /\ cache[file[w]].stamp = disk[file[w]].stamp)
      <4>1. pc' = [pc EXCEPT ![w] = "read"] /\ got' = [got EXCEPT ![w] = got[w]]
        BY <1>1, <2>3, <3>4 DEF ReadStat
      <4> QED BY <2>1, <3>1, <3>2, <4>1 DEF TInv
    <3> QED BY <3>3, <3>4
  <2> QED BY <2>2, <2>3
<1>2. ASSUME ReadBytes(w) PROVE TInv'
  <2>1. DiscoveryType'
    BY <1>2 DEF TInv, ReadBytes
  <2>2. CASE disk[file[w]].src = Absent
    <3>1. Control'
      BY <1>2, <2>2, ReadErrorControl DEF ReadBytes
    <3> QED BY <1>2, <2>1, <3>1 DEF TInv, ReadBytes, Control
  <2>3. CASE disk[file[w]].src # Absent
    <3>1. disk[file[w]].src \in Contents
      BY <1>2, <2>3 DEF TInv, ReadBytes
    <3>2. pc[w] = "read" /\ pc' = [pc EXCEPT ![w] = "insert"]
          /\ got' = [got EXCEPT ![w] = disk[file[w]].src]
          /\ UNCHANGED <<world, shared, clocks, op, req, file, todo, found, marks, failed,
                         stamp, ret, built, gen>>
      BY <1>2, <2>3 DEF ReadBytes
    <3> QED BY <2>1, <3>1, <3>2 DEF TInv
  <2> QED BY <2>2, <2>3
<1>3. ASSUME ReadInsert(w) PROVE TInv'
  BY <1>3 DEF TInv, ReadInsert
<1> QED BY <1>1, <1>2, <1>3

\* The start of a filesystem scan.
LEMMA ScanTInv ==
    ASSUME TInv, NEW w \in Workers, pc[w] = "discover", Scan(w),
           UNCHANGED <<world, shared, clocks, op, req, file, found, failed, stamp, got, ret, built, gen>>
    PROVE  TInv'
<1>1. CASE IsComplete("filesystem", req[w])
  <2>1. pc' = [pc EXCEPT ![w] = "select"] /\ UNCHANGED <<todo, marks>>
    BY <1>1 DEF Scan
  <2> QED BY <2>1 DEF TInv
<1>2. CASE ~ IsComplete("filesystem", req[w])
  <2>1. {f \in Files : disk[f].src # Absent} \in SUBSET Files /\ {"filesystem"} \in SUBSET Scopes
    BY DEF Scopes
  <2>2. pc' = [pc EXCEPT ![w] = "scan"] /\ marks' = [marks EXCEPT ![w] = {"filesystem"}]
        /\ todo' = [todo EXCEPT ![w] = {f \in Files : disk[f].src # Absent}]
    BY <1>2 DEF Scan
  <2>3. todo' \in [Workers -> SUBSET Files] /\ marks' \in [Workers -> SUBSET Scopes]
    BY <2>1, <2>2 DEF TInv
  <2> QED BY <2>2, <2>3 DEF TInv
<1> QED BY <1>1, <1>2

\* Discovery of candidates and their selection.
LEMMA DiscoverTInv ==
   ASSUME TInv, NEW w \in Workers
   PROVE /\ DiscoverFiles(w) => TInv'
         /\ DiscoverCached(w) => TInv'
         /\ DiscoverGraph(w) => TInv'
         /\ DiscoverFails(w) => TInv'
         /\ ScanNext(w) => TInv'
         /\ Scanned(w) => TInv'
         /\ ScanDone(w) => TInv'
         /\ Select(w) => TInv'
<1>1. ASSUME DiscoverFiles(w) PROVE TInv'
  BY <1>1, ScanTInv DEF DiscoverFiles
<1>2. ASSUME DiscoverCached(w) PROVE TInv'
  BY <1>2 DEF TInv, DiscoverCached
<1>3. ASSUME DiscoverGraph(w) PROVE TInv'
  <2>1. graph' \in [Files -> Bytes] /\ dirty' \in BOOLEAN
    <3>1. [f \in Files |-> disk[f].src] \in [Files -> Bytes]
      BY DEF TInv
    <3>2. graph' \in {[f \in Files |-> disk[f].src], graph} /\ dirty' \in {FALSE, dirty}
      BY <1>3 DEF DiscoverGraph
    <3>3. graph \in [Files -> Bytes] /\ dirty \in BOOLEAN
      BY DEF TInv
    <3> HIDE DEF Bytes
    <3> QED BY <3>1, <3>2, <3>3
  <2>2. {f \in Files : graph'[f] \in Mentions} \in SUBSET Files /\ {"cbm"} \in SUBSET Scopes
    BY DEF Scopes
  <2>3. found' \in [Workers -> SUBSET Files] /\ marks' \in [Workers -> SUBSET Scopes]
        /\ \A v \in Workers \ {w} : marks'[v] = marks[v]
    <3>1. found' = [found EXCEPT ![w] = {f \in Files : graph'[f] \in Mentions}]
          /\ (marks' = [marks EXCEPT ![w] = {"cbm"}] \/ marks' = marks)
      BY <1>3 DEF DiscoverGraph
    <3>2. found \in [Workers -> SUBSET Files] /\ marks \in [Workers -> SUBSET Scopes]
      BY DEF TInv
    <3> QED BY <2>2, <3>1, <3>2
  <2> QED BY <1>3, <2>1, <2>3 DEF TInv, DiscoverGraph
<1>4. ASSUME DiscoverFails(w) PROVE TInv'
  BY <1>4, ScanTInv DEF DiscoverFails
<1>5. ASSUME ScanNext(w) PROVE TInv'
  BY <1>5 DEF TInv, ScanNext
<1>6. ASSUME Scanned(w) PROVE TInv'
  BY <1>6 DEF TInv, Scanned
<1>7. ASSUME ScanDone(w) PROVE TInv'
  BY <1>7 DEF TInv, ScanDone
<1>8. ASSUME Select(w) PROVE TInv'
  BY <1>8 DEF TInv, Select
<1> QED BY <1>1, <1>2, <1>3, <1>4, <1>5, <1>6, <1>7, <1>8

\* Compilation and publication of candidates, and the answer.
LEMMA CompileTInv ==
   ASSUME TInv, NEW w \in Workers
   PROVE /\ CompileNext(w) => TInv'
         /\ Hashed(w) => TInv'
         /\ Compiled(w) => TInv'
         /\ CommitSuperseded(w) => TInv'
         /\ CommitCheck(w) => TInv'
         /\ Commit(w) => TInv'
         /\ Answer(w) => TInv'
<1>1. ASSUME CompileNext(w) PROVE TInv'
  <2>1. PICK f \in todo[w] : /\ NextGeneration(w, f)
                             /\ IF req[w] = "semantic" THEN Call(w, f, "hashed") ELSE Compile(w, f)
    BY <1>1 DEF CompileNext
  <2>2. /\ pc[w] = "compile" /\ op[w] = "query" /\ f \in Files
        /\ UNCHANGED <<world, shared, budget, op, req, todo, found, marks, failed, stamp, got, built>>
    <3>1. pc[w] = "compile"
          /\ UNCHANGED <<world, shared, budget, op, req, todo, found, marks, failed, stamp, got, built>>
      BY <1>1 DEF CompileNext
    <3>2. Where(w) = "compile"
      BY <3>1
    <3>3. op[w] = "query" /\ f \in Files
      <4> HIDE DEF Where
      <4> QED BY <2>1, <3>2 DEF TInv
    <3> QED BY <3>1, <3>3
  <2>3. /\ file' = [file EXCEPT ![w] = f]
        /\ \/ pc' = [pc EXCEPT ![w] = "stat"] /\ ret' \in {[ret EXCEPT ![w] = "hashed"], [ret EXCEPT ![w] = "compiled"]}
           \/ pc' = [pc EXCEPT ![w] = "preflight"] /\ ret' = [ret EXCEPT ![w] = "compiled"] /\ mix.store
    BY <2>1, <2>2 DEF Compile, Compilation, TInv, MixType
  <2>4. /\ nextGen' = [nextGen EXCEPT ![f] = @ + 1] /\ gen' = [gen EXCEPT ![w] = nextGen[f] + 1]
        /\ UNCHANGED <<committed, clock>>
    BY <2>1 DEF NextGeneration
  <2>5. CASE pc' = [pc EXCEPT ![w] = "stat"] /\ ret' = [ret EXCEPT ![w] = "hashed"]
    BY <2>2, <2>3, <2>4, <2>5 DEF TInv
  <2>7. CASE pc' = [pc EXCEPT ![w] = "stat"] /\ ret' = [ret EXCEPT ![w] = "compiled"]
    BY <2>2, <2>3, <2>4, <2>7 DEF TInv
  <2>6. CASE pc' = [pc EXCEPT ![w] = "preflight"] /\ ret' = [ret EXCEPT ![w] = "compiled"] /\ mix.store
    BY <2>2, <2>3, <2>4, <2>6 DEF TInv
  <2> QED BY <2>3, <2>5, <2>6, <2>7
<1>2. ASSUME Hashed(w) PROVE TInv'
  <2>1. pc[w] = "hashed" /\ UNCHANGED <<world, shared, clocks, budget, op, req, found, marks,
                                       failed, stamp, got, built, gen>>
    BY <1>2 DEF Hashed
  <2>2. CASE IsCurrent(file[w], got[w])
    <3>1. pc' = [pc EXCEPT ![w] = "compile"] /\ todo' = [todo EXCEPT ![w] = @ \ {file[w]}]
          /\ UNCHANGED <<file, ret>>
      BY <1>2, <2>2 DEF Hashed
    <3> QED BY <2>1, <3>1 DEF TInv
  <2>3. CASE ~ IsCurrent(file[w], got[w])
    <3>1. Compile(w, file[w]) /\ UNCHANGED todo
      BY <1>2, <2>3 DEF Hashed
    <3>2. op[w] = "query" /\ file[w] \in Files /\ file' = file
      <4>1. op[w] = "query" /\ file[w] \in Files
        <5>1. Where(w) = "hashed"
          BY <2>1
        <5> HIDE DEF Where
        <5> QED BY <2>1, <5>1 DEF TInv
      <4> QED BY <3>1, <4>1 DEF TInv, Compile
    <3>3. /\ ret' = [ret EXCEPT ![w] = "compiled"]
          /\ \/ pc' = [pc EXCEPT ![w] = "stat"]
             \/ pc' = [pc EXCEPT ![w] = "preflight"] /\ mix.store
      BY <3>1, <3>2 DEF TInv, Compile, Compilation, MixType
    <3>4. CASE pc' = [pc EXCEPT ![w] = "stat"]
      BY <2>1, <3>1, <3>2, <3>3, <3>4 DEF TInv
    <3>5. CASE pc' = [pc EXCEPT ![w] = "preflight"] /\ mix.store
      BY <2>1, <3>1, <3>2, <3>3, <3>5 DEF TInv
    <3> QED BY <3>3, <3>4, <3>5
  <2> QED BY <2>2, <2>3
<1>3. ASSUME Compiled(w) PROVE TInv'
  BY <1>3 DEF TInv, Compiled
<1>4. ASSUME CommitSuperseded(w) PROVE TInv'
  BY <1>4 DEF TInv, CommitSuperseded
<1>5. ASSUME CommitCheck(w) PROVE TInv'
  BY <1>5 DEF TInv, CommitCheck
<1>6. ASSUME Commit(w) PROVE TInv'
  <2>1. /\ pc' = [pc EXCEPT ![w] = "compile"] /\ pc[w] = "checked" /\ Release(w)
        /\ todo' = [todo EXCEPT ![w] = @ \ {file[w]}]
        /\ UNCHANGED <<world, cache, gens, done, nextGen, budget, op, req, file,
                       found, marks, stamp, got, ret, built, gen>>
    BY <1>6 DEF Commit
  <2>2. file[w] \in Files /\ built[w] \in Contents /\ gen[w] \in Nat /\ gen[w] <= nextGen[file[w]]
    <3>1. Where(w) = "checked"
      BY <2>1
    <3> HIDE DEF Where
    <3> QED BY <2>1, <3>1 DEF TInv
  <2>3. failed' \in [Workers -> BOOLEAN]
    <3>1. failed' \in {failed, [failed EXCEPT ![w] = TRUE]}
      BY <1>6 DEF Commit
    <3>2. failed \in [Workers -> BOOLEAN]
      BY DEF TInv
    <3> QED BY <3>1, <3>2
  <2>4. committed' \in [Files -> Nat] /\ \A f \in Files : committed'[f] <= nextGen[f]
    <3>1. committed' \in {committed, [committed EXCEPT ![file[w]] = gen[w]]}
      BY <1>6 DEF Commit
    <3>2. committed \in [Files -> Nat] /\ \A f \in Files : committed[f] <= nextGen[f]
      BY DEF TInv
    <3> QED BY <2>2, <3>1, <3>2
  <2>5. index' \in [Files -> [src: Contents, covered: BOOLEAN] \union {None}]
    <3>1. index' \in {index, [index EXCEPT ![file[w]] = [src |-> built[w], covered |-> req[w] = "semantic"]]}
      BY <1>6 DEF Commit
    <3>2. [src |-> built[w], covered |-> req[w] = "semantic"] \in [src: Contents, covered: BOOLEAN]
      BY <2>2
    <3>3. index \in [Files -> [src: Contents, covered: BOOLEAN] \union {None}]
      BY DEF TInv
    <3> QED BY <3>1, <3>2, <3>3
  <2>6. ClockInv' /\ clock' \in [Files -> Workers \union {None}]
    BY <2>1 DEF TInv
  <2>7. LocalsType'
    <3>1. todo' \in [Workers -> SUBSET Files] /\ pc' \in [Workers -> Steps]
      BY <2>1 DEF TInv
    <3> QED BY <2>1, <2>3, <3>1 DEF TInv
  <2>10. ControlInv'
    BY <2>1 DEF TInv
  <2>11. SerialInv'
    BY <2>1 DEF TInv
  <2>8. SharedType' /\ DiscoveryType'
    BY <2>1, <2>4, <2>5, <2>6 DEF TInv
  <2>9. TicketInv'
    BY <2>1, <2>4 DEF TInv
  <2> QED BY <2>6, <2>7, <2>8, <2>9, <2>10, <2>11 DEF TInv
<1>7. ASSUME Answer(w) PROVE TInv'
  <2>1. Control'
    BY <1>7, ReturnControl DEF Answer
  <2>2. DiscoveryType'
    <3>1. \A s \in Scopes : Generation(s) \in Nat
      BY DEF TInv, Generation
    <3>2. \A s \in Scopes, r \in Requirements :
             /\ gens'[s] = gens[s] \/ gens'[s] = Generation(s)
             /\ \/ done'[<<s, r>>] = done[<<s, r>>]
                \/ done'[<<s, r>>] = Generation(s) /\ gens'[s] = Generation(s)
      <4> TAKE s \in Scopes, r \in Requirements
      <4>1. <<s, r>> \in DOMAIN done /\ <<s, r>>[1] = s /\ <<s, r>>[2] = r
        BY DEF TInv
      <4>2. PICK S : MarkComplete(S, req[w])
        BY <1>7 DEF Answer
      <4> QED BY <4>1, <4>2 DEF MarkComplete
    <3>3. gens' \in [Scopes -> Nat \union {None}]
      BY <1>7, <3>1 DEF TInv, Answer, MarkComplete
    <3>4. done' \in [Scopes \X Requirements -> Nat \union {None}]
      BY <1>7, <3>1 DEF TInv, Answer, MarkComplete
    <3>5. ASSUME NEW s \in Scopes, NEW r \in Requirements, done'[<<s, r>>] # None
          PROVE  gens'[s] # None /\ done'[<<s, r>>] <= gens'[s]
      <4>1. CASE gens[s] = None
        BY <3>1, <3>2, <3>5, <4>1 DEF TInv
      <4>2. CASE gens[s] # None
        <5>1. Generation(s) = gens[s] /\ gens'[s] = gens[s] /\ gens[s] \in Nat
          <6>1. Generation(s) = gens[s]
            BY <4>2 DEF Generation
          <6>2. gens[s] \in Nat
            BY <4>2 DEF TInv
          <6> QED BY <3>2, <6>1, <6>2
        <5>2. done'[<<s, r>>] = done[<<s, r>>] \/ done'[<<s, r>>] = gens[s]
          BY <3>2, <5>1
        <5> QED BY <3>5, <5>1, <5>2 DEF TInv
      <4> QED BY <4>1, <4>2
    <3> QED BY <3>3, <3>4, <3>5
  <2> QED BY <1>7, <2>1, <2>2 DEF TInv, Control, Answer
<1> QED BY <1>1, <1>2, <1>3, <1>4, <1>5, <1>6, <1>7

\* Recovery of an edit before a compilation.
LEMMA PreflightTInv ==
   ASSUME TInv, NEW w \in Workers
   PROVE /\ PreflightNone(w) => TInv'
         /\ PreflightRecovers(w) => TInv'
         /\ PreflightFails(w) => TInv'
         /\ HydrateRecovered(w) => TInv'
<1>1. ASSUME PreflightNone(w) PROVE TInv'
  <2>1. Control'
    BY <1>1, CompilationControl DEF PreflightNone, TInv
  <2> QED BY <1>1, <2>1 DEF TInv, Control, PreflightNone
<1>2. ASSUME PreflightRecovers(w) PROVE TInv'
  <2>1. intent[file[w]] \in [prior: Contents, target: Contents] /\ disk[file[w]].src \in Contents
    BY <1>2 DEF TInv, PreflightRecovers, Recoverable
  <2> QED BY <1>2, <2>1 DEF TInv, PreflightRecovers
<1>3. ASSUME PreflightFails(w) PROVE TInv'
  <2>1. Control'
    BY <1>3, ReturnControl DEF PreflightFails
  <2>2. DiscoveryType'
    BY <1>3 DEF TInv, PreflightFails
  <2>3. intent' \in [Files -> [prior: Contents, target: Contents] \union {None}]
    <3>1. intent' \in {intent, [intent EXCEPT ![file[w]] = None]}
      <4>1. intent' \in {intent, [intent EXCEPT ![file[w]] = IF Recoverable(file[w]) THEN None ELSE @]}
        BY <1>3 DEF PreflightFails
      <4>2. intent = [intent EXCEPT ![file[w]] = @]
        BY DEF TInv
      <4> QED BY <4>1, <4>2
    <3> QED BY <3>1, ClearedType
  <2> QED BY <1>3, <2>1, <2>2, <2>3 DEF TInv, Control, PreflightFails
<1>4. ASSUME HydrateRecovered(w) PROVE TInv'
  <2>1. Control'
    BY <1>4, CompilationControl DEF HydrateRecovered, TInv
  <2>2. file[w] \in Files /\ built[w] \in Contents
    BY <1>4 DEF TInv, HydrateRecovered
  <2>3. index' \in [Files -> [src: Contents, covered: BOOLEAN] \union {None}] /\ torn' \in SUBSET Files
    <3>1. index \in [Files -> [src: Contents, covered: BOOLEAN] \union {None}] /\ torn \in SUBSET Files
      BY DEF TInv
    <3>2. CASE UNCHANGED <<index, torn>>
      BY <3>1, <3>2
    <3>3. CASE ~ UNCHANGED <<index, torn>>
      <4>1. PICK covered \in BOOLEAN :
               index' = [index EXCEPT ![file[w]] = IF covered \/ built[w] \in Mentions
                            THEN [src |-> built[w], covered |-> covered] ELSE None]
        BY <1>4, <3>3 DEF HydrateRecovered
      <4>2. torn' = torn \ {file[w]}
        BY <1>4, <3>3 DEF HydrateRecovered
      <4> QED BY <2>2, <3>1, <4>1, <4>2
    <3> QED BY <3>2, <3>3
  <2> QED BY <1>4, <2>1, <2>3 DEF TInv, Control, HydrateRecovered
<1> QED BY <1>1, <1>2, <1>3, <1>4

\* An edit up to the rename.
LEMMA EditTInv ==
   ASSUME TInv, NEW w \in Workers
   PROVE /\ EditBegin(w) => TInv'
         /\ EditRead(w) => TInv'
         /\ EditRecovered(w) => TInv'
         /\ EditRefused(w) => TInv'
         /\ EditCheck(w) => TInv'
         /\ EditRename(w) => TInv'
         /\ EditRenameFails(w) => TInv'
<1>1. ASSUME EditBegin(w) PROVE TInv'
  BY <1>1 DEF TInv, EditBegin, NextGeneration
<1>2. ASSUME EditRead(w) PROVE TInv'
  <2>1. disk[file[w]].src \in Contents /\ file[w] \in Files
    BY <1>2 DEF TInv, EditRead
  <2> QED BY <1>2, <2>1 DEF TInv, EditRead
<1>3. ASSUME EditRecovered(w) PROVE TInv'
  <2>1. Control'
    BY <1>3, ReturnControl DEF EditRecovered
  <2>2. DiscoveryType'
    BY <1>3 DEF TInv, EditRecovered
  <2>3. intent' \in [Files -> [prior: Contents, target: Contents] \union {None}]
    <3>1. intent' \in {intent, [intent EXCEPT ![file[w]] = None]}
      BY <1>3 DEF EditRecovered
    <3> QED BY <3>1, ClearedType
  <2> QED BY <1>3, <2>1, <2>2, <2>3 DEF TInv, Control, EditRecovered
<1>4. ASSUME EditRefused(w) PROVE TInv'
  <2>1. Control'
    BY <1>4, ReturnControl DEF EditRefused
  <2>2. DiscoveryType'
    BY <1>4 DEF TInv, EditRefused
  <2> QED BY <1>4, <2>1, <2>2 DEF TInv, Control, EditRefused
<1>5. ASSUME EditCheck(w) PROVE TInv'
  <2>1. file[w] \in Files /\ got[w] \in Contents /\ built[w] \in Contents
    BY <1>5 DEF TInv, EditCheck
  <2>2. intent' \in [Files -> [prior: Contents, target: Contents] \union {None}]
    <3>1. intent' \in {intent, [intent EXCEPT ![file[w]] = [prior |-> got[w], target |-> built[w]]]}
      BY <1>5 DEF EditCheck
    <3>2. intent \in [Files -> [prior: Contents, target: Contents] \union {None}]
      BY DEF TInv
    <3> QED BY <2>1, <3>1, <3>2
  <2>3. /\ pc[w] = "editCommit" /\ pc' = [pc EXCEPT ![w] = "editRename"]
        /\ clock[file[w]] = None /\ clock' = [clock EXCEPT ![file[w]] = w]
        /\ UNCHANGED <<mix, disk, graph, dirty, unseen, ungraphed, torn, shared, nextGen, committed,
                       budget, op, locals>>
    BY <1>5 DEF EditCheck
  <2> QED BY <2>1, <2>2, <2>3 DEF TInv
<1>6. ASSUME EditRename(w) PROVE TInv'
  <2>1. file[w] \in Files /\ built[w] \in Contents
    BY <1>6 DEF TInv, EditRename
  <2> QED BY <1>6, <2>1 DEF TInv, EditRename, NewStamp
<1>7. ASSUME EditRenameFails(w) PROVE TInv'
  <2>1. Control'
    BY <1>7, ReturnControl DEF EditRenameFails
  <2>2. intent' \in [Files -> [prior: Contents, target: Contents] \union {None}]
    BY <1>7, ClearedType DEF EditRenameFails, IntentCleared
  <2>3. DiscoveryType'
    BY <1>7 DEF TInv, EditRenameFails
  <2> QED BY <1>7, <2>1, <2>2, <2>3 DEF TInv, Control, EditRenameFails
<1> QED BY <1>1, <1>2, <1>3, <1>4, <1>5, <1>6, <1>7

\* entities_in_file, the end of apply_edit, refresh_workspace and index_repository.
LEMMA OtherTInv ==
   ASSUME TInv, NEW w \in Workers
   PROVE /\ Inspected(w) => TInv'
         /\ InspectPublish(w) => TInv'
         /\ EditCache(w) => TInv'
         /\ EditPublish(w) => TInv'
         /\ EditRestore(w) => TInv'
         /\ EditRestored(w) => TInv'
         /\ EditTorn(w) => TInv'
         /\ EditDiscovery(w) => TInv'
         /\ Reindex(w) => TInv'
         /\ ReindexFails(w) => TInv'
         /\ RefreshCache(w) => TInv'
         /\ RefreshIndex(w) => TInv'
         /\ RefreshDiscovery(w) => TInv'
<1>1. ASSUME Inspected(w) PROVE TInv'
  <2>1. CASE IsCurrent(file[w], got[w])
    <3>1. Control'
      BY <1>1, <2>1, ReturnControl DEF Inspected
    <3> QED BY <1>1, <3>1 DEF TInv, Control, Inspected
  <2>2. CASE ~ IsCurrent(file[w], got[w])
    <3>1. Compile(w, file[w]) /\ pc[w] = "inspected"
          /\ UNCHANGED <<world, shared, clocks, budget, op, req, todo, found, marks, failed,
                         stamp, got, built, gen>>
      BY <1>1, <2>2 DEF Inspected
    <3> QED BY <3>1 DEF TInv, Compile, Compilation
  <2> QED BY <2>1, <2>2
<1>2. ASSUME InspectPublish(w) PROVE TInv'
  <2>1. Control'
    BY <1>2, ReturnControl DEF InspectPublish
  <2>2. file[w] \in Files /\ got[w] \in Contents
    BY <1>2 DEF TInv, InspectPublish
  <2>3. index' \in [Files -> [src: Contents, covered: BOOLEAN] \union {None}]
    BY <1>2, <2>2 DEF TInv, InspectPublish
  <2> QED BY <1>2, <2>1, <2>3 DEF TInv, Control, InspectPublish
<1>3. ASSUME EditCache(w) PROVE TInv'
  BY <1>3 DEF TInv, EditCache
<1>4. ASSUME EditPublish(w) PROVE TInv'
  <2>1. /\ file[w] \in Files /\ built[w] \in Contents /\ gen[w] \in Nat /\ gen[w] <= nextGen[file[w]]
        /\ pc[w] = "editPublish"
    BY <1>4 DEF TInv, EditPublish
  <2>2. intent' \in [Files -> [prior: Contents, target: Contents] \union {None}]
    BY <1>4, ClearedType DEF EditPublish, IntentCleared
  <2>3. index' \in [Files -> [src: Contents, covered: BOOLEAN] \union {None}]
    BY <1>4, <2>1 DEF TInv, EditPublish
  <2>4. committed' \in [Files -> Nat] /\ \A f \in Files : committed'[f] <= nextGen[f]
    BY <1>4, <2>1 DEF TInv, EditPublish
  <2>5. /\ pc' = [pc EXCEPT ![w] = "editDiscovery"] /\ Release(w) /\ torn' = torn \ {file[w]}
        /\ UNCHANGED <<mix, disk, graph, dirty, unseen, ungraphed, cache, gens, done, nextGen, budget,
                       op, locals>>
    BY <1>4 DEF EditPublish
  <2>6. SharedType' /\ DiscoveryType'
    BY <2>2, <2>3, <2>4, <2>5 DEF TInv
  <2>7. LocalsType' /\ ControlInv' /\ SerialInv'
    BY <2>1, <2>5 DEF TInv
  <2>8. ClockInv' /\ TicketInv'
    BY <2>1, <2>4, <2>5 DEF TInv
  <2> QED BY <2>6, <2>7, <2>8 DEF TInv
<1>5. ASSUME EditRestore(w) PROVE TInv'
  <2>1. file[w] \in Files /\ got[w] \in Contents
    BY <1>5 DEF TInv, EditRestore
  <2> QED BY <1>5, <2>1 DEF TInv, EditRestore, NewStamp
<1>6. ASSUME EditRestored(w) PROVE TInv'
  <2>1. Control'
    BY <1>6, ReturnControl DEF EditRestored
  <2>2. intent' \in [Files -> [prior: Contents, target: Contents] \union {None}]
    BY <1>6, ClearedType DEF EditRestored, IntentCleared
  <2>3. DiscoveryType'
    BY <1>6 DEF TInv, EditRestored
  <2> QED BY <1>6, <2>1, <2>2, <2>3 DEF TInv, Control, EditRestored
<1>13. ASSUME EditTorn(w) PROVE TInv'
  <2>1. Control'
    BY <1>13, ReturnControl DEF EditTorn
  <2>2. DiscoveryType' /\ file[w] \in Files
    BY <1>13 DEF TInv, EditTorn
  <2> QED BY <1>13, <2>1, <2>2 DEF TInv, Control, EditTorn
<1>7. ASSUME EditDiscovery(w) PROVE TInv'
  <2>1. Control'
    BY <1>7, ReturnControl DEF EditDiscovery
  <2>2. DiscoveryType'
    BY <1>7, InvalidateType DEF TInv, EditDiscovery
  <2>3. file[w] \in Files
    BY <1>7 DEF TInv, EditDiscovery
  <2>4. ungraphed' = ungraphed \/ ungraphed' = ungraphed \union {file[w]}
    BY <1>7 DEF EditDiscovery
  <2>5. dirty' = dirty \/ dirty' = TRUE
    BY <1>7 DEF EditDiscovery
  <2>6. ungraphed' \in SUBSET Files
    BY <2>3, <2>4 DEF TInv
  <2>7. dirty' \in BOOLEAN
    BY <2>5 DEF TInv
  <2> QED BY <1>7, <2>1, <2>2, <2>6, <2>7 DEF TInv, Control, EditDiscovery
<1>8. ASSUME Reindex(w) PROVE TInv'
  BY <1>8 DEF TInv, Reindex
<1>9. ASSUME ReindexFails(w) PROVE TInv'
  <2>1. Control'
    BY <1>9, ReturnControl DEF ReindexFails
  <2>2. DiscoveryType'
    BY <1>9 DEF TInv, ReindexFails
  <2> QED BY <1>9, <2>1, <2>2 DEF TInv, Control, ReindexFails
<1>10. ASSUME RefreshCache(w) PROVE TInv'
  BY <1>10 DEF TInv, RefreshCache
<1>11. ASSUME RefreshIndex(w) PROVE TInv'
  BY <1>11 DEF TInv, RefreshIndex
<1>12. ASSUME RefreshDiscovery(w) PROVE TInv'
  <2>1. Control'
    BY <1>12, ReturnControl DEF RefreshDiscovery
  <2>2. DiscoveryType'
    BY <1>12, InvalidateType DEF TInv, RefreshDiscovery
  <2> QED BY <1>12, <2>1, <2>2 DEF TInv, Control, RefreshDiscovery
<1> QED BY <1>1, <1>2, <1>3, <1>4, <1>5, <1>6, <1>7, <1>8, <1>9, <1>10, <1>11, <1>12, <1>13

\* The world, and stuttering.
LEMMA WorldTInv ==
   ASSUME TInv
   PROVE /\ \A f \in Files : OutsideWrite(f) => TInv'
         /\ CbmFollows => TInv'
         /\ UNCHANGED vars => TInv'
<1>1. ASSUME NEW f \in Files, OutsideWrite(f) PROVE TInv'
  BY <1>1 DEF TInv, OutsideWrite, NewStamp
<1>2. ASSUME CbmFollows PROVE TInv'
  BY <1>2 DEF TInv, CbmFollows
<1>3. ASSUME UNCHANGED vars PROVE TInv'
  BY <1>3 DEF TInv, vars
<1> QED BY <1>1, <1>2, <1>3

\* Every step keeps the first invariant.
LEMMA StepTInv == TInv /\ [Next]_vars => TInv'
<1> SUFFICES ASSUME TInv, [Next]_vars PROVE TInv'
  OBVIOUS
<1>1. ASSUME NEW w \in Workers, Step(w) PROVE TInv'
  BY <1>1, BeginTInv, ReadTInv, DiscoverTInv, CompileTInv, PreflightTInv, EditTInv, OtherTInv DEF Step
<1>2. ASSUME NEW f \in Files, OutsideWrite(f) PROVE TInv'
  BY <1>2, WorldTInv
<1> QED BY <1>1, <1>2, WorldTInv DEF Next

\* Every reachable state of hydration satisfies the first invariant: a clock is
\* held exactly inside the commit section that took it, for one file.
THEOREM Typing == Spec => []TInv
<1> USE DEF TInv
<1>1. Init => TInv
  BY InitTInv
<1>2. TInv /\ [Next]_vars => TInv'
  BY StepTInv
<1> QED BY <1>1, <1>2, PTL DEF Spec

\* Type correctness of hydration: completions never run ahead of the discovery
\* generation, tickets never ahead of the clock (discovery_cache.rs,
\* publication.rs).
THEOREM TypeCorrect == Spec => []TypeOK
<1>1. TInv => TypeOK
  <2> SUFFICES ASSUME TInv PROVE TypeOK
    OBVIOUS
  <2>1. \A t \in DOMAIN done : t[1] \in Scopes /\ t[2] \in Requirements /\ t = <<t[1], t[2]>>
    BY DEF TInv
  <2>2. \A t \in DOMAIN done : done[t] # None => gens[t[1]] # None /\ done[t] <= gens[t[1]]
    BY <2>1 DEF TInv
  <2> QED BY <2>2 DEF TInv, TypeOK
<1> QED BY <1>1, Typing, PTL

-----------------------------------------------------------------------------
(* The other workers *)

\* The locals of every other worker stay.
Others(w) ==
    \A v \in Workers \ {w} :
        /\ pc'[v] = pc[v] /\ op'[v] = op[v] /\ req'[v] = req[v] /\ file'[v] = file[v]
        /\ todo'[v] = todo[v] /\ found'[v] = found[v] /\ marks'[v] = marks[v]
        /\ failed'[v] = failed[v] /\ stamp'[v] = stamp[v] /\ got'[v] = got[v]
        /\ ret'[v] = ret[v] /\ built'[v] = built[v]

\* The end of a handler touches only its own locals.
LEMMA ReturnOthers == ASSUME TInv, NEW w \in Workers, Return(w) PROVE Others(w)
  BY DEF TInv, Return, Others

\* So does a failed read.
LEMMA ReadErrorOthers == ASSUME TInv, NEW w \in Workers, ReadError(w) PROVE Others(w)
<1>1. CASE Return(w)
  BY <1>1, ReturnOthers
<1>2. CASE ret[w] = "scanned"
  BY <1>2 DEF TInv, ReadError, Others
<1>3. CASE ret[w] = "compiled"
  BY <1>3 DEF TInv, ReadError, Others
<1>4. CASE ret[w] = "recovered"
  BY <1>4 DEF TInv, ReadError, Others
<1> QED BY <1>1, <1>2, <1>3, <1>4 DEF ReadError

\* So does every step.
LEMMA StepOthers == ASSUME TInv, NEW w \in Workers, Step(w) PROVE Others(w)
<1>0. ASSUME NEW o \in mix.handlers, Begin(w, o) PROVE Others(w)
  BY <1>0 DEF TInv, Begin, Others
<1>1. ASSUME ReadStat(w) PROVE Others(w)
  <2>1. CASE disk[file[w]].src = Absent
    BY <1>1, <2>1, ReadErrorOthers DEF ReadStat
  <2>2. CASE disk[file[w]].src # Absent
    BY <1>1, <2>2 DEF TInv, Others, ReadStat
  <2> QED BY <2>1, <2>2
<1>2. ASSUME ReadBytes(w) PROVE Others(w)
  <2>1. CASE disk[file[w]].src = Absent
    BY <1>2, <2>1, ReadErrorOthers DEF ReadBytes
  <2>2. CASE disk[file[w]].src # Absent
    BY <1>2, <2>2 DEF TInv, Others, ReadBytes
  <2> QED BY <2>1, <2>2
<1>3. ASSUME ReadInsert(w) PROVE Others(w)
  BY <1>3 DEF TInv, Others, ReadInsert
<1>4. ASSUME DiscoverFiles(w) PROVE Others(w)
  BY <1>4 DEF TInv, Others, DiscoverFiles, Scan
<1>5. ASSUME DiscoverCached(w) PROVE Others(w)
  BY <1>5 DEF TInv, Others, DiscoverCached
<1>6. ASSUME DiscoverGraph(w) PROVE Others(w)
  BY <1>6 DEF TInv, Others, DiscoverGraph
<1>7. ASSUME DiscoverFails(w) PROVE Others(w)
  BY <1>7 DEF TInv, Others, DiscoverFails, Scan
<1>8. ASSUME ScanNext(w) PROVE Others(w)
  BY <1>8 DEF TInv, Others, ScanNext
<1>9. ASSUME Scanned(w) PROVE Others(w)
  BY <1>9 DEF TInv, Others, Scanned
<1>10. ASSUME ScanDone(w) PROVE Others(w)
  BY <1>10 DEF TInv, Others, ScanDone
<1>11. ASSUME Select(w) PROVE Others(w)
  BY <1>11 DEF TInv, Others, Select
<1>12. ASSUME CompileNext(w) PROVE Others(w)
  BY <1>12 DEF TInv, Others, CompileNext, Compile, NextGeneration
<1>13. ASSUME Hashed(w) PROVE Others(w)
  BY <1>13 DEF TInv, Others, Hashed, Compile
<1>14. ASSUME Compiled(w) PROVE Others(w)
  BY <1>14 DEF TInv, Others, Compiled
<1>15. ASSUME CommitSuperseded(w) PROVE Others(w)
  BY <1>15 DEF TInv, Others, CommitSuperseded
<1>16. ASSUME CommitCheck(w) PROVE Others(w)
  BY <1>16 DEF TInv, Others, CommitCheck
<1>17. ASSUME Commit(w) PROVE Others(w)
  BY <1>17 DEF TInv, Others, Commit
<1>18. ASSUME Answer(w) PROVE Others(w)
  BY <1>18, ReturnOthers DEF Answer
<1>19. ASSUME Inspected(w) PROVE Others(w)
  <2>1. CASE IsCurrent(file[w], got[w])
    BY <1>19, <2>1, ReturnOthers DEF Inspected
  <2>2. CASE ~ IsCurrent(file[w], got[w])
    BY <1>19, <2>2 DEF TInv, Others, Inspected, Compile
  <2> QED BY <2>1, <2>2
<1>20. ASSUME InspectPublish(w) PROVE Others(w)
  BY <1>20, ReturnOthers DEF InspectPublish
<1>21. ASSUME EditRename(w) PROVE Others(w)
  BY <1>21 DEF TInv, Others, EditRename
<1>22. ASSUME EditRefused(w) PROVE Others(w)
  BY <1>22, ReturnOthers DEF EditRefused
<1>23. ASSUME EditCache(w) PROVE Others(w)
  BY <1>23 DEF TInv, Others, EditCache
<1>24. ASSUME EditPublish(w) PROVE Others(w)
  BY <1>24 DEF TInv, Others, EditPublish
<1>25. ASSUME EditDiscovery(w) PROVE Others(w)
  BY <1>25, ReturnOthers DEF EditDiscovery
<1>26. ASSUME Reindex(w) PROVE Others(w)
  BY <1>26 DEF TInv, Others, Reindex
<1>27. ASSUME ReindexFails(w) PROVE Others(w)
  BY <1>27, ReturnOthers DEF ReindexFails
<1>28. ASSUME RefreshCache(w) PROVE Others(w)
  BY <1>28 DEF TInv, Others, RefreshCache
<1>29. ASSUME RefreshIndex(w) PROVE Others(w)
  BY <1>29 DEF TInv, Others, RefreshIndex
<1>30. ASSUME RefreshDiscovery(w) PROVE Others(w)
  BY <1>30, ReturnOthers DEF RefreshDiscovery
<1>31. ASSUME PreflightNone(w) PROVE Others(w)
  BY <1>31 DEF TInv, Others, PreflightNone
<1>32. ASSUME PreflightRecovers(w) PROVE Others(w)
  BY <1>32 DEF TInv, Others, PreflightRecovers
<1>33. ASSUME PreflightFails(w) PROVE Others(w)
  BY <1>33, ReturnOthers DEF PreflightFails
<1>34. ASSUME HydrateRecovered(w) PROVE Others(w)
  BY <1>34 DEF TInv, Others, HydrateRecovered
<1>35. ASSUME EditBegin(w) PROVE Others(w)
  BY <1>35 DEF TInv, Others, EditBegin, NextGeneration
<1>36. ASSUME EditRead(w) PROVE Others(w)
  BY <1>36 DEF TInv, Others, EditRead
<1>37. ASSUME EditRecovered(w) PROVE Others(w)
  BY <1>37, ReturnOthers DEF EditRecovered
<1>38. ASSUME EditCheck(w) PROVE Others(w)
  BY <1>38 DEF TInv, Others, EditCheck
<1>39. ASSUME EditRenameFails(w) PROVE Others(w)
  BY <1>39, ReturnOthers DEF EditRenameFails
<1>40. ASSUME EditRestore(w) PROVE Others(w)
  BY <1>40 DEF TInv, Others, EditRestore
<1>41. ASSUME EditRestored(w) PROVE Others(w)
  BY <1>41, ReturnOthers DEF EditRestored
<1>42. ASSUME EditTorn(w) PROVE Others(w)
  BY <1>42, ReturnOthers DEF EditTorn
<1> QED BY <1>0, <1>1, <1>2, <1>3, <1>4, <1>5, <1>6, <1>7, <1>8, <1>9, <1>10, <1>11, <1>12, <1>13, <1>14,
       <1>15, <1>16, <1>17, <1>18, <1>19, <1>20, <1>21, <1>22, <1>23, <1>24, <1>25, <1>26,
       <1>27, <1>28, <1>29, <1>30, <1>31, <1>32, <1>33, <1>34, <1>35, <1>36, <1>37, <1>38,
       <1>39, <1>40, <1>41, <1>42 DEF Step

-----------------------------------------------------------------------------
(* Files, cache and index *)

\* An edit of f that has written the file and not published yet.
MidEdit(f) == \E w \in Workers : file[w] = f /\ pc[w] \in {"editCache", "editPublish"}

\* A write the metadata does not show, before the cache was told.
Excused(f) ==
    mix.hidden /\ \/ f \in unseen
                  \/ \E w \in Workers : file[w] = f /\ pc[w] \in {"editCache", "editRestored"}

\* A cache entry is not newer than the file, and of its bytes if the stamps agree.
CacheInv ==
    \A f \in Files : cache[f] # None =>
        /\ cache[f].stamp <= disk[f].stamp
        /\ cache[f].stamp = disk[f].stamp /\ ~Excused(f) => cache[f].src = disk[f].src

\* The same of an entry that is about to be inserted: the metadata are taken
\* first, so a write in between makes the entry older than the file.
ReadInv ==
    \A w \in Workers :
        /\ pc[w] \in {"read", "insert"} => stamp[w] <= disk[file[w]].stamp
        /\ pc[w] = "insert" /\ stamp[w] = disk[file[w]].stamp /\ ~Excused(file[w])
              => got[w] = disk[file[w]].src

\* What was read in the clock, or by a request that runs alone, is what the
\* file holds when it is used.
ReadCurrent ==
    \A w \in Workers :
        /\ mix.serial \/ Where(w) = "checked"
        /\ pc[w] \in {"insert", "checked", "inspectPublish", "recovered"}
        /\ file[w] \notin unseen
        => got[w] = disk[file[w]].src

\* An edit replaces the bytes it read, and publishes the compilation of what it
\* wrote.
EditInv ==
    \A w \in Workers : file[w] \notin unseen =>
        /\ pc[w] = "editRename" => got[w] = disk[file[w]].src
        /\ pc[w] \in {"editCache", "editPublish"} => built[w] = disk[file[w]].src

\* Until it publishes, the index has facts only of the bytes it would put back.
UndoInv ==
    mix.serial => \A w \in Workers :
        pc[w] \in {"editCache", "editPublish"} /\ file[w] \notin unseen \union torn
        /\ index[file[w]] # None => index[file[w]].src = got[w]

\* A refresh that runs alone leaves cache and index empty.
RefreshInv ==
    mix.serial => \A w \in Workers, f \in Files :
        /\ pc[w] \in {"refreshIndex", "refreshDiscovery"} => cache[f] = None
        /\ pc[w] = "refreshDiscovery" => index[f] = None

\* The index has facts of the present bytes only.
FactsInv ==
    \A f \in Files \ (unseen \union torn) : index[f] # None /\ ~MidEdit(f) => index[f].src = disk[f].src

\* The second invariant.
SourceInv == CacheInv /\ ReadInv /\ ReadCurrent /\ EditInv /\ UndoInv /\ RefreshInv /\ FactsInv

\* A step that leaves files, cache and index alone, and what is known of a read.
Quiet(w) ==
    /\ UNCHANGED <<mix, disk, cache, index, unseen, torn>>
    /\ pc[w] \notin {"editCache", "editPublish", "editRestored"}
    /\ pc'[w] \notin {"read", "insert", "checked", "inspectPublish", "recovered", "editRename",
                     "editCache", "editPublish", "editRestored", "refreshIndex", "refreshDiscovery"}

\* Such a step keeps the second invariant.
LEMMA QuietSource ==
    ASSUME TInv, SourceInv, NEW w \in Workers, Others(w), Quiet(w)
    PROVE  SourceInv'
<1> USE DEF Quiet
<1>1. ASSUME NEW f \in Files PROVE MidEdit(f)' = MidEdit(f) /\ Excused(f)' = Excused(f)
  BY DEF Others, MidEdit, Excused
<1>2. CacheInv' /\ FactsInv'
  BY <1>1 DEF SourceInv, CacheInv, FactsInv
<1>3. ReadInv'
  <2>1. ASSUME NEW v \in Workers \ {w}, pc[v] \in {"read", "insert"} PROVE file[v] \in Files
    BY <2>1 DEF TInv
  <2> QED BY <1>1, <2>1 DEF SourceInv, ReadInv, Others
<1>4. ReadCurrent' /\ EditInv' /\ UndoInv' /\ RefreshInv'
  BY DEF SourceInv, ReadCurrent, EditInv, UndoInv, RefreshInv, Others
<1> QED BY <1>2, <1>3, <1>4 DEF SourceInv

\* In a serial session the other workers are idle.
LEMMA AloneWhenSerial ==
    ASSUME TInv, mix.serial, NEW w \in Workers, pc[w] # "idle"
    PROVE  \A v \in Workers \ {w} : pc[v] = "idle"
  BY DEF TInv

\* A request that runs alone is all that the invariant is about.
LEMMA AloneSource ==
    ASSUME TInv, NEW w \in Workers, Others(w), mix.serial, UNCHANGED mix, pc[w] # "idle",
           pc'[w] \in {"idle", "stat", "editRestored"}, CacheInv', FactsInv'
    PROVE  SourceInv'
<1>1. \A v \in Workers : pc'[v] \in {"idle", "stat", "editRestored"}
  BY AloneWhenSerial DEF Others
<1> QED BY <1>1 DEF SourceInv, ReadInv, ReadCurrent, EditInv, UndoInv, RefreshInv

\* In an orderly session, writes are hidden only if requests run one at a time.
LEMMA SerialOrNot == ASSUME TInv, Orderly PROVE mix.hidden => mix.serial
  BY DEF Orderly

\* A read that holds the clock, or runs alone, meets only unseen writes.
LEMMA NotExcused ==
    ASSUME TInv, Orderly, NEW w \in Workers, pc[w] \in ReadAt, file[w] \notin unseen
    PROVE  ~Excused(file[w])
<1>1. CASE ~ mix.hidden
  BY <1>1 DEF Excused
<1>2. CASE mix.hidden
  <2>1. mix.serial
    BY <1>2, SerialOrNot
  <2>2. \A v \in Workers : pc[v] \notin {"editCache", "editRestored"}
    BY <2>1, AloneWhenSerial
  <2> QED BY <2>2 DEF Excused
<1> QED BY <1>1, <1>2

\* The lookup: a hit is current, a miss remembers the stamp.
LEMMA ReadStatSource ==
    ASSUME TInv, SourceInv, Orderly, NEW w \in Workers, ReadStat(w)
    PROVE  SourceInv'
<1> DEFINE f == file[w]
<1>1. Others(w)
  BY StepOthers DEF Step
<1>2. UNCHANGED <<mix, disk, cache, index, unseen, torn>> /\ pc[w] = "stat" /\ f \in Files
  BY DEF ReadStat, TInv
<1>3. CASE disk[f].src = Absent
  <2>1. pc'[w] \in {"scan", "compile", "idle", "stat"}
    <3>1. ReadError(w)
      BY <1>3 DEF ReadStat
    <3> QED BY <3>1 DEF ReadError, Return, TInv
  <2> QED BY <1>1, <1>2, <2>1, QuietSource DEF Quiet
<1>4. CASE disk[f].src # Absent
  <2>1. /\ stamp'[w] = disk[f].stamp /\ UNCHANGED <<ret, file, built>>
        /\ ret[w] \in ReadFor /\ disk[f].stamp \in Nat
    BY <1>2, <1>4 DEF ReadStat, TInv
  <2>2. \/ pc'[w] = "read"
        \/ pc'[w] = ret[w] /\ got'[w] = cache[f].src /\ cache[f] # None /\ cache[f].stamp = disk[f].stamp
    BY <1>2, <1>4 DEF ReadStat, TInv
  <2>3. ASSUME NEW g \in Files PROVE MidEdit(g)' = MidEdit(g) /\ Excused(g)' = Excused(g)
    BY <1>1, <1>2, <2>1, <2>2 DEF Others, MidEdit, Excused
  <2>4. CacheInv' /\ FactsInv'
    BY <1>2, <2>3 DEF SourceInv, CacheInv, FactsInv
  <2>5. ReadInv'
    <3>1. ASSUME NEW v \in Workers \ {w}, pc[v] \in {"read", "insert"} PROVE file[v] \in Files
      BY <3>1 DEF TInv
    <3>2. pc'[w] # "insert"
      BY <2>1, <2>2
    <3> QED BY <1>1, <1>2, <2>1, <2>3, <3>1, <3>2 DEF SourceInv, ReadInv, Others
  <2>6. ReadCurrent'
    <3>1. ASSUME pc'[w] = ret[w], f \notin unseen PROVE got'[w] = disk[f].src
      BY <1>2, <2>1, <2>2, <3>1, NotExcused DEF SourceInv, CacheInv
    <3> QED BY <1>1, <1>2, <2>1, <2>2, <3>1 DEF SourceInv, ReadCurrent, Others
  <2>7. EditInv' /\ UndoInv' /\ RefreshInv'
    BY <1>1, <1>2, <2>1, <2>2 DEF SourceInv, EditInv, UndoInv, RefreshInv, Others
  <2> QED BY <2>4, <2>5, <2>6, <2>7 DEF SourceInv
<1> QED BY <1>3, <1>4

\* The read itself.
LEMMA ReadBytesSource ==
    ASSUME TInv, SourceInv, Orderly, NEW w \in Workers, ReadBytes(w)
    PROVE  SourceInv'
<1> DEFINE f == file[w]
<1>1. Others(w)
  BY StepOthers DEF Step
<1>2. UNCHANGED <<mix, disk, cache, index, unseen, torn>> /\ pc[w] = "read" /\ f \in Files
  BY DEF ReadBytes, TInv
<1>3. CASE disk[f].src = Absent
  <2>1. pc'[w] \in {"scan", "compile", "idle", "stat"}
    <3>1. ReadError(w)
      BY <1>3 DEF ReadBytes
    <3> QED BY <3>1 DEF ReadError, Return, TInv
  <2> QED BY <1>1, <1>2, <2>1, QuietSource DEF Quiet
<1>4. CASE disk[f].src # Absent
  <2>1. pc'[w] = "insert" /\ got'[w] = disk[f].src /\ UNCHANGED <<stamp, file, built, ret>>
    BY <1>4 DEF ReadBytes, TInv
  <2>3. ASSUME NEW g \in Files PROVE MidEdit(g)' = MidEdit(g) /\ Excused(g)' = Excused(g)
    BY <1>1, <1>2, <2>1 DEF Others, MidEdit, Excused
  <2>4. CacheInv' /\ FactsInv'
    BY <1>2, <2>3 DEF SourceInv, CacheInv, FactsInv
  <2>5. ReadInv'
    <3>1. ASSUME NEW v \in Workers \ {w}, pc[v] \in {"read", "insert"} PROVE file[v] \in Files
      BY <3>1 DEF TInv
    <3> QED BY <1>1, <1>2, <2>1, <2>3, <3>1 DEF SourceInv, ReadInv, Others
  <2>6. ReadCurrent'
    BY <1>1, <1>2, <2>1 DEF SourceInv, ReadCurrent, Others
  <2>7. EditInv' /\ UndoInv' /\ RefreshInv'
    BY <1>1, <1>2, <2>1 DEF SourceInv, EditInv, UndoInv, RefreshInv, Others
  <2> QED BY <2>4, <2>5, <2>6, <2>7 DEF SourceInv
<1> QED BY <1>3, <1>4

\* The insertion.
LEMMA ReadInsertSource ==
    ASSUME TInv, SourceInv, Orderly, NEW w \in Workers, ReadInsert(w)
    PROVE  SourceInv'
<1> DEFINE f == file[w]
<1>1. Others(w)
  BY StepOthers DEF Step
<1>2. /\ UNCHANGED <<mix, disk, index, unseen, torn, ret, file, got, stamp, built>>
      /\ pc[w] = "insert" /\ pc'[w] = ret[w] /\ f \in Files /\ ret[w] \in ReadFor
      /\ cache' = [cache EXCEPT ![f] = [src |-> got[w], stamp |-> stamp[w]]]
  BY DEF ReadInsert, TInv
<1>3. ASSUME NEW g \in Files PROVE MidEdit(g)' = MidEdit(g) /\ Excused(g)' = Excused(g)
  BY <1>1, <1>2 DEF Others, MidEdit, Excused
<1>4. CacheInv'
  <2>1. stamp[w] <= disk[f].stamp
        /\ (stamp[w] = disk[f].stamp /\ ~Excused(f) => got[w] = disk[f].src)
    BY <1>2 DEF SourceInv, ReadInv
  <2>2. cache'[f] = [src |-> got[w], stamp |-> stamp[w]] /\ \A g \in Files \ {f} : cache'[g] = cache[g]
    BY <1>2 DEF TInv
  <2> QED BY <1>2, <1>3, <2>1, <2>2 DEF SourceInv, CacheInv
<1>5. FactsInv'
  BY <1>2, <1>3 DEF SourceInv, FactsInv
<1>6. ReadInv'
  <2>1. ASSUME NEW v \in Workers \ {w}, pc[v] \in {"read", "insert"} PROVE file[v] \in Files
    BY <2>1 DEF TInv
  <2> QED BY <1>1, <1>2, <1>3, <2>1 DEF SourceInv, ReadInv, Others
<1>7. ReadCurrent'
  BY <1>1, <1>2 DEF SourceInv, ReadCurrent, Others
<1>8. EditInv' /\ UndoInv'
  BY <1>1, <1>2 DEF SourceInv, EditInv, UndoInv, Others
<1>9. RefreshInv'
  <2>1. ASSUME mix.serial, NEW v \in Workers PROVE pc'[v] \notin RefreshAt
    BY <1>1, <1>2, <2>1, AloneWhenSerial DEF Others
  <2> QED BY <1>2, <2>1 DEF RefreshInv
<1> QED BY <1>4, <1>5, <1>6, <1>7, <1>8, <1>9 DEF SourceInv

\* Publishing what was just read, in the clock or alone.
LEMMA PublishSource ==
    ASSUME TInv, SourceInv, NEW w \in Workers, Others(w), NEW r,
           UNCHANGED <<mix, disk, cache, unseen, torn>>,
           pc[w] \in {"checked", "inspectPublish"}, mix.serial \/ Where(w) = "checked",
           index' \in {index, [index EXCEPT ![file[w]] = r]}, r.src = got[w],
           pc'[w] \in {"idle", "compile"}
    PROVE  SourceInv'
<1>1. ASSUME NEW f \in Files PROVE MidEdit(f)' = MidEdit(f) /\ Excused(f)' = Excused(f)
  BY DEF Others, MidEdit, Excused
<1>2. CacheInv'
  BY <1>1 DEF SourceInv, CacheInv
<1>3. FactsInv'
  <2>1. file[w] \in Files /\ (file[w] \notin unseen => got[w] = disk[file[w]].src)
    BY DEF TInv, SourceInv, ReadCurrent
  <2>2. \A f \in Files : index'[f] = index[f] \/ (f = file[w] /\ index'[f] = r)
    BY DEF TInv
  <2> QED BY <1>1, <2>1, <2>2 DEF SourceInv, FactsInv
<1>4. ReadInv'
  <2>1. ASSUME NEW v \in Workers \ {w}, pc[v] \in {"read", "insert"} PROVE file[v] \in Files
    BY <2>1 DEF TInv
  <2> QED BY <1>1, <2>1 DEF SourceInv, ReadInv, Others
<1>5. ReadCurrent' /\ EditInv'
  BY DEF SourceInv, ReadCurrent, EditInv, Others
<1>6. RefreshInv' /\ UndoInv'
  <2>1. ASSUME mix.serial, NEW v \in Workers PROVE pc'[v] \notin RefreshAt \union EditAt
    BY <2>1, AloneWhenSerial DEF Others
  <2> QED BY <2>1 DEF RefreshInv, UndoInv
<1> QED BY <1>2, <1>3, <1>4, <1>5, <1>6 DEF SourceInv

\* The two publications of a query and of entities_in_file.
LEMMA CommitSource ==
    ASSUME TInv, SourceInv, Orderly, NEW w \in Workers
    PROVE  /\ Commit(w) => SourceInv'
           /\ InspectPublish(w) => SourceInv'
<1>1. ASSUME Commit(w) PROVE SourceInv'
  <2>1. Others(w)
    BY <1>1, StepOthers DEF Step
  <2>2. pc[w] = "checked" /\ pc'[w] = "compile" /\ UNCHANGED <<mix, disk, cache, unseen, torn>>
    BY <1>1 DEF Commit, TInv
  <2>3. CASE Publishable(w)
    <3> DEFINE r == [src |-> built[w], covered |-> req[w] = "semantic"]
    <3>1. index' \in {index, [index EXCEPT ![file[w]] = r]}
      BY <1>1, <2>3 DEF Commit
    <3>2. r.src = got[w]
      BY <2>3 DEF Publishable
    <3> HIDE DEF r
    <3> QED BY <2>1, <2>2, <3>1, <3>2, PublishSource
  <2>4. CASE ~ Publishable(w)
    <3>1. UNCHANGED index
      BY <1>1, <2>4 DEF Commit
    <3> QED BY <2>1, <2>2, <3>1, QuietSource DEF Quiet
  <2> QED BY <2>3, <2>4
<1>2. ASSUME InspectPublish(w) PROVE SourceInv'
  <2> DEFINE r == [src |-> got[w], covered |-> TRUE]
  <2>1. Others(w)
    BY <1>2, StepOthers DEF Step
  <2>2. pc[w] = "inspectPublish" /\ pc'[w] = "idle" /\ UNCHANGED <<mix, disk, cache, unseen, torn>>
        /\ index' = [index EXCEPT ![file[w]] = r]
    BY <1>2 DEF InspectPublish, Return, TInv
  <2>3. mix.serial
    BY <2>2 DEF TInv, Orderly
  <2>4. r.src = got[w]
    OBVIOUS
  <2> HIDE DEF r
  <2> QED BY <2>1, <2>2, <2>3, <2>4, PublishSource
<1> QED BY <1>1, <1>2

\* The comparison of an edit, in the clock.
LEMMA EditCheckSource ==
    ASSUME TInv, SourceInv, NEW w \in Workers, EditCheck(w)
    PROVE  SourceInv'
<1>1. Others(w)
  BY StepOthers DEF Step
<1>2. /\ UNCHANGED <<mix, disk, cache, index, unseen, torn, ret, file, got, stamp, built>>
      /\ pc[w] = "editCommit" /\ pc'[w] = "editRename" /\ disk[file[w]].src = got[w]
  BY DEF EditCheck, TInv
<1>3. ASSUME NEW f \in Files PROVE MidEdit(f)' = MidEdit(f) /\ Excused(f)' = Excused(f)
  BY <1>1, <1>2 DEF Others, MidEdit, Excused
<1>4. CacheInv' /\ FactsInv'
  BY <1>2, <1>3 DEF SourceInv, CacheInv, FactsInv
<1>5. ReadInv'
  <2>1. ASSUME NEW v \in Workers \ {w}, pc[v] \in {"read", "insert"} PROVE file[v] \in Files
    BY <2>1 DEF TInv
  <2> QED BY <1>1, <1>2, <1>3, <2>1 DEF SourceInv, ReadInv, Others
<1>6. ReadCurrent' /\ EditInv' /\ UndoInv' /\ RefreshInv'
  BY <1>1, <1>2 DEF SourceInv, ReadCurrent, EditInv, UndoInv, RefreshInv, Others
<1> QED BY <1>4, <1>5, <1>6 DEF SourceInv

\* The rename of an edit, in the clock: no one else holds what it overwrites.
LEMMA EditRenameSource ==
    ASSUME TInv, SourceInv, Orderly, NEW w \in Workers, EditRename(w)
    PROVE  SourceInv'
<1> DEFINE f == file[w]
<1>1. Others(w)
  BY StepOthers DEF Step
<1>2. /\ UNCHANGED <<mix, cache, index, unseen, torn, ret, file, got, stamp, built>>
      /\ pc[w] = "editRename" /\ pc'[w] = "editCache" /\ f \in Files /\ clock[f] = w
  BY DEF EditRename, TInv
<1>3. PICK t \in NewStamp(f) : disk' = [disk EXCEPT ![f] = [src |-> built[w], stamp |-> t]]
  BY DEF EditRename
<1>4. /\ disk'[f].src = built[w] /\ disk'[f].stamp = t
      /\ \A g \in Files \ {f} : disk'[g] = disk[g]
  BY <1>2, <1>3 DEF TInv
<1>5. disk[f].stamp \in Nat /\ t \in Nat /\ t >= disk[f].stamp /\ (~mix.hidden => t > disk[f].stamp)
  <2>1. disk[f].stamp \in Nat
    BY <1>2 DEF TInv
  <2> QED BY <1>3, <2>1 DEF NewStamp
<1>6. ASSUME NEW g \in Files, g # f PROVE MidEdit(g)' = MidEdit(g) /\ Excused(g)' = Excused(g)
  BY <1>1, <1>2, <1>6 DEF Others, MidEdit, Excused
<1>7. MidEdit(f)' /\ (mix.hidden => Excused(f)')
  BY <1>2 DEF MidEdit, Excused
<1>8. CacheInv'
  <2>1. ASSUME NEW g \in Files, cache[g] # None
        PROVE  /\ cache[g].stamp <= disk'[g].stamp
               /\ cache[g].stamp = disk'[g].stamp /\ ~Excused(g)' => cache[g].src = disk'[g].src
    <3>1. cache[g].stamp \in Nat /\ cache[g].stamp <= disk[g].stamp
          /\ (cache[g].stamp = disk[g].stamp /\ ~Excused(g) => cache[g].src = disk[g].src)
      BY <2>1 DEF TInv, SourceInv, CacheInv
    <3> QED BY <1>2, <1>4, <1>5, <1>6, <1>7, <3>1
  <2> QED BY <1>2, <2>1 DEF CacheInv
<1>9. FactsInv'
  BY <1>2, <1>4, <1>6, <1>7 DEF SourceInv, FactsInv
<1>10. ReadInv'
  <2>1. ASSUME NEW v \in Workers \ {w}, pc[v] \in {"read", "insert"}
        PROVE  /\ stamp[v] <= disk'[file[v]].stamp
               /\ pc[v] = "insert" /\ stamp[v] = disk'[file[v]].stamp /\ ~Excused(file[v])'
                     => got[v] = disk'[file[v]].src
    <3>1. file[v] \in Files /\ stamp[v] \in Nat /\ stamp[v] <= disk[file[v]].stamp
          /\ (pc[v] = "insert" /\ stamp[v] = disk[file[v]].stamp /\ ~Excused(file[v])
                 => got[v] = disk[file[v]].src)
      BY <2>1 DEF TInv, SourceInv, ReadInv
    <3> QED BY <1>2, <1>4, <1>5, <1>6, <1>7, <3>1
  <2> QED BY <1>1, <1>2, <2>1 DEF ReadInv, Others
<1>11. ReadCurrent'
  <2>1. ASSUME NEW v \in Workers \ {w}, mix.serial \/ Where(v) = "checked", pc[v] # "idle"
        PROVE  file[v] # f
    <3>1. ~ mix.serial
      BY <1>2, <2>1, AloneWhenSerial
    <3> QED BY <1>2, <2>1, <3>1 DEF TInv
  <2>2. ASSUME NEW v \in Workers \ {w}, pc[v] \in {"insert", "checked", "inspectPublish", "recovered"}
        PROVE  file[v] \in Files
    BY <2>2 DEF TInv
  <2> QED BY <1>1, <1>2, <1>4, <2>1, <2>2 DEF SourceInv, ReadCurrent, Others
<1>12. EditInv'
  <2>1. ASSUME NEW v \in Workers \ {w}, pc[v] \in {"editRename", "editCache", "editPublish"}
        PROVE  file[v] \in Files /\ file[v] # f
    <3>1. Holds(v)
      BY <2>1
    <3>2. clock[file[v]] = v /\ file[v] \in Files
      BY <2>1, <3>1 DEF TInv
    <3> QED BY <1>2, <3>2
  <2> QED BY <1>1, <1>2, <1>4, <2>1 DEF SourceInv, EditInv, Others
<1>13. RefreshInv'
  BY <1>1, <1>2 DEF SourceInv, RefreshInv, Others
<1>14. UndoInv'
  <2> SUFFICES ASSUME mix.serial, f \notin unseen \union torn, index[f] # None PROVE index[f].src = got[w]
    <3>1. mix.serial => \A v \in Workers \ {w} : pc'[v] = "idle"
      BY <1>1, <1>2, AloneWhenSerial DEF Others
    <3> QED BY <1>2, <3>1 DEF UndoInv
  <2>1. ~MidEdit(f)
    BY <1>2, AloneWhenSerial DEF MidEdit
  <2> QED BY <1>2, <2>1 DEF SourceInv, FactsInv, EditInv
<1> QED BY <1>8, <1>9, <1>10, <1>11, <1>12, <1>13, <1>14 DEF SourceInv

\* The invalidation and the publication of an edit.
LEMMA EditPublishSource ==
    ASSUME TInv, SourceInv, Orderly, NEW w \in Workers
    PROVE  /\ EditCache(w) => SourceInv'
           /\ EditPublish(w) => SourceInv'
<1> DEFINE f == file[w]
<1>1. ASSUME EditCache(w) PROVE SourceInv'
  <2>1. Others(w)
    BY <1>1, StepOthers DEF Step
  <2>2. /\ UNCHANGED <<mix, disk, index, unseen, torn, ret, file, got, stamp, built>>
        /\ pc[w] = "editCache" /\ pc'[w] = "editPublish" /\ f \in Files
        /\ cache'[f] = None /\ \A g \in Files \ {f} : cache'[g] = cache[g]
    BY <1>1 DEF EditCache, TInv
  <2>3. ASSUME NEW g \in Files PROVE MidEdit(g)' = MidEdit(g) /\ (g # f => Excused(g)' = Excused(g))
    BY <2>1, <2>2 DEF Others, MidEdit, Excused
  <2>4. CacheInv' /\ FactsInv'
    BY <2>2, <2>3 DEF SourceInv, CacheInv, FactsInv
  <2>5. ReadInv'
    <3>1. ASSUME NEW v \in Workers \ {w}, pc[v] \in {"read", "insert"}
          PROVE  file[v] \in Files /\ ~mix.hidden
      BY <2>2, <3>1, SerialOrNot, AloneWhenSerial DEF TInv
    <3> QED BY <2>1, <2>2, <3>1 DEF SourceInv, ReadInv, Others, Excused
  <2>6. ReadCurrent' /\ EditInv' /\ UndoInv' /\ RefreshInv'
    BY <2>1, <2>2 DEF SourceInv, ReadCurrent, EditInv, UndoInv, RefreshInv, Others
  <2> QED BY <2>4, <2>5, <2>6 DEF SourceInv
<1>2. ASSUME EditPublish(w) PROVE SourceInv'
  <2>1. Others(w)
    BY <1>2, StepOthers DEF Step
  <2>2. /\ UNCHANGED <<mix, disk, cache, unseen, ret, file, got, stamp, built>>
        /\ pc[w] = "editPublish" /\ pc'[w] = "editDiscovery" /\ f \in Files /\ torn' = torn \ {f}
        /\ index'[f] \in {None, [src |-> built[w], covered |-> FALSE]}
        /\ \A g \in Files \ {f} : index'[g] = index[g]
    BY <1>2 DEF EditPublish, TInv
  <2>3. ASSUME NEW g \in Files PROVE Excused(g)' = Excused(g) /\ (g # f => MidEdit(g)' = MidEdit(g))
    BY <2>1, <2>2 DEF Others, MidEdit, Excused
  <2>4. CacheInv'
    BY <2>2, <2>3 DEF SourceInv, CacheInv
  <2>5. FactsInv'
    <3>1. f \notin unseen => built[w] = disk[f].src
      BY <2>2 DEF SourceInv, EditInv
    <3> QED BY <2>2, <2>3, <3>1 DEF SourceInv, FactsInv
  <2>6. ReadInv'
    <3>1. ASSUME NEW v \in Workers \ {w}, pc[v] \in {"read", "insert"} PROVE file[v] \in Files
      BY <3>1 DEF TInv
    <3> QED BY <2>1, <2>2, <2>3, <3>1 DEF SourceInv, ReadInv, Others
  <2>7. ReadCurrent' /\ EditInv'
    BY <2>1, <2>2 DEF SourceInv, ReadCurrent, EditInv, Others
  <2>8. RefreshInv' /\ UndoInv'
    <3>1. ASSUME mix.serial, NEW v \in Workers
          PROVE  pc'[v] \notin RefreshAt \union {"editCache", "editPublish"}
      BY <2>1, <2>2, <3>1, AloneWhenSerial DEF Others
    <3> QED BY <2>2, <3>1 DEF RefreshInv, UndoInv
  <2> QED BY <2>4, <2>5, <2>6, <2>7, <2>8 DEF SourceInv
<1> QED BY <1>1, <1>2

\* An edit that fails after its rename: what is put back is what the index knows.
LEMMA EditUndoSource ==
    ASSUME TInv, SourceInv, Orderly, NEW w \in Workers
    PROVE  /\ EditRestore(w) => SourceInv'
           /\ EditRestored(w) => SourceInv'
           /\ EditTorn(w) => SourceInv'
<1> DEFINE f == file[w]
<1>1. ASSUME EditRestore(w) PROVE SourceInv'
  <2>1. Others(w)
    BY <1>1, StepOthers DEF Step
  <2>2. /\ UNCHANGED <<mix, cache, index, unseen, torn, file>> /\ mix.serial /\ f \in Files
        /\ pc[w] = "editPublish" /\ pc'[w] = "editRestored"
    BY <1>1 DEF EditRestore, TInv, Orderly
  <2>3. PICK t \in NewStamp(f) : disk' = [disk EXCEPT ![f] = [src |-> got[w], stamp |-> t]]
    BY <1>1 DEF EditRestore
  <2>4. /\ disk'[f].src = got[w] /\ disk'[f].stamp = t /\ \A g \in Files \ {f} : disk'[g] = disk[g]
    BY <2>2, <2>3 DEF TInv
  <2>5. disk[f].stamp \in Nat /\ t \in Nat /\ t >= disk[f].stamp /\ (~mix.hidden => t > disk[f].stamp)
    <3>1. disk[f].stamp \in Nat
      BY <2>2 DEF TInv
    <3> QED BY <2>3, <3>1 DEF NewStamp
  <2>6. ASSUME NEW g \in Files, g # f PROVE MidEdit(g)' = MidEdit(g) /\ Excused(g)' = Excused(g)
    BY <2>1, <2>2, <2>6 DEF Others, MidEdit, Excused
  <2>7. mix.hidden => Excused(f)'
    BY <2>2 DEF Excused
  <2>8. CacheInv'
    <3>1. ASSUME NEW g \in Files, cache[g] # None
          PROVE  /\ cache[g].stamp <= disk'[g].stamp
                 /\ cache[g].stamp = disk'[g].stamp /\ ~Excused(g)' => cache[g].src = disk'[g].src
      <4>1. cache[g].stamp \in Nat /\ cache[g].stamp <= disk[g].stamp
            /\ (cache[g].stamp = disk[g].stamp /\ ~Excused(g) => cache[g].src = disk[g].src)
        BY <3>1 DEF TInv, SourceInv, CacheInv
      <4> QED BY <2>2, <2>4, <2>5, <2>6, <2>7, <4>1
    <3> QED BY <2>2, <3>1 DEF CacheInv
  <2>9. FactsInv'
    <3>1. f \notin unseen \union torn /\ index[f] # None => index[f].src = got[w]
      BY <2>2 DEF SourceInv, UndoInv
    <3> QED BY <2>2, <2>4, <2>6, <3>1 DEF SourceInv, FactsInv
  <2> QED BY <2>1, <2>2, <2>8, <2>9, AloneSource
<1>2. ASSUME EditRestored(w) PROVE SourceInv'
  <2>1. Others(w)
    BY <1>2, StepOthers DEF Step
  <2>2. /\ UNCHANGED <<mix, disk, index, unseen, torn>> /\ f \in Files
        /\ pc[w] = "editRestored" /\ pc'[w] = "idle"
        /\ cache'[f] = None /\ \A g \in Files \ {f} : cache'[g] = cache[g]
    BY <1>2 DEF EditRestored, Return, TInv
  <2>3. mix.serial
    BY <2>2 DEF TInv, Orderly
  <2>4. ASSUME NEW g \in Files PROVE MidEdit(g)' = MidEdit(g) /\ (g # f => Excused(g)' = Excused(g))
    BY <2>1, <2>2 DEF Others, MidEdit, Excused
  <2>5. CacheInv' /\ FactsInv'
    BY <2>2, <2>4 DEF SourceInv, CacheInv, FactsInv
  <2> QED BY <2>1, <2>2, <2>3, <2>5, AloneSource
<1>3. ASSUME EditTorn(w) PROVE SourceInv'
  <2>1. Others(w)
    BY <1>3, StepOthers DEF Step
  <2>2. /\ UNCHANGED <<mix, disk, cache, index, unseen>> /\ mix.serial /\ f \in Files
        /\ pc[w] = "editPublish" /\ pc'[w] = "idle" /\ torn' = torn \union {f}
    BY <1>3 DEF EditTorn, Return, TInv, Orderly
  <2>4. ASSUME NEW g \in Files PROVE Excused(g)' = Excused(g) /\ (g # f => MidEdit(g)' = MidEdit(g))
    BY <2>1, <2>2 DEF Others, MidEdit, Excused
  <2>5. CacheInv' /\ FactsInv'
    BY <2>2, <2>4 DEF SourceInv, CacheInv, FactsInv
  <2> QED BY <2>1, <2>2, <2>5, AloneSource
<1> QED BY <1>1, <1>2, <1>3

\* A recovered context is published if it is of the bytes that were just read.
LEMMA RecoveredSource ==
    ASSUME TInv, SourceInv, Orderly, NEW w \in Workers, HydrateRecovered(w)
    PROVE  SourceInv'
<1> DEFINE f == file[w]
<1>1. Others(w)
  BY StepOthers DEF Step
<1>2. UNCHANGED <<mix, disk, cache, unseen>> /\ pc[w] = "recovered" /\ pc'[w] = "stat" /\ f \in Files
  BY DEF HydrateRecovered, TInv
<1>3. mix.serial
  BY <1>2 DEF TInv, Orderly
<1>4. ASSUME NEW g \in Files PROVE MidEdit(g)' = MidEdit(g) /\ Excused(g)' = Excused(g)
  BY <1>1, <1>2 DEF Others, MidEdit, Excused
<1>5. CacheInv'
  BY <1>2, <1>4 DEF SourceInv, CacheInv
<1>6. FactsInv'
  <2>1. CASE UNCHANGED <<index, torn>>
    BY <1>2, <1>4, <2>1 DEF SourceInv, FactsInv
  <2>2. CASE ~ UNCHANGED <<index, torn>>
    <3>1. /\ got[w] = built[w] /\ torn' = torn \ {f}
          /\ \E covered \in BOOLEAN :
                index' = [index EXCEPT ![f] =
                            IF covered \/ built[w] \in Mentions
                            THEN [src |-> built[w], covered |-> covered] ELSE None]
      BY <2>2 DEF HydrateRecovered
    <3>2. index'[f] = None \/ index'[f].src = got[w]
      BY <1>2, <3>1 DEF TInv
    <3>3. \A g \in Files \ {f} : index'[g] = index[g]
      BY <3>1 DEF TInv
    <3>4. f \notin unseen => got[w] = disk[f].src
      BY <1>2, <1>3 DEF SourceInv, ReadCurrent
    <3> QED BY <1>2, <1>4, <3>1, <3>2, <3>3, <3>4 DEF SourceInv, FactsInv
  <2> QED BY <2>1, <2>2
<1> QED BY <1>1, <1>2, <1>3, <1>5, <1>6, AloneSource

\* The three sections of a refresh: in an orderly session it runs alone.
LEMMA RefreshSource ==
    ASSUME TInv, SourceInv, Orderly, NEW w \in Workers
    PROVE  /\ RefreshCache(w) => SourceInv'
           /\ RefreshIndex(w) => SourceInv'
           /\ RefreshDiscovery(w) => SourceInv'
<1>0. ASSUME pc[w] \in RefreshAt PROVE mix.serial /\ \A v \in Workers \ {w} : pc[v] = "idle"
  <2>1. mix.serial
    BY <1>0 DEF TInv, Orderly
  <2> QED BY <1>0, <2>1, AloneWhenSerial
<1>1. ASSUME RefreshCache(w) PROVE SourceInv'
  <2>1. Others(w)
    BY <1>1, StepOthers DEF Step
  <2>2. UNCHANGED <<mix, disk, index, unseen, torn>> /\ pc[w] = "refreshCache" /\ pc'[w] = "refreshIndex"
        /\ \A f \in Files : cache'[f] = None
    BY <1>1 DEF RefreshCache, TInv
  <2>3. \A v \in Workers \ {w} : pc'[v] = "idle"
    BY <1>0, <2>1, <2>2 DEF Others
  <2>4. FactsInv'
    BY <1>0, <2>2, <2>3 DEF SourceInv, FactsInv, MidEdit
  <2> QED BY <2>2, <2>3, <2>4 DEF SourceInv, CacheInv, ReadInv, ReadCurrent, EditInv, UndoInv, RefreshInv
<1>2. ASSUME RefreshIndex(w) PROVE SourceInv'
  <2>1. Others(w)
    BY <1>2, StepOthers DEF Step
  <2>2. UNCHANGED <<mix, disk, cache, unseen>> /\ pc[w] = "refreshIndex" /\ pc'[w] = "refreshDiscovery"
        /\ \A f \in Files : index'[f] = None
    BY <1>2 DEF RefreshIndex, TInv
  <2>3. \A v \in Workers \ {w} : pc'[v] = "idle"
    BY <1>0, <2>1, <2>2 DEF Others
  <2>4. \A f \in Files : cache'[f] = None
    BY <1>0, <2>2 DEF SourceInv, RefreshInv
  <2> QED BY <2>2, <2>3, <2>4 DEF SourceInv, CacheInv, ReadInv, ReadCurrent, EditInv, UndoInv, RefreshInv, FactsInv
<1>3. ASSUME RefreshDiscovery(w) PROVE SourceInv'
  <2>1. Others(w)
    BY <1>3, StepOthers DEF Step
  <2>2. UNCHANGED <<mix, disk, cache, index>> /\ pc[w] = "refreshDiscovery" /\ pc'[w] = "idle"
    BY <1>3 DEF RefreshDiscovery, Return, TInv
  <2>3. \A v \in Workers : pc'[v] = "idle"
    BY <1>0, <2>1, <2>2 DEF Others
  <2>4. \A f \in Files : cache'[f] = None /\ index'[f] = None
    BY <1>0, <2>2 DEF SourceInv, RefreshInv
  <2> QED BY <2>2, <2>3, <2>4 DEF SourceInv, CacheInv, ReadInv, ReadCurrent, EditInv, UndoInv, RefreshInv, FactsInv
<1> QED BY <1>1, <1>2, <1>3

\* Another program writes.
LEMMA OutsideWriteSource ==
    ASSUME TInv, SourceInv, Orderly, NEW f \in Files, OutsideWrite(f)
    PROVE  SourceInv'
<1>1. UNCHANGED <<mix, cache, index, torn, pc, ret, file, got, stamp, built>> /\ unseen' = unseen \union {f}
  BY DEF OutsideWrite
<1>2. PICK c \in Bytes, t \in NewStamp(f) : disk' = [disk EXCEPT ![f] = [src |-> c, stamp |-> t]]
  BY DEF OutsideWrite
<1>3. /\ disk'[f].src = c /\ disk'[f].stamp = t /\ \A g \in Files \ {f} : disk'[g] = disk[g]
  BY <1>2 DEF TInv
<1>4. disk[f].stamp \in Nat /\ t \in Nat /\ t >= disk[f].stamp /\ (~mix.hidden => t > disk[f].stamp)
  <2>1. disk[f].stamp \in Nat
    BY DEF TInv
  <2> QED BY <1>2, <2>1 DEF NewStamp
<1>5. ASSUME NEW g \in Files PROVE MidEdit(g)' = MidEdit(g) /\ (g # f => Excused(g)' = Excused(g))
  BY <1>1 DEF MidEdit, Excused
<1>6. mix.hidden => Excused(f)'
  BY <1>1 DEF Excused
<1>7. CacheInv'
  <2>1. ASSUME NEW g \in Files, cache[g] # None
        PROVE  /\ cache[g].stamp <= disk'[g].stamp
               /\ cache[g].stamp = disk'[g].stamp /\ ~Excused(g)' => cache[g].src = disk'[g].src
    <3>1. cache[g].stamp \in Nat /\ cache[g].stamp <= disk[g].stamp
          /\ (cache[g].stamp = disk[g].stamp /\ ~Excused(g) => cache[g].src = disk[g].src)
      BY <2>1 DEF TInv, SourceInv, CacheInv
    <3> QED BY <1>1, <1>3, <1>4, <1>5, <1>6, <3>1
  <2> QED BY <1>1, <2>1 DEF CacheInv
<1>8. FactsInv'
  BY <1>1, <1>3, <1>5 DEF SourceInv, FactsInv
<1>9. ReadInv'
  <2>1. ASSUME NEW v \in Workers, pc[v] \in {"read", "insert"}
        PROVE  /\ stamp[v] <= disk'[file[v]].stamp
               /\ pc[v] = "insert" /\ stamp[v] = disk'[file[v]].stamp /\ ~Excused(file[v])'
                     => got[v] = disk'[file[v]].src
    <3>1. file[v] \in Files /\ stamp[v] \in Nat /\ stamp[v] <= disk[file[v]].stamp
          /\ (pc[v] = "insert" /\ stamp[v] = disk[file[v]].stamp /\ ~Excused(file[v])
                 => got[v] = disk[file[v]].src)
      BY <2>1 DEF TInv, SourceInv, ReadInv
    <3> QED BY <1>1, <1>3, <1>4, <1>5, <1>6, <3>1
  <2> QED BY <1>1, <2>1 DEF ReadInv
<1>10. ReadCurrent' /\ EditInv'
  <2>1. ASSUME NEW v \in Workers,
               pc[v] \in {"insert", "checked", "inspectPublish", "recovered", "editRename",
                         "editCache", "editPublish"}
        PROVE  file[v] \in Files
    BY <2>1 DEF TInv
  <2> QED BY <1>1, <1>3, <2>1 DEF SourceInv, ReadCurrent, EditInv
<1>11. RefreshInv' /\ UndoInv'
  BY <1>1 DEF SourceInv, RefreshInv, UndoInv
<1> QED BY <1>7, <1>8, <1>9, <1>10, <1>11 DEF SourceInv

\* The steps that are quiet.
QuietAction(w) ==
    \/ \E o \in mix.handlers : Begin(w, o)
    \/ DiscoverFiles(w) \/ DiscoverCached(w) \/ DiscoverGraph(w) \/ DiscoverFails(w)
    \/ ScanNext(w) \/ Scanned(w) \/ ScanDone(w) \/ Select(w)
    \/ CompileNext(w) \/ Hashed(w) \/ Compiled(w)
    \/ CommitSuperseded(w) \/ CommitCheck(w) \/ Answer(w)
    \/ PreflightNone(w) \/ PreflightRecovers(w) \/ PreflightFails(w)
    \/ EditBegin(w) \/ EditRead(w) \/ EditRecovered(w) \/ EditRenameFails(w)
    \/ Inspected(w) \/ EditRefused(w) \/ EditDiscovery(w)
    \/ Reindex(w) \/ ReindexFails(w)

\* They are.
LEMMA QuietActions == ASSUME TInv, NEW w \in Workers, QuietAction(w) PROVE Quiet(w)
<1>1. ASSUME NEW o \in mix.handlers, Begin(w, o) PROVE Quiet(w)
  <2>1. o \in Handlers
    BY DEF TInv, MixType
  <2> QED BY <1>1, <2>1 DEF Begin, TInv, Handlers, Quiet
<1>2. ASSUME DiscoverFiles(w) PROVE Quiet(w)
  BY <1>2 DEF DiscoverFiles, Scan, TInv, Quiet
<1>3. ASSUME DiscoverCached(w) PROVE Quiet(w)
  BY <1>3 DEF DiscoverCached, TInv, Quiet
<1>4. ASSUME DiscoverGraph(w) PROVE Quiet(w)
  BY <1>4 DEF DiscoverGraph, TInv, Quiet
<1>5. ASSUME DiscoverFails(w) PROVE Quiet(w)
  BY <1>5 DEF DiscoverFails, Scan, TInv, Quiet
<1>6. ASSUME ScanNext(w) PROVE Quiet(w)
  BY <1>6 DEF ScanNext, TInv, Quiet
<1>7. ASSUME Scanned(w) PROVE Quiet(w)
  BY <1>7 DEF Scanned, TInv, Quiet
<1>8. ASSUME ScanDone(w) PROVE Quiet(w)
  BY <1>8 DEF ScanDone, TInv, Quiet
<1>9. ASSUME Select(w) PROVE Quiet(w)
  BY <1>9 DEF Select, TInv, Quiet
<1>10. ASSUME CompileNext(w) PROVE Quiet(w)
  BY <1>10 DEF CompileNext, Compile, NextGeneration, TInv, Quiet
<1>11. ASSUME Hashed(w) PROVE Quiet(w)
  BY <1>11 DEF Hashed, Compile, TInv, Quiet
<1>12. ASSUME Compiled(w) PROVE Quiet(w)
  BY <1>12 DEF Compiled, TInv, Quiet
<1>13. ASSUME CommitSuperseded(w) PROVE Quiet(w)
  BY <1>13 DEF CommitSuperseded, TInv, Quiet
<1>14. ASSUME CommitCheck(w) PROVE Quiet(w)
  BY <1>14 DEF CommitCheck, TInv, Quiet
<1>15. ASSUME Answer(w) PROVE Quiet(w)
  BY <1>15 DEF Answer, Return, TInv, Quiet
<1>16. ASSUME Inspected(w) PROVE Quiet(w)
  BY <1>16 DEF Inspected, Compile, Return, TInv, Quiet
<1>17. ASSUME EditRefused(w) PROVE Quiet(w)
  BY <1>17 DEF EditRefused, Return, TInv, Quiet
<1>18. ASSUME EditDiscovery(w) PROVE Quiet(w)
  BY <1>18 DEF EditDiscovery, Return, TInv, Quiet
<1>19. ASSUME Reindex(w) PROVE Quiet(w)
  BY <1>19 DEF Reindex, TInv, Quiet
<1>20. ASSUME ReindexFails(w) PROVE Quiet(w)
  BY <1>20 DEF ReindexFails, Return, TInv, Quiet
<1>21. ASSUME PreflightNone(w) PROVE Quiet(w)
  BY <1>21 DEF PreflightNone, TInv, Quiet
<1>22. ASSUME PreflightRecovers(w) PROVE Quiet(w)
  BY <1>22 DEF PreflightRecovers, TInv, Quiet
<1>23. ASSUME PreflightFails(w) PROVE Quiet(w)
  BY <1>23 DEF PreflightFails, Return, TInv, Quiet
<1>24. ASSUME EditBegin(w) PROVE Quiet(w)
  BY <1>24 DEF EditBegin, NextGeneration, TInv, Quiet
<1>25. ASSUME EditRead(w) PROVE Quiet(w)
  BY <1>25 DEF EditRead, TInv, Quiet
<1>26. ASSUME EditRecovered(w) PROVE Quiet(w)
  BY <1>26 DEF EditRecovered, Return, TInv, Quiet
<1>27. ASSUME EditRenameFails(w) PROVE Quiet(w)
  BY <1>27 DEF EditRenameFails, Return, TInv, Quiet
<1> QED BY <1>1, <1>2, <1>3, <1>4, <1>5, <1>6, <1>7, <1>8, <1>9, <1>10, <1>11, <1>12,
       <1>13, <1>14, <1>15, <1>16, <1>17, <1>18, <1>19, <1>20, <1>21, <1>22, <1>23, <1>24,
       <1>25, <1>26, <1>27 DEF QuietAction

\* Every step keeps the second invariant.
LEMMA StepSource ==
    ASSUME TInv, SourceInv, Orderly, [Next]_vars PROVE SourceInv'
<1>1. ASSUME NEW w \in Workers, Step(w) PROVE SourceInv'
  <2>1. CASE QuietAction(w)
    BY <1>1, <2>1, StepOthers, QuietActions, QuietSource
  <2>2. CASE ~ QuietAction(w)
    BY <1>1, <2>2, ReadStatSource, ReadBytesSource, ReadInsertSource, CommitSource, EditCheckSource,
       EditRenameSource, EditPublishSource, EditUndoSource, RecoveredSource, RefreshSource
       DEF Step, QuietAction
  <2> QED BY <2>1, <2>2
<1>2. ASSUME NEW f \in Files, OutsideWrite(f) PROVE SourceInv'
  BY <1>2, OutsideWriteSource
<1>3. CASE UNCHANGED <<mix, disk, cache, index, unseen, torn, pc, ret, file, got, stamp, built>>
  BY <1>3 DEF SourceInv, CacheInv, ReadInv, ReadCurrent, EditInv, UndoInv, RefreshInv, FactsInv, Excused, MidEdit
<1>4. ASSUME CbmFollows PROVE SourceInv'
  BY <1>3, <1>4 DEF CbmFollows
<1>5. ASSUME UNCHANGED vars PROVE SourceInv'
  BY <1>3, <1>5 DEF vars
<1> QED BY <1>1, <1>2, <1>4, <1>5 DEF Next

\* The kind of session is fixed.
LEMMA MixKept == ASSUME TInv, [Next]_vars PROVE mix' = mix
<1>1. ASSUME NEW w \in Workers, QuietAction(w) PROVE mix' = mix
  BY <1>1, QuietActions DEF Quiet
<1>2. ASSUME NEW w \in Workers, Step(w), ~ QuietAction(w) PROVE mix' = mix
  BY <1>2 DEF Step, QuietAction, ReadStat, ReadBytes, ReadInsert, Commit, InspectPublish, HydrateRecovered,
     EditCheck, EditRename, EditCache, EditPublish, EditRestore, EditRestored, EditTorn, RefreshCache, RefreshIndex, RefreshDiscovery
<1>3. ASSUME NEW f \in Files, OutsideWrite(f) PROVE mix' = mix
  BY <1>3 DEF OutsideWrite
<1>4. CbmFollows \/ UNCHANGED vars => mix' = mix
  BY DEF CbmFollows, vars
<1> QED BY <1>1, <1>2, <1>3, <1>4 DEF Next

\* The first two invariants.
SInv == TInv /\ (Orderly => SourceInv)

\* They hold when the server starts.
LEMMA SourceInitially == Init => SInv
<1> SUFFICES ASSUME Init PROVE SInv
  OBVIOUS
<1>1. SourceInv
  BY DEF Init, Everyone, SourceInv, CacheInv, ReadInv, ReadCurrent, EditInv, UndoInv, RefreshInv, FactsInv
<1> QED BY <1>1, InitTInv DEF SInv

\* Every step keeps them.
LEMMA SourceStep == SInv /\ [Next]_vars => SInv'
<1> SUFFICES ASSUME SInv, [Next]_vars PROVE SInv'
  OBVIOUS
<1>1. TInv'
  BY StepTInv DEF SInv
<1>2. mix' = mix
  BY MixKept DEF SInv
<1>3. Orderly' => Orderly
  BY <1>2 DEF Orderly
<1> QED BY <1>1, <1>3, StepSource DEF SInv

\* In orderly sessions cache, reads and index agree with the files, for any
\* number of concurrent queries and edits.
THEOREM SourceInvariance == Spec => []SInv
BY SourceInitially, SourceStep, PTL DEF Spec

\* The source cache serves no bytes the file no longer has (source_cache.rs),
\* whatever reads, edits and outside writes run between stat, read and insert.
THEOREM SnapshotsStayCurrent == Spec => []OrderlySnapshots
<1>1. SInv => OrderlySnapshots
  BY DEF SInv, OrderlySnapshots, SnapshotsCurrent, SourceInv, CacheInv, Excused, Editing
<1> QED BY <1>1, SourceInvariance, PTL

\* The index holds no facts of bytes a file no longer has (WSC-010), because
\* what is published was read again inside the clock.
THEOREM FactsStayCurrent == Spec => []OrderlyFacts
<1>1. SInv => OrderlyFacts
  BY DEF SInv, OrderlyFacts, FactsCurrent, SourceInv, FactsInv, MidEdit, Editing
<1> QED BY <1>1, SourceInvariance, PTL

-----------------------------------------------------------------------------
(* Hydration *)

\* The edits of f that have written it and not published yet.
Editor(w, f) == file[w] = f /\ pc[w] \in {"editCache", "editPublish"}

\* If f mentions the name, its facts are in the index, unless an edit of it is
\* about to publish them, a program outside changed it or an edit left it torn.
\* While an edit may still be undone this is about the bytes it would put back.
Hydrated(f) ==
    \/ f \in unseen \union torn
    \/ IF mix.store /\ MidEdit(f)
       THEN \A w \in Workers : Editor(w, f) /\ got[w] \in Mentions => index[f] # None
       ELSE MidEdit(f) \/ (disk[f].src \in Mentions => index[f] # None)

\* The files a query has still to look at.
Pending(w) ==
    IF Where(w) \in {"scan", "scanned"} THEN todo[w] \union found[w]
    ELSE IF Where(w) = "select" THEN found[w] ELSE todo[w]

\* An edit that has published leaves its file hydrated.
EditedAt(w) == pc[w] = "editDiscovery" => Hydrated(file[w])

\* A scanned file mentions the name or is hydrated.
ScannedAt(w) ==
    (ret[w] = "scanned" /\ pc[w] = "insert") \/ pc[w] = "scanned"
        => got[w] \in Mentions \/ Hydrated(file[w])

\* What a query has neither failed at nor still to look at is hydrated.
PendingAt(w) ==
    \A s \in marks[w], f \in Files :
        ~failed[w] /\ (s = "cbm" => f \notin ungraphed) => f \in Pending(w) \/ Hydrated(f)

\* An edit of f that has written it and will mark the graph dirty, unless it fails.
Marking(f) == \E w \in Workers : file[w] = f /\ pc[w] \in {"editCache", "editPublish", "editDiscovery"}

\* The graph knows every mention, or will be reindexed before it is asked.
GraphInv ==
    mix.bridge => \A f \in Files :
        f \in ungraphed \/ dirty \/ Marking(f) \/ (disk[f].src \in Mentions => graph[f] \in Mentions)

\* A recorded completion may be believed.
DoneInv ==
    \A s \in Scopes, r \in Requirements :
        IsComplete(s, r) /\ (\A w \in Workers : pc[w] \notin RefreshAt) =>
            \A f \in Files : (s = "cbm" => f \notin ungraphed) => Hydrated(f)

\* What one worker knows.
WorkerInv(w) == EditedAt(w) /\ ScannedAt(w) /\ PendingAt(w)

\* The third invariant.
HydrationInv == (\A w \in Workers : WorkerInv(w)) /\ GraphInv /\ DoneInv

\* No file loses its hydration.
Kept == \A f \in Files : Hydrated(f) => Hydrated(f)'

\* A quiet step keeps it so.
LEMMA QuietKept == ASSUME NEW w \in Workers, Others(w), Quiet(w) PROVE Kept
  <1>1. \A f \in Files : MidEdit(f)' = MidEdit(f) /\ \A v \in Workers : Editor(v, f)' = Editor(v, f)
  BY DEF Others, Quiet, MidEdit, Editor
<1>2. \A v \in Workers, f \in Files : Editor(v, f) => got'[v] = got[v]
  BY DEF Others, Quiet, Editor
<1> QED BY <1>1, <1>2 DEF Quiet, Kept, Hydrated

\* A session with a store runs one request at a time, so that nothing happens
\* beside an edit.
LEMMA NoStoreEdit ==
    ASSUME TInv, Orderly, NEW w \in Workers, pc[w] \notin {"idle", "editCache", "editPublish"}, NEW f
    PROVE  mix.store => ~MidEdit(f)
<1> SUFFICES ASSUME mix.store PROVE ~MidEdit(f)
  OBVIOUS
<1>1. mix.serial
  BY DEF Orderly
<1> QED BY <1>1, AloneWhenSerial DEF MidEdit

\* To any other handler, a file is hydrated that does not mention the name.
LEMMA PlainlyHydrated ==
    ASSUME TInv, Orderly, NEW w \in Workers, pc[w] \notin {"idle", "editCache", "editPublish"}, NEW f
    PROVE  disk[f].src \notin Mentions \/ MidEdit(f) => Hydrated(f)
BY NoStoreEdit DEF Hydrated

\* The edits of a file are those of the other workers, if this one is in none.
LEMMA OtherEditors ==
    ASSUME NEW w \in Workers, Others(w), NEW f, ~Editor(w, f), ~Editor(w, f)'
    PROVE  /\ MidEdit(f)' = MidEdit(f)
           /\ \A v \in Workers : Editor(v, f)' = Editor(v, f) /\ (Editor(v, f) => got'[v] = got[v])
BY DEF Others, MidEdit, Editor

\* So do reads.
LEMMA ReadKept ==
    ASSUME TInv, NEW w \in Workers, ReadStat(w) \/ ReadBytes(w) \/ ReadInsert(w) \/ RefreshCache(w)
    PROVE  Kept
<1>1. Others(w)
  BY StepOthers DEF Step
<1>2. UNCHANGED <<mix, disk, index, unseen, torn>>
  BY DEF ReadStat, ReadBytes, ReadInsert, RefreshCache
<1>3. {pc[w], pc'[w]} \intersect {"editCache", "editPublish"} = {}
  <2>1. CASE ReadStat(w)
    BY <2>1 DEF TInv, ReadStat, ReadError, Return
  <2>2. CASE ReadBytes(w)
    BY <2>2 DEF TInv, ReadBytes, ReadError, Return
  <2>3. CASE ReadInsert(w) \/ RefreshCache(w)
    BY <2>3 DEF TInv, ReadInsert, RefreshCache
  <2> QED BY <2>1, <2>2, <2>3
<1>4. \A f : ~Editor(w, f) /\ ~Editor(w, f)'
  BY <1>3 DEF Editor
<1> QED BY <1>1, <1>2, <1>4, OtherEditors DEF Kept, Hydrated

\* Published facts are not mistaken for none.
LEMMA EntryIsEntry ==
    ASSUME NEW c \in Contents, NEW b \in BOOLEAN
    PROVE  [src |-> c, covered |-> b] # None
<1>1. [src |-> c, covered |-> b] \in [src: Contents, covered: BOOLEAN]
  OBVIOUS
<1> QED BY <1>1

\* So do publications.
LEMMA PublishKept ==
    ASSUME TInv, SourceInv, Orderly, NEW w \in Workers, Commit(w) \/ InspectPublish(w) \/ HydrateRecovered(w)
    PROVE  Kept
<1> PICK f : f = file[w]
  OBVIOUS
<1>1. Others(w)
  BY StepOthers DEF Step
<1>2. CASE Commit(w)
  <2>1. UNCHANGED <<mix, disk, unseen, torn>> /\ pc[w] = "checked" /\ pc'[w] = "compile"
        /\ f \in Files /\ built[w] \in Contents
    <3>1. UNCHANGED <<mix, disk, unseen, torn>> /\ pc[w] = "checked" /\ pc'[w] = "compile"
      BY <1>2 DEF Commit, TInv
    <3> QED BY <3>1 DEF TInv
  <2>2. \A g \in Files : index[g] # None => index'[g] # None
    <3>1. [src |-> built[w], covered |-> req[w] = "semantic"] # None
      BY <2>1, EntryIsEntry
    <3>2. index' \in {index, [index EXCEPT ![f] = [src |-> built[w], covered |-> req[w] = "semantic"]]}
      BY <1>2 DEF Commit
    <3> QED BY <3>1, <3>2 DEF TInv
  <2>3. \A g \in Files : ~Editor(w, g) /\ ~Editor(w, g)'
    BY <2>1 DEF Editor
  <2> QED BY <1>1, <2>1, <2>2, <2>3, OtherEditors DEF Kept, Hydrated
<1>3. CASE InspectPublish(w)
  <2>1. UNCHANGED <<mix, disk, unseen, torn>> /\ pc[w] = "inspectPublish" /\ pc'[w] = "idle"
        /\ f \in Files /\ got[w] \in Contents
    BY <1>3 DEF InspectPublish, Return, TInv
  <2>2. \A g \in Files : index[g] # None => index'[g] # None
    <3>1. [src |-> got[w], covered |-> TRUE] # None
      BY <2>1, EntryIsEntry
    <3>2. index' = [index EXCEPT ![f] = [src |-> got[w], covered |-> TRUE]]
      BY <1>3 DEF InspectPublish
    <3> QED BY <3>1, <3>2 DEF TInv
  <2>3. \A g \in Files : ~Editor(w, g) /\ ~Editor(w, g)'
    BY <2>1 DEF Editor
  <2> QED BY <1>1, <2>1, <2>2, <2>3, OtherEditors DEF Kept, Hydrated
<1>4. CASE HydrateRecovered(w)
  <2>1. UNCHANGED <<mix, disk, unseen>> /\ pc[w] = "recovered" /\ pc'[w] = "stat" /\ f \in Files
        /\ built[w] \in Contents
    <3>1. UNCHANGED <<mix, disk, unseen>> /\ pc[w] = "recovered" /\ pc'[w] = "stat"
      BY <1>4 DEF HydrateRecovered, TInv
    <3> QED BY <3>1 DEF TInv
  <2>2. mix.serial
    BY <2>1 DEF TInv, Orderly
  <2>3. \A g \in Files : ~Editor(w, g) /\ ~Editor(w, g)'
    BY <2>1 DEF Editor
  <2>4. CASE UNCHANGED <<index, torn>>
    BY <1>1, <2>1, <2>3, <2>4, OtherEditors DEF Kept, Hydrated
  <2>5. CASE ~ UNCHANGED <<index, torn>>
    <3>1. PICK covered \in BOOLEAN :
              /\ got[w] = built[w] /\ torn' = torn \ {f}
              /\ index' = [index EXCEPT ![f] =
                             IF covered \/ built[w] \in Mentions
                             THEN [src |-> built[w], covered |-> covered] ELSE None]
      BY <1>4, <2>5 DEF HydrateRecovered
    <3>2. Hydrated(f)'
      <4>1. built[w] \in Mentions => index'[f] # None
        BY <2>1, <3>1, EntryIsEntry DEF TInv
      <4>2. f \notin unseen => built[w] = disk[f].src
        BY <2>1, <2>2, <3>1 DEF SourceInv, ReadCurrent
      <4>3. ~MidEdit(f)
        BY <2>1, <2>2, AloneWhenSerial DEF MidEdit
      <4> QED BY <1>1, <2>1, <2>3, <4>1, <4>2, <4>3, OtherEditors DEF Hydrated
    <3>3. \A g \in Files \ {f} : index'[g] = index[g]
      BY <3>1 DEF TInv
    <3> QED BY <1>1, <2>1, <2>3, <3>1, <3>2, <3>3, OtherEditors DEF Kept, Hydrated
  <2> QED BY <2>4, <2>5
<1> QED BY <1>2, <1>3, <1>4

\* So do the steps of an edit.
LEMMA EditKept ==
    ASSUME TInv, SourceInv, Orderly, NEW w \in Workers
    PROVE  /\ EditCheck(w) => Kept
           /\ EditRename(w) => Kept
           /\ EditCache(w) => Kept
           /\ EditPublish(w) => Kept /\ \A f : f = file[w] => Hydrated(f)'
<1> PICK f : f = file[w]
  OBVIOUS
<1>0. mix.store => mix.serial
  BY DEF Orderly
<1>1. ASSUME EditCheck(w) PROVE Kept
  <2>1. Others(w)
    BY <1>1, StepOthers DEF Step
  <2>2. UNCHANGED <<mix, disk, index, unseen, torn>> /\ pc[w] = "editCommit" /\ pc'[w] = "editRename"
    BY <1>1 DEF EditCheck, TInv
  <2>3. \A g \in Files : ~Editor(w, g) /\ ~Editor(w, g)'
    BY <2>2 DEF Editor
  <2> QED BY <2>1, <2>2, <2>3, OtherEditors DEF Kept, Hydrated
<1>2. ASSUME EditRename(w) PROVE Kept
  <2>1. Others(w)
    BY <1>2, StepOthers DEF Step
  <2>2. /\ UNCHANGED <<mix, index, unseen, torn, file, got>> /\ pc[w] = "editRename" /\ pc'[w] = "editCache"
        /\ f \in Files /\ \A g \in Files \ {f} : disk'[g] = disk[g]
    BY <1>2 DEF EditRename, TInv
  <2>3. ASSUME NEW g \in Files, g # f, Hydrated(g) PROVE Hydrated(g)'
    <3>1. ~Editor(w, g) /\ ~Editor(w, g)'
      BY <2>2, <2>3 DEF Editor
    <3> QED BY <2>1, <2>2, <2>3, <3>1, OtherEditors DEF Hydrated
  <2>4. ASSUME Hydrated(f) PROVE Hydrated(f)'
    <3>1. MidEdit(f)'
      BY <2>2 DEF MidEdit
    <3>2. CASE ~ mix.store
      BY <2>2, <3>1, <3>2 DEF Hydrated
    <3>3. CASE mix.store
      <4>1. ~MidEdit(f)
        BY <1>0, <2>2, <3>3, AloneWhenSerial DEF MidEdit
      <4>2. \A v \in Workers : Editor(v, f)' => v = w
        BY <1>0, <2>1, <2>2, <3>3, AloneWhenSerial DEF Editor, Others
      <4>3. f \notin unseen => got[w] = disk[f].src
        BY <2>2 DEF SourceInv, EditInv
      <4> QED BY <2>2, <2>4, <3>1, <3>3, <4>1, <4>2, <4>3 DEF Hydrated
    <3> QED BY <3>2, <3>3
  <2> QED BY <2>3, <2>4 DEF Kept
<1>3. ASSUME EditCache(w) PROVE Kept
  <2>1. Others(w)
    BY <1>3, StepOthers DEF Step
  <2>2. /\ UNCHANGED <<mix, disk, index, unseen, torn, file, got>>
        /\ pc[w] = "editCache" /\ pc'[w] = "editPublish"
    BY <1>3 DEF EditCache, TInv
  <2>3. \A g \in Files : MidEdit(g)' = MidEdit(g) /\ \A v \in Workers : Editor(v, g)' = Editor(v, g) /\ got'[v] = got[v]
    BY <2>1, <2>2 DEF Others, MidEdit, Editor
  <2> QED BY <2>2, <2>3 DEF Kept, Hydrated
<1>4. ASSUME EditPublish(w) PROVE Kept /\ Hydrated(f)'
  <2>1. Others(w)
    BY <1>4, StepOthers DEF Step
  <2>2. /\ UNCHANGED <<mix, disk, unseen, file, got>> /\ pc[w] = "editPublish" /\ pc'[w] = "editDiscovery"
        /\ torn' = torn \ {f} /\ f \in Files /\ built[w] \in Contents
        /\ index'[f] = IF built[w] \in Mentions THEN [src |-> built[w], covered |-> FALSE] ELSE None
        /\ \A g \in Files \ {f} : index'[g] = index[g]
    <3>1. pc[w] = "editPublish" /\ f \in Files /\ built[w] \in Contents
      BY <1>4 DEF EditPublish, TInv
    <3>2. index \in [Files -> [src: Contents, covered: BOOLEAN] \union {None}] /\ pc'[w] = "editDiscovery"
      BY <1>4 DEF EditPublish, TInv
    <3> QED BY <1>4, <3>1, <3>2 DEF EditPublish
  <2>3. Hydrated(f)'
    <3>1. f \notin unseen => built[w] = disk[f].src
      BY <2>2 DEF SourceInv, EditInv
    <3>2. [src |-> built[w], covered |-> FALSE] # None
      BY <2>2, EntryIsEntry
    <3>3. mix.store => ~MidEdit(f)'
      BY <1>0, <2>1, <2>2, AloneWhenSerial DEF MidEdit, Others
    <3> QED BY <2>2, <3>1, <3>2, <3>3 DEF Hydrated
  <2>4. ASSUME NEW g \in Files, g # f, Hydrated(g) PROVE Hydrated(g)'
    <3>1. ~Editor(w, g) /\ ~Editor(w, g)'
      BY <2>2, <2>4 DEF Editor
    <3> QED BY <2>1, <2>2, <2>4, <3>1, OtherEditors DEF Hydrated
  <2> QED BY <2>3, <2>4 DEF Kept
<1> QED BY <1>1, <1>2, <1>3, <1>4

\* So does an edit that fails: it puts back what is hydrated, or leaves it torn.
LEMMA UndoKept ==
    ASSUME TInv, SourceInv, Orderly, NEW w \in Workers, EditRestore(w) \/ EditRestored(w) \/ EditTorn(w)
    PROVE  Kept
<1> PICK f : f = file[w]
  OBVIOUS
<1>1. Others(w)
  BY StepOthers DEF Step
<1>2. CASE EditRestore(w)
  <2>1. /\ UNCHANGED <<mix, index, unseen, torn, file, got>> /\ pc[w] = "editPublish" /\ pc'[w] = "editRestored"
        /\ mix.store /\ f \in Files /\ disk'[f].src = got[w] /\ \A g \in Files \ {f} : disk'[g] = disk[g]
    BY <1>2 DEF EditRestore, TInv
  <2>2. mix.serial
    BY <2>1 DEF Orderly
  <2>3. MidEdit(f) /\ Editor(w, f) /\ ~MidEdit(f)'
    BY <1>1, <2>1, <2>2, AloneWhenSerial DEF MidEdit, Editor, Others
  <2>4. Hydrated(f) => Hydrated(f)'
    BY <2>1, <2>3 DEF Hydrated
  <2>5. ASSUME NEW g \in Files, g # f, Hydrated(g) PROVE Hydrated(g)'
    <3>1. ~Editor(w, g) /\ ~Editor(w, g)'
      BY <2>1, <2>5 DEF Editor
    <3> QED BY <1>1, <2>1, <2>5, <3>1, OtherEditors DEF Hydrated
  <2> QED BY <2>4, <2>5 DEF Kept
<1>3. CASE EditRestored(w)
  <2>1. UNCHANGED <<mix, disk, index, unseen, torn>> /\ pc[w] = "editRestored" /\ pc'[w] = "idle"
    BY <1>3 DEF EditRestored, Return, TInv
  <2>2. \A g \in Files : ~Editor(w, g) /\ ~Editor(w, g)'
    BY <2>1 DEF Editor
  <2> QED BY <1>1, <2>1, <2>2, OtherEditors DEF Kept, Hydrated
<1>4. CASE EditTorn(w)
  <2>1. UNCHANGED <<mix, disk, index, unseen>> /\ pc[w] = "editPublish" /\ pc'[w] = "idle" /\ torn' = torn \union {f}
    BY <1>4 DEF EditTorn, Return, TInv
  <2>2. ASSUME NEW g \in Files, g # f, Hydrated(g) PROVE Hydrated(g)'
    <3>1. ~Editor(w, g) /\ ~Editor(w, g)'
      BY <2>1, <2>2 DEF Editor
    <3> QED BY <1>1, <2>1, <2>2, <3>1, OtherEditors DEF Hydrated
  <2> QED BY <2>1, <2>2 DEF Kept, Hydrated
<1> QED BY <1>2, <1>3, <1>4

\* What another program writes is excused.
LEMMA OutsideKept == ASSUME TInv, NEW f \in Files, OutsideWrite(f) PROVE Kept
<1>1. UNCHANGED <<mix, index, torn, pc, file, got>> /\ unseen' = unseen \union {f}
      /\ \A g \in Files \ {f} : disk'[g] = disk[g]
  BY DEF OutsideWrite, TInv
<1> QED BY <1>1 DEF Kept, Hydrated, MidEdit, Editor

\* What the other workers know stays true.
LEMMA OthersKept ==
    ASSUME TInv, NEW w \in Workers, Others(w), Kept, ungraphed \subseteq ungraphed',
           NEW v \in Workers, v # w, WorkerInv(v)
    PROVE  WorkerInv(v)'
<1>1. EditedAt(v)'
  <2>1. pc[v] = "editDiscovery" => file[v] \in Files
    BY DEF TInv
  <2> QED BY <2>1 DEF Others, Kept, WorkerInv, EditedAt
<1>2. ScannedAt(v)'
  <2>1. pc[v] \in {"insert", "scanned"} => file[v] \in Files
    BY DEF TInv
  <2> QED BY <2>1 DEF Others, Kept, WorkerInv, ScannedAt
<1>3. PendingAt(v)'
  <2>1. Pending(v)' = Pending(v)
    BY DEF Others, Pending
  <2> QED BY <2>1 DEF Others, Kept, WorkerInv, PendingAt
<1> QED BY <1>1, <1>2, <1>3 DEF WorkerInv

\* A worker outside a query knows nothing that could become false.
LEMMA OutsideQuery ==
    ASSUME TInv', NEW w \in Workers, Where(w)' \notin QueryAt \/ op'[w] # "query", pc'[w] # "editDiscovery"
    PROVE  WorkerInv(w)'
<1>1. marks'[w] = {} /\ Where(w)' # "scanned"
  BY DEF TInv
<1> QED BY <1>1 DEF WorkerInv, EditedAt, ScannedAt, PendingAt

\* Completions stay true if nothing loses its hydration.
LEMMA DoneKept ==
    ASSUME HydrationInv, NEW w \in Workers, Others(w), Kept, ungraphed \subseteq ungraphed',
           UNCHANGED <<gens, done>>, pc[w] \notin RefreshAt \/ pc'[w] \in RefreshAt
    PROVE  DoneInv'
<1>1. \A s \in Scopes, r \in Requirements : IsComplete(s, r)' = IsComplete(s, r)
  BY DEF IsComplete, Generation
<1>2. (\A v \in Workers : pc'[v] \notin RefreshAt) => \A v \in Workers : pc[v] \notin RefreshAt
  BY DEF Others
<1> QED BY <1>1, <1>2 DEF HydrationInv, DoneInv, Kept

\* After an invalidation no discovery is complete.
LEMMA InvalidatedDone == ASSUME TInv, InvalidateAll, UNCHANGED done PROVE DoneInv'
<1>1. ASSUME NEW s \in Scopes, NEW r \in Requirements PROVE ~IsComplete(s, r)'
  <2>1. CASE gens[s] = None
    <3>1. done[<<s, r>>] = None
      BY <2>1 DEF TInv
    <3> QED BY <3>1 DEF IsComplete
  <2>2. CASE gens[s] # None
    <3>1. gens[s] \in Nat /\ gens'[s] = gens[s] + 1 /\ gens'[s] # None
      BY <2>2 DEF TInv, InvalidateAll
    <3>2. done[<<s, r>>] # None => done[<<s, r>>] \in Nat /\ done[<<s, r>>] <= gens[s]
      BY DEF TInv
    <3> QED BY <3>1, <3>2 DEF IsComplete, Generation
  <2> QED BY <2>1, <2>2
<1> QED BY <1>1 DEF DoneInv

\* The graph stays as good as it is.
LEMMA GraphKept ==
    ASSUME HydrationInv, NEW w \in Workers, Others(w), UNCHANGED <<mix, disk, graph, dirty, ungraphed>>,
           \/ pc[w] \notin {"editCache", "editPublish", "editDiscovery"}
           \/ pc'[w] \in {"editCache", "editPublish", "editDiscovery"} /\ file'[w] = file[w]
    PROVE  GraphInv'
<1>1. \A f \in Files : Marking(f) => Marking(f)'
  BY DEF Marking, Others
<1> QED BY <1>1 DEF HydrationInv, GraphInv

\* A step that changes neither the graph nor the discovery cache.
LEMMA PlainStep ==
    ASSUME TInv, HydrationInv, NEW w \in Workers, Others(w), Kept,
           UNCHANGED <<mix, disk, graph, dirty, ungraphed, gens, done>>,
           pc[w] \notin RefreshAt \/ pc'[w] \in RefreshAt,
           \/ pc[w] \notin {"editCache", "editPublish", "editDiscovery"}
           \/ pc'[w] \in {"editCache", "editPublish", "editDiscovery"} /\ file'[w] = file[w],
           WorkerInv(w)'
    PROVE  HydrationInv'
<1>1. GraphInv'
  BY GraphKept
<1>2. DoneInv'
  BY DoneKept
<1>3. \A v \in Workers : WorkerInv(v)'
  BY OthersKept DEF HydrationInv
<1> QED BY <1>1, <1>2, <1>3 DEF HydrationInv

\* Handlers other than queries, up to the commit of an edit.
LEMMA OtherHydration ==
    ASSUME TInv, SourceInv, Orderly, HydrationInv, TInv', NEW w \in Workers
    PROVE  /\ \A o \in mix.handlers : Begin(w, o) => HydrationInv'
           /\ Inspected(w) => HydrationInv'
           /\ InspectPublish(w) => HydrationInv'
           /\ EditBegin(w) \/ EditRead(w) => HydrationInv'
           /\ EditRecovered(w) \/ EditRefused(w) \/ EditRenameFails(w) => HydrationInv'
           /\ EditCheck(w) => HydrationInv'
           /\ ReindexFails(w) => HydrationInv'
           /\ RefreshCache(w) => HydrationInv'
<1> DEFINE Same == UNCHANGED <<mix, disk, graph, dirty, ungraphed, gens, done>>
<1>1. ASSUME NEW o \in mix.handlers, Begin(w, o) PROVE HydrationInv'
  <2>1. Others(w) /\ Kept
    BY <1>1, StepOthers, QuietActions, QuietKept DEF Step, QuietAction
  <2>2. Same /\ pc[w] = "idle" /\ ret'[w] = "inspected"
    BY <1>1 DEF Begin, TInv
  <2>3. pc'[w] \in {"discover", "stat", "edit", "refreshCache", "reindex"}
    <3>1. o \in Handlers
      BY DEF TInv, MixType
    <3> QED BY <1>1, <3>1 DEF Begin, TInv, Handlers
  <2>4. WorkerInv(w)'
    BY <2>2, <2>3, OutsideQuery
  <2> QED BY <2>1, <2>2, <2>3, <2>4, PlainStep
<1>2. ASSUME Inspected(w) PROVE HydrationInv'
  <2>1. Others(w) /\ Kept
    BY <1>2, StepOthers, QuietActions, QuietKept DEF Step, QuietAction
  <2>2. Same /\ pc[w] = "inspected"
    BY <1>2 DEF Inspected
  <2>3. pc'[w] = "idle" \/ (pc'[w] \in {"stat", "preflight"} /\ op'[w] # "query")
    <3>1. CASE IsCurrent(file[w], got[w])
      BY <1>2, <3>1 DEF Inspected, Return, TInv
    <3>2. CASE ~ IsCurrent(file[w], got[w])
      <4>1. Compile(w, file[w]) /\ op' = op
        BY <1>2, <3>2 DEF Inspected
      <4>2. op[w] = "inspect"
        BY <2>2 DEF TInv
      <4> QED BY <4>1, <4>2 DEF Compile, TInv
    <3> QED BY <3>1, <3>2
  <2>4. WorkerInv(w)'
    BY <2>3, OutsideQuery
  <2> QED BY <2>1, <2>2, <2>3, <2>4, PlainStep
<1>3. ASSUME InspectPublish(w) PROVE HydrationInv'
  <2>1. Others(w) /\ Kept
    BY <1>3, StepOthers, PublishKept DEF Step
  <2>2. Same /\ pc[w] = "inspectPublish" /\ pc'[w] = "idle"
    BY <1>3 DEF InspectPublish, Return, TInv
  <2>4. WorkerInv(w)'
    BY <2>2, OutsideQuery
  <2> QED BY <2>1, <2>2, <2>4, PlainStep
<1>4. ASSUME EditRecovered(w) \/ EditRefused(w) \/ EditRenameFails(w) PROVE HydrationInv'
  <2>1. Others(w) /\ Kept
    BY <1>4, StepOthers, QuietActions, QuietKept DEF Step, QuietAction
  <2>2. Same /\ pc[w] \in {"edit", "editRead", "editCommit", "editRename"} /\ pc'[w] = "idle"
    BY <1>4 DEF EditRecovered, EditRefused, EditRenameFails, Return, TInv
  <2>4. WorkerInv(w)'
    BY <2>2, OutsideQuery
  <2> QED BY <2>1, <2>2, <2>4, PlainStep
<1>5. ASSUME EditBegin(w) \/ EditRead(w) PROVE HydrationInv'
  <2>1. Others(w) /\ Kept
    BY <1>5, StepOthers, QuietActions, QuietKept DEF Step, QuietAction
  <2>2. Same /\ pc[w] \in {"edit", "editRead"} /\ pc'[w] \in {"editRead", "editCommit"}
    BY <1>5 DEF EditBegin, EditRead, TInv
  <2>4. WorkerInv(w)'
    BY <2>2, OutsideQuery
  <2> QED BY <2>1, <2>2, <2>4, PlainStep
<1>6. ASSUME EditCheck(w) PROVE HydrationInv'
  <2>1. Others(w) /\ Kept
    BY <1>6, StepOthers, EditKept DEF Step
  <2>2. Same /\ pc[w] = "editCommit" /\ pc'[w] = "editRename"
    BY <1>6 DEF EditCheck, TInv
  <2>4. WorkerInv(w)'
    BY <2>2, OutsideQuery
  <2> QED BY <2>1, <2>2, <2>4, PlainStep
<1>7. ASSUME ReindexFails(w) PROVE HydrationInv'
  <2>1. Others(w) /\ Kept
    BY <1>7, StepOthers, QuietActions, QuietKept DEF Step, QuietAction
  <2>2. Same /\ pc[w] = "reindex" /\ pc'[w] = "idle"
    BY <1>7 DEF ReindexFails, Return, TInv
  <2>4. WorkerInv(w)'
    BY <2>2, OutsideQuery
  <2> QED BY <2>1, <2>2, <2>4, PlainStep
<1>8. ASSUME RefreshCache(w) PROVE HydrationInv'
  <2>1. Others(w) /\ Kept
    BY <1>8, StepOthers, ReadKept DEF Step
  <2>2. Same /\ pc[w] = "refreshCache" /\ pc'[w] = "refreshIndex"
    BY <1>8 DEF RefreshCache, TInv
  <2>4. WorkerInv(w)'
    BY <2>2, OutsideQuery
  <2> QED BY <2>1, <2>2, <2>4, PlainStep
<1> QED BY <1>1, <1>2, <1>3, <1>4, <1>5, <1>6, <1>7, <1>8

\* An edit writes the file, and marks the graph dirty when it is published.
LEMMA EditHydration ==
    ASSUME TInv, SourceInv, Orderly, HydrationInv, TInv', NEW w \in Workers
    PROVE  /\ EditRename(w) => HydrationInv'
           /\ EditCache(w) => HydrationInv'
           /\ EditPublish(w) => HydrationInv'
           /\ EditDiscovery(w) => HydrationInv'
<1>1. ASSUME EditRename(w) PROVE HydrationInv'
  <2>1. Others(w) /\ Kept
    BY <1>1, StepOthers, EditKept DEF Step
  <2>2. /\ UNCHANGED <<mix, graph, dirty, ungraphed, gens, done, file>> /\ pc[w] = "editRename"
        /\ pc'[w] = "editCache" /\ \A f \in Files \ {file[w]} : disk'[f] = disk[f]
    BY <1>1 DEF EditRename, TInv
  <2>3. WorkerInv(w)'
    BY <2>2, OutsideQuery
  <2>4. DoneInv'
    BY <2>1, <2>2, DoneKept
  <2>5. GraphInv'
    <3>1. Marking(file[w])' /\ \A f \in Files : Marking(f) => Marking(f)'
      BY <2>1, <2>2 DEF Marking, Others
    <3> QED BY <2>2, <3>1 DEF HydrationInv, GraphInv
  <2> QED BY <2>1, <2>2, <2>3, <2>4, <2>5, OthersKept DEF HydrationInv
<1>2. ASSUME EditCache(w) PROVE HydrationInv'
  <2>1. Others(w) /\ Kept
    BY <1>2, StepOthers, EditKept DEF Step
  <2>2. /\ UNCHANGED <<mix, disk, graph, dirty, ungraphed, gens, done, file>>
        /\ pc[w] = "editCache" /\ pc'[w] = "editPublish"
    BY <1>2 DEF EditCache, TInv
  <2>3. WorkerInv(w)'
    BY <2>2, OutsideQuery
  <2> QED BY <2>1, <2>2, <2>3, PlainStep
<1>3. ASSUME EditPublish(w) PROVE HydrationInv'
  <2>1. Others(w) /\ Kept /\ \A f : f = file[w] => Hydrated(f)'
    BY <1>3, StepOthers, EditKept DEF Step
  <2>2. /\ UNCHANGED <<mix, disk, graph, dirty, ungraphed, gens, done, file>>
        /\ pc[w] = "editPublish" /\ pc'[w] = "editDiscovery"
    BY <1>3 DEF EditPublish, TInv
  <2>3. WorkerInv(w)'
    <3>1. marks'[w] = {}
      BY <2>2 DEF TInv
    <3>2. EditedAt(w)'
      BY <2>1, <2>2 DEF EditedAt
    <3> QED BY <2>2, <3>1, <3>2 DEF WorkerInv, ScannedAt, PendingAt
  <2> QED BY <2>1, <2>2, <2>3, PlainStep
<1>4. ASSUME EditDiscovery(w) PROVE HydrationInv'
  <2>1. Others(w) /\ Kept
    BY <1>4, StepOthers, QuietActions, QuietKept DEF Step, QuietAction
  <2>2. UNCHANGED <<mix, disk, graph, done>> /\ pc'[w] = "idle" /\ InvalidateAll
    BY <1>4 DEF EditDiscovery, Return, TInv
  <2>6. file[w] \in Files
    BY <1>4 DEF EditDiscovery, TInv
  <2>7. ungraphed \subseteq ungraphed'
    BY <1>4 DEF EditDiscovery
  <2>8. mix.bridge => dirty' = TRUE \/ (dirty' = dirty /\ file[w] \in ungraphed')
    BY <1>4 DEF EditDiscovery
  <2>3. WorkerInv(w)'
    BY <2>2, OutsideQuery
  <2>4. DoneInv'
    BY <2>2, InvalidatedDone
  <2>5. GraphInv'
    <3>1. \A f \in Files \ {file[w]} : Marking(f) => Marking(f)'
      BY <2>1, <2>2 DEF Marking, Others
    <3> QED BY <2>2, <2>6, <2>7, <2>8, <3>1 DEF HydrationInv, GraphInv
  <2> QED BY <2>1, <2>2, <2>3, <2>4, <2>5, <2>7, OthersKept DEF HydrationInv
<1> QED BY <1>1, <1>2, <1>3, <1>4

\* An edit that fails after its rename leaves a file the graph may not know.
LEMMA EditUndoHydration ==
    ASSUME TInv, SourceInv, Orderly, HydrationInv, TInv', NEW w \in Workers
    PROVE  /\ EditRestore(w) => HydrationInv'
           /\ EditRestored(w) => HydrationInv'
           /\ EditTorn(w) => HydrationInv'
<1>1. ASSUME EditRestore(w) PROVE HydrationInv'
  <2>1. Others(w) /\ Kept
    BY <1>1, StepOthers, UndoKept DEF Step
  <2>2. /\ UNCHANGED <<mix, graph, dirty, gens, done, file>> /\ pc[w] = "editPublish" /\ file[w] \in Files
        /\ ungraphed' = ungraphed \union {file[w]} /\ pc'[w] = "editRestored"
        /\ \A f \in Files \ {file[w]} : disk'[f] = disk[f]
    BY <1>1 DEF EditRestore, TInv
  <2>3. WorkerInv(w)'
    BY <2>2, OutsideQuery
  <2>4. DoneInv'
    BY <2>1, <2>2, DoneKept
  <2>5. GraphInv'
    <3>1. \A f \in Files \ {file[w]} : Marking(f) => Marking(f)'
      BY <2>1, <2>2 DEF Marking, Others
    <3> QED BY <2>2, <3>1 DEF HydrationInv, GraphInv
  <2> QED BY <2>1, <2>2, <2>3, <2>4, <2>5, OthersKept DEF HydrationInv
<1>2. ASSUME EditRestored(w) PROVE HydrationInv'
  <2>1. Others(w) /\ Kept
    BY <1>2, StepOthers, UndoKept DEF Step
  <2>2. /\ UNCHANGED <<mix, disk, graph, dirty, ungraphed, gens, done>>
        /\ pc[w] = "editRestored" /\ pc'[w] = "idle"
    BY <1>2 DEF EditRestored, Return, TInv
  <2>3. WorkerInv(w)'
    BY <2>2, OutsideQuery
  <2> QED BY <2>1, <2>2, <2>3, PlainStep
<1>3. ASSUME EditTorn(w) PROVE HydrationInv'
  <2>1. Others(w) /\ Kept
    BY <1>3, StepOthers, UndoKept DEF Step
  <2>2. /\ UNCHANGED <<mix, disk, graph, dirty, gens, done>> /\ pc[w] = "editPublish" /\ file[w] \in Files
        /\ ungraphed' = ungraphed \union {file[w]} /\ pc'[w] = "idle"
    BY <1>3 DEF EditTorn, Return, TInv
  <2>3. WorkerInv(w)'
    BY <2>2, OutsideQuery
  <2>4. DoneInv'
    BY <2>1, <2>2, DoneKept
  <2>5. GraphInv'
    <3>1. \A f \in Files \ {file[w]} : Marking(f) => Marking(f)'
      BY <2>1, <2>2 DEF Marking, Others
    <3> QED BY <2>2, <3>1 DEF HydrationInv, GraphInv
  <2> QED BY <2>1, <2>2, <2>3, <2>4, <2>5, OthersKept DEF HydrationInv
<1> QED BY <1>1, <1>2, <1>3

\* A refresh runs alone, and leaves no discovery complete.
LEMMA RefreshHydration ==
    ASSUME TInv, SourceInv, Orderly, HydrationInv, TInv', NEW w \in Workers
    PROVE  /\ Reindex(w) => HydrationInv'
           /\ RefreshIndex(w) => HydrationInv'
           /\ RefreshDiscovery(w) => HydrationInv'
<1>0. ASSUME Others(w), pc[w] \in RefreshAt \union {"reindex"}, pc'[w] \in RefreshAt \union {"idle"}
      PROVE  \A v \in Workers : WorkerInv(v)'
  <2>1. mix.serial
    <3>1. op[w] \in {"refresh", "reindex"} /\ op[w] \in mix.handlers
      BY <1>0 DEF TInv
    <3> QED BY <3>1 DEF Orderly
  <2>2. \A v \in Workers \ {w} : pc[v] = "idle"
    BY <1>0, <2>1, AloneWhenSerial
  <2>3. \A v \in Workers : pc'[v] \in RefreshAt \union {"idle"}
    BY <1>0, <2>2 DEF Others
  <2> QED BY <2>3, OutsideQuery
<1>1. ASSUME Reindex(w) PROVE HydrationInv'
  <2>1. Others(w)
    BY <1>1, StepOthers DEF Step
  <2>2. pc[w] = "reindex" /\ pc'[w] = "refreshCache" /\ UNCHANGED disk
        /\ graph' = [f \in Files |-> disk[f].src]
    BY <1>1 DEF Reindex, TInv
  <2>3. GraphInv'
    BY <2>2 DEF GraphInv
  <2>4. DoneInv'
    BY <2>2 DEF DoneInv
  <2> QED BY <1>0, <2>1, <2>2, <2>3, <2>4 DEF HydrationInv
<1>2. ASSUME RefreshIndex(w) PROVE HydrationInv'
  <2>1. Others(w)
    BY <1>2, StepOthers DEF Step
  <2>2. pc[w] = "refreshIndex" /\ pc'[w] = "refreshDiscovery" /\ UNCHANGED <<mix, disk, graph, dirty, ungraphed>>
    BY <1>2 DEF RefreshIndex, TInv
  <2>3. GraphInv'
    BY <2>1, <2>2, GraphKept
  <2>4. DoneInv'
    BY <2>2 DEF DoneInv
  <2> QED BY <1>0, <2>1, <2>2, <2>3, <2>4 DEF HydrationInv
<1>3. ASSUME RefreshDiscovery(w) PROVE HydrationInv'
  <2>1. Others(w)
    BY <1>3, StepOthers DEF Step
  <2>2. pc[w] = "refreshDiscovery" /\ pc'[w] = "idle" /\ UNCHANGED <<mix, disk, graph, dirty, ungraphed, done>>
        /\ InvalidateAll
    BY <1>3 DEF RefreshDiscovery, Return, TInv
  <2>3. GraphInv'
    BY <2>1, <2>2, GraphKept
  <2>4. DoneInv'
    BY <2>2, InvalidatedDone
  <2> QED BY <1>0, <2>1, <2>2, <2>3, <2>4 DEF HydrationInv
<1> QED BY <1>1, <1>2, <1>3

\* After a recovery a query has as much to look at as before.
LEMMA RecoveryWorker ==
    ASSUME TInv, HydrationInv, TInv', NEW w \in Workers, Kept, Where(w) \in RecoverAt, pc'[w] = "stat",
           ret'[w] \in {"recovered", Compilation(w)}, UNCHANGED <<op, todo, found, marks, failed, ungraphed>>
    PROVE  WorkerInv(w)'
<1>1. CASE op[w] # "query"
  BY <1>1, OutsideQuery
<1>2. CASE op[w] = "query"
  <2>1. Pending(w) = todo[w] /\ Pending(w)' = todo'[w]
    BY <1>2 DEF Pending, Compilation
  <2>2. PendingAt(w)'
    BY <2>1 DEF HydrationInv, WorkerInv, PendingAt, Kept
  <2> QED BY <2>2 DEF WorkerInv, EditedAt, ScannedAt
<1> QED BY <1>1, <1>2

\* read_source, for whichever handler called it.
LEMMA ReadHydration ==
    ASSUME TInv, SourceInv, Orderly, HydrationInv, TInv', NEW w \in Workers
    PROVE  /\ ReadStat(w) => HydrationInv'
           /\ ReadBytes(w) => HydrationInv'
           /\ ReadInsert(w) => HydrationInv'
<1> DEFINE f == file[w]
<1>1. ASSUME ReadError(w), pc[w] \in {"stat", "read"}, Kept, UNCHANGED ungraphed PROVE WorkerInv(w)'
  <2>1. CASE ret[w] = "scanned"
    <3>1. pc'[w] = "scan" /\ marks'[w] = {}
      BY <1>1, <2>1 DEF ReadError, TInv
    <3> QED BY <3>1 DEF WorkerInv, EditedAt, ScannedAt, PendingAt
  <2>2. CASE ret[w] = "compiled"
    <3>1. pc'[w] = "compile" /\ failed'[w] = TRUE
      BY <1>1, <2>2 DEF ReadError, TInv
    <3> QED BY <3>1 DEF WorkerInv, EditedAt, ScannedAt, PendingAt
  <2>3. CASE ret[w] = "recovered"
    <3>1. /\ pc'[w] = "stat" /\ ret'[w] = Compilation(w) /\ op' = op
          /\ UNCHANGED <<todo, found, marks, failed>> /\ Where(w) \in RecoverAt
      BY <1>1, <2>3 DEF ReadError, TInv
    <3> QED BY <1>1, <3>1, RecoveryWorker
  <2>4. CASE ret[w] \notin {"scanned", "compiled", "recovered"}
    <3>1. pc'[w] = "idle"
      BY <1>1, <2>4 DEF ReadError, Return, TInv
    <3> QED BY <3>1, OutsideQuery
  <2> QED BY <2>1, <2>2, <2>3, <2>4
<1>2. ASSUME pc[w] \in ReadAt, Where(w)' = Where(w), Kept, ScannedAt(w)', pc'[w] # "editDiscovery",
             UNCHANGED <<todo, found, marks, failed, ungraphed>>
      PROVE  WorkerInv(w)'
  <2>1. Pending(w)' = Pending(w)
    BY <1>2 DEF Pending
  <2>2. PendingAt(w)'
    BY <1>2, <2>1 DEF HydrationInv, WorkerInv, PendingAt, Kept
  <2> QED BY <1>2, <2>2 DEF WorkerInv, EditedAt
<1>3. pc[w] \in ReadAt /\ disk[f].src \notin Mentions => Hydrated(f)
  BY PlainlyHydrated
<1>4. ASSUME ReadStat(w) PROVE HydrationInv'
  <2>1. Others(w) /\ Kept
    BY <1>4, StepOthers, ReadKept DEF Step
  <2>2. /\ UNCHANGED <<mix, disk, graph, dirty, ungraphed, done>> /\ pc[w] = "stat"
        /\ f \in Files /\ ret[w] \in ReadFor
    BY <1>4 DEF ReadStat, TInv
  <2>3. WorkerInv(w)'
    <3>1. CASE disk[f].src = Absent
      BY <1>1, <1>4, <2>1, <2>2, <3>1 DEF ReadStat
    <3>2. CASE disk[f].src # Absent
      <4>1. UNCHANGED <<ret, file, todo, found, marks, failed>>
        BY <1>4, <3>2 DEF ReadStat
      <4>2. \/ pc'[w] = "read"
            \/ pc'[w] = ret[w] /\ got'[w] = cache[f].src /\ cache[f] # None
               /\ cache[f].stamp = disk[f].stamp
        BY <1>4, <3>2 DEF ReadStat, TInv
      <4>3. Where(w)' = Where(w) /\ pc'[w] \notin {"insert", "editDiscovery"}
        BY <2>2, <4>1, <4>2
      <4>4. f \notin unseen /\ pc'[w] = "scanned" => got'[w] = disk[f].src
        BY <2>2, <4>2, NotExcused DEF SourceInv, CacheInv
      <4>5. f \in unseen => Hydrated(f)
        BY DEF Hydrated
      <4>6. ScannedAt(w)'
        BY <1>3, <2>1, <2>2, <4>1, <4>3, <4>4, <4>5 DEF ScannedAt, Kept
      <4> QED BY <1>2, <2>1, <2>2, <4>1, <4>3, <4>6
    <3> QED BY <3>1, <3>2
  <2>4. pc'[w] \notin RefreshAt \union EditAt
    <3>1. CASE disk[f].src = Absent
      BY <1>4, <2>2, <3>1 DEF ReadStat, ReadError, Return, TInv
    <3>2. CASE disk[f].src # Absent
      BY <1>4, <2>2, <3>2 DEF ReadStat, TInv
    <3> QED BY <3>1, <3>2
  <2>5. DoneInv'
    <3>1. CASE UNCHANGED gens
      BY <2>1, <2>2, <2>4, <3>1, DoneKept
    <3>2. CASE InvalidateAll
      BY <2>2, <3>2, InvalidatedDone
    <3> QED BY <1>4, <3>1, <3>2 DEF ReadStat
  <2>6. GraphInv'
    BY <2>1, <2>2, GraphKept
  <2> QED BY <2>1, <2>2, <2>3, <2>5, <2>6, OthersKept DEF HydrationInv
<1>5. ASSUME ReadBytes(w) PROVE HydrationInv'
  <2>1. Others(w) /\ Kept
    BY <1>5, StepOthers, ReadKept DEF Step
  <2>2. /\ UNCHANGED <<mix, disk, graph, dirty, ungraphed, gens, done>> /\ pc[w] = "read"
        /\ f \in Files /\ ret[w] \in ReadFor
    BY <1>5 DEF ReadBytes, TInv
  <2>3. WorkerInv(w)'
    <3>1. CASE disk[f].src = Absent
      BY <1>1, <1>5, <2>1, <2>2, <3>1 DEF ReadBytes
    <3>2. CASE disk[f].src # Absent
      <4>1. UNCHANGED <<ret, file, todo, found, marks, failed>> /\ pc'[w] = "insert" /\ got'[w] = disk[f].src
        BY <1>5, <3>2 DEF ReadBytes, TInv
      <4>2. ScannedAt(w)'
        BY <1>3, <2>1, <2>2, <4>1 DEF ScannedAt, Kept
      <4> QED BY <1>2, <2>1, <2>2, <4>1, <4>2
    <3> QED BY <3>1, <3>2
  <2> QED BY <2>1, <2>2, <2>3, PlainStep
<1>6. ASSUME ReadInsert(w) PROVE HydrationInv'
  <2>1. Others(w) /\ Kept
    BY <1>6, StepOthers, ReadKept DEF Step
  <2>2. /\ UNCHANGED <<mix, disk, graph, dirty, ungraphed, gens, done>> /\ pc[w] = "insert"
        /\ f \in Files /\ ret[w] \in ReadFor /\ pc'[w] = ret[w]
        /\ UNCHANGED <<ret, file, todo, found, marks, failed, got>>
    BY <1>6 DEF ReadInsert, TInv
  <2>3. ScannedAt(w)'
    BY <2>1, <2>2 DEF HydrationInv, WorkerInv, ScannedAt, Kept
  <2>4. WorkerInv(w)'
    BY <1>2, <2>1, <2>2, <2>3
  <2> QED BY <2>1, <2>2, <2>4, PlainStep
<1> QED BY <1>4, <1>5, <1>6

\* The discovery of candidates.
LEMMA DiscoverHydration ==
    ASSUME TInv, SourceInv, Orderly, HydrationInv, TInv', NEW w \in Workers
    PROVE  /\ DiscoverFiles(w) => HydrationInv'
           /\ DiscoverCached(w) => HydrationInv'
           /\ DiscoverGraph(w) => HydrationInv'
           /\ DiscoverFails(w) => HydrationInv'
<1> DEFINE Same == UNCHANGED <<mix, disk, index, unseen, graph, dirty, ungraphed, gens, done>>
<1>1. ASSUME pc[w] = "discover" PROVE marks[w] = {}
  BY <1>1 DEF TInv
<1>2. ASSUME Scan(w), Same, pc[w] = "discover", UNCHANGED <<ret, found, failed>>, Others(w), Kept
      PROVE  HydrationInv'
  <2>1. CASE IsComplete("filesystem", req[w])
    <3>1. pc'[w] = "select" /\ marks'[w] = {}
      BY <1>1, <1>2, <2>1 DEF Scan, TInv
    <3>2. WorkerInv(w)'
      BY <3>1 DEF WorkerInv, EditedAt, ScannedAt, PendingAt
    <3> QED BY <1>2, <3>1, <3>2, PlainStep
  <2>2. CASE ~ IsComplete("filesystem", req[w])
    <3>1. pc'[w] = "scan" /\ marks'[w] = {"filesystem"} /\ todo'[w] = {f \in Files : disk[f].src # Absent}
      BY <1>2, <2>2 DEF Scan, TInv
    <3>2. ASSUME NEW f \in Files PROVE f \in Pending(w)' \/ Hydrated(f)'
      <4>1. disk[f].src = Absent => Hydrated(f)
        BY <1>2, PlainlyHydrated
      <4>2. disk[f].src # Absent => f \in Pending(w)'
        BY <3>1 DEF Pending
      <4> QED BY <1>2, <4>1, <4>2 DEF Kept
    <3>3. WorkerInv(w)'
      BY <3>1, <3>2 DEF WorkerInv, EditedAt, ScannedAt, PendingAt
    <3> QED BY <1>2, <3>1, <3>3, PlainStep
  <2> QED BY <2>1, <2>2
<1>3. ASSUME DiscoverFiles(w) PROVE HydrationInv'
  <2>1. Others(w) /\ Kept
    BY <1>3, StepOthers, QuietActions, QuietKept DEF Step, QuietAction
  <2> QED BY <1>2, <1>3, <2>1 DEF DiscoverFiles
<1>4. ASSUME DiscoverFails(w) PROVE HydrationInv'
  <2>1. Others(w) /\ Kept
    BY <1>4, StepOthers, QuietActions, QuietKept DEF Step, QuietAction
  <2> QED BY <1>2, <1>4, <2>1 DEF DiscoverFails
<1>5. ASSUME DiscoverCached(w) PROVE HydrationInv'
  <2>1. Others(w) /\ Kept
    BY <1>5, StepOthers, QuietActions, QuietKept DEF Step, QuietAction
  <2>2. Same /\ pc[w] = "discover" /\ pc'[w] = "select" /\ UNCHANGED marks
    BY <1>5 DEF DiscoverCached, TInv
  <2>3. WorkerInv(w)'
    BY <1>1, <2>2 DEF WorkerInv, EditedAt, ScannedAt, PendingAt
  <2> QED BY <2>1, <2>2, <2>3, PlainStep
<1>6. ASSUME DiscoverGraph(w) PROVE HydrationInv'
  <2>1. Others(w) /\ Kept
    BY <1>6, StepOthers, QuietActions, QuietKept DEF Step, QuietAction
  <2>2. /\ UNCHANGED <<mix, disk, ungraphed, gens, done>> /\ pc[w] = "discover" /\ pc'[w] = "select"
        /\ mix.bridge /\ found'[w] = {f \in Files : graph'[f] \in Mentions}
    BY <1>6 DEF DiscoverGraph, TInv
  <2>3. \/ /\ graph' = IF dirty THEN [f \in Files |-> disk[f].src] ELSE graph
           /\ dirty' = FALSE
        \/ UNCHANGED <<graph, dirty, marks>>
    BY <1>6 DEF DiscoverGraph
  <2>4. GraphInv'
    <3>1. \A f \in Files : Marking(f) => Marking(f)'
      BY <2>1, <2>2 DEF Marking, Others
    <3>2. CASE UNCHANGED <<graph, dirty>>
      BY <2>1, <2>2, <3>2, GraphKept
    <3>3. CASE graph' = [f \in Files |-> disk[f].src]
      BY <2>2, <3>3 DEF GraphInv
    <3>4. CASE graph' = graph /\ ~ dirty
      BY <2>2, <3>1, <3>4 DEF HydrationInv, GraphInv
    <3> QED BY <2>3, <3>2, <3>3, <3>4
  <2>5. PendingAt(w)'
    <3>1. CASE UNCHANGED marks
      <4>1. marks'[w] = {}
        BY <1>1, <2>2, <3>1
      <4> QED BY <4>1 DEF PendingAt
    <3>2. CASE graph' = IF dirty THEN [f \in Files |-> disk[f].src] ELSE graph
      <4>1. ASSUME NEW f \in Files, f \notin ungraphed, graph'[f] \notin Mentions PROVE Hydrated(f)
        <5>1. CASE dirty
          <6>1. graph'[f] = disk[f].src
            BY <3>2, <5>1
          <6> QED BY <2>2, <4>1, <6>1, PlainlyHydrated
        <5>2. CASE Marking(f)
          <6>1. CASE MidEdit(f)
            BY <2>2, <6>1, PlainlyHydrated
          <6>2. CASE ~MidEdit(f)
            BY <5>2, <6>2 DEF Marking, MidEdit, HydrationInv, WorkerInv, EditedAt
          <6> QED BY <6>1, <6>2
        <5>3. CASE ~dirty /\ ~Marking(f)
          <6>1. disk[f].src \notin Mentions
            BY <2>2, <3>2, <4>1, <5>3 DEF HydrationInv, GraphInv
          <6> QED BY <2>2, <6>1, PlainlyHydrated
        <5> QED BY <5>1, <5>2, <5>3
      <4>2. Pending(w)' = found'[w]
        BY <2>2 DEF Pending
      <4>3. marks'[w] \subseteq {"cbm"}
        <5>1. marks' = [marks EXCEPT ![w] = {"cbm"}] \/ marks' = marks
          BY <1>6 DEF DiscoverGraph
        <5> QED BY <1>1, <2>2, <5>1 DEF TInv
      <4> QED BY <2>1, <2>2, <4>1, <4>2, <4>3 DEF PendingAt, Kept
    <3> QED BY <2>3, <3>1, <3>2
  <2>6. WorkerInv(w)'
    BY <2>2, <2>5 DEF WorkerInv, EditedAt, ScannedAt
  <2>7. DoneInv'
    BY <2>1, <2>2, DoneKept
  <2> QED BY <2>1, <2>2, <2>4, <2>6, <2>7, OthersKept DEF HydrationInv
<1> QED BY <1>3, <1>4, <1>5, <1>6

\* The scan of the files, and the selection of candidates.
LEMMA ScanHydration ==
    ASSUME TInv, SourceInv, Orderly, HydrationInv, TInv', NEW w \in Workers
    PROVE  /\ ScanNext(w) => HydrationInv'
           /\ Scanned(w) => HydrationInv'
           /\ ScanDone(w) => HydrationInv'
           /\ Select(w) => HydrationInv'
<1> DEFINE Same == UNCHANGED <<mix, disk, index, unseen, graph, dirty, ungraphed, gens, done>>
<1>1. ASSUME Kept, UNCHANGED <<marks, failed, ungraphed>>,
             \A f \in Files : f \in Pending(w) => f \in Pending(w)' \/ Hydrated(f)
      PROVE  PendingAt(w)'
  BY <1>1 DEF HydrationInv, WorkerInv, PendingAt, Kept
<1>2. ASSUME ScanNext(w) PROVE HydrationInv'
  <2>1. Others(w) /\ Kept
    BY <1>2, StepOthers, QuietActions, QuietKept DEF Step, QuietAction
  <2>2. Same /\ pc[w] = "scan" /\ pc'[w] = "stat" /\ ret'[w] = "scanned"
        /\ UNCHANGED <<marks, failed, todo, found>>
    BY <1>2 DEF ScanNext, TInv
  <2>3. Pending(w)' = Pending(w)
    BY <2>2 DEF Pending
  <2>4. WorkerInv(w)'
    BY <1>1, <2>1, <2>2, <2>3 DEF WorkerInv, EditedAt, ScannedAt
  <2> QED BY <2>1, <2>2, <2>4, PlainStep
<1>3. ASSUME Scanned(w) PROVE HydrationInv'
  <2>1. Others(w) /\ Kept
    BY <1>3, StepOthers, QuietActions, QuietKept DEF Step, QuietAction
  <2>2. Same /\ pc[w] = "scanned" /\ pc'[w] = "scan" /\ UNCHANGED <<marks, failed>>
        /\ todo'[w] = todo[w] \ {file[w]} /\ file[w] \in Files
    BY <1>3 DEF Scanned, TInv
  <2>3. found'[w] = IF got[w] \in Mentions THEN found[w] \union {file[w]} ELSE found[w]
    BY <1>3 DEF Scanned, TInv
  <2>4. got[w] \in Mentions \/ Hydrated(file[w])
    BY <2>2 DEF HydrationInv, WorkerInv, ScannedAt
  <2>5. ASSUME NEW f \in Files, f \in Pending(w) PROVE f \in Pending(w)' \/ Hydrated(f)
    BY <2>2, <2>3, <2>4, <2>5 DEF Pending
  <2>6. WorkerInv(w)'
    BY <1>1, <2>1, <2>2, <2>5 DEF WorkerInv, EditedAt, ScannedAt
  <2> QED BY <2>1, <2>2, <2>6, PlainStep
<1>4. ASSUME ScanDone(w) PROVE HydrationInv'
  <2>1. Others(w) /\ Kept
    BY <1>4, StepOthers, QuietActions, QuietKept DEF Step, QuietAction
  <2>2. Same /\ pc[w] = "scan" /\ pc'[w] = "select" /\ UNCHANGED <<marks, failed, todo, found>> /\ todo[w] = {}
    BY <1>4 DEF ScanDone, TInv
  <2>3. Pending(w)' = Pending(w)
    BY <2>2 DEF Pending
  <2>4. WorkerInv(w)'
    BY <1>1, <2>1, <2>2, <2>3 DEF WorkerInv, EditedAt, ScannedAt
  <2> QED BY <2>1, <2>2, <2>4, PlainStep
<1>5. ASSUME Select(w) PROVE HydrationInv'
  <2>1. Others(w) /\ Kept
    BY <1>5, StepOthers, QuietActions, QuietKept DEF Step, QuietAction
  <2>2. Same /\ pc[w] = "select" /\ pc'[w] = "compile" /\ UNCHANGED <<marks, failed, found>>
        /\ todo'[w] = {f \in found[w] : disk[f].src # Absent /\ (req[w] = "edit" => index[f] = None)}
    BY <1>5 DEF Select, TInv
  <2>3. ASSUME NEW f \in Files, f \in Pending(w) PROVE f \in Pending(w)' \/ Hydrated(f)
    <3>1. f \in found[w] /\ Pending(w)' = todo'[w]
      BY <2>2, <2>3 DEF Pending
    <3>2. disk[f].src \notin Mentions => Hydrated(f)
      BY <2>2, PlainlyHydrated
    <3> QED BY <2>2, <3>1, <3>2 DEF Hydrated
  <2>4. WorkerInv(w)'
    BY <1>1, <2>1, <2>2, <2>3 DEF WorkerInv, EditedAt, ScannedAt
  <2> QED BY <2>1, <2>2, <2>4, PlainStep
<1> QED BY <1>2, <1>3, <1>4, <1>5

\* The compilation of candidates.
LEMMA CompileHydration ==
    ASSUME TInv, SourceInv, Orderly, HydrationInv, TInv', NEW w \in Workers
    PROVE  /\ CompileNext(w) => HydrationInv'
           /\ Hashed(w) => HydrationInv'
           /\ Compiled(w) => HydrationInv'
           /\ CommitSuperseded(w) => HydrationInv'
           /\ CommitCheck(w) => HydrationInv'
<1> DEFINE Same == UNCHANGED <<mix, disk, index, unseen, graph, dirty, ungraphed, gens, done>>
           Compiling == {"compile", "hashed", "compiled", "commit", "checked"} \union RecoverAt
<1>1. ASSUME Kept, UNCHANGED <<marks, failed, ungraphed>>, Where(w) \in Compiling, Where(w)' \in Compiling,
             pc'[w] \notin {"insert", "editDiscovery"},
             \A f \in Files : f \in todo[w] => f \in todo'[w] \/ Hydrated(f)
      PROVE  WorkerInv(w)'
  <2>1. Pending(w) = todo[w] /\ Pending(w)' = todo'[w]
    BY <1>1 DEF Pending
  <2>2. PendingAt(w)'
    BY <1>1, <2>1 DEF HydrationInv, WorkerInv, PendingAt, Kept
  <2>3. pc'[w] # "scanned"
    BY <1>1
  <2> QED BY <1>1, <2>2, <2>3 DEF WorkerInv, EditedAt, ScannedAt
<1>2. ASSUME CompileNext(w) PROVE HydrationInv'
  <2>1. Others(w) /\ Kept
    BY <1>2, StepOthers, QuietActions, QuietKept DEF Step, QuietAction
  <2>2. Same /\ pc[w] = "compile" /\ pc'[w] \in {"stat", "preflight"} /\ ret'[w] \in {"hashed", "compiled"}
        /\ UNCHANGED <<marks, failed, todo>>
    <3>1. PICK f \in todo[w] : IF req[w] = "semantic" THEN Call(w, f, "hashed") ELSE Compile(w, f)
      BY <1>2 DEF CompileNext
    <3>2. Same /\ pc[w] = "compile" /\ UNCHANGED <<marks, failed, todo>>
      BY <1>2 DEF CompileNext
    <3>3. Compilation(w) = "compiled"
      BY <3>2 DEF Compilation, TInv
    <3>4. pc'[w] \in {"stat", "preflight"} /\ ret'[w] \in {"hashed", "compiled"}
      BY <3>1, <3>3 DEF Compile, TInv
    <3> QED BY <3>2, <3>4
  <2>4. WorkerInv(w)'
    BY <1>1, <2>1, <2>2
  <2> QED BY <2>1, <2>2, <2>4, PlainStep
<1>3. ASSUME Hashed(w) PROVE HydrationInv'
  <2>1. Others(w) /\ Kept
    BY <1>3, StepOthers, QuietActions, QuietKept DEF Step, QuietAction
  <2>2. Same /\ pc[w] = "hashed" /\ UNCHANGED <<marks, failed>>
    BY <1>3 DEF Hashed
  <2>3. CASE IsCurrent(file[w], got[w])
    <3>1. pc'[w] = "compile" /\ todo'[w] = todo[w] \ {file[w]}
      BY <1>3, <2>3 DEF Hashed, TInv
    <3>2. Hydrated(file[w])
      BY <2>3 DEF IsCurrent, Hydrated
    <3>3. WorkerInv(w)'
      BY <1>1, <2>1, <2>2, <3>1, <3>2
    <3> QED BY <2>1, <2>2, <3>1, <3>3, PlainStep
  <2>4. CASE ~ IsCurrent(file[w], got[w])
    <3>1. pc'[w] \in {"stat", "preflight"} /\ ret'[w] = "compiled" /\ UNCHANGED todo
      <4>1. Compile(w, file[w]) /\ UNCHANGED todo
        BY <1>3, <2>4 DEF Hashed
      <4>2. Compilation(w) = "compiled"
        BY <2>2 DEF Compilation, TInv
      <4> QED BY <4>1, <4>2 DEF Compile, TInv
    <3>3. WorkerInv(w)'
      BY <1>1, <2>1, <2>2, <3>1
    <3> QED BY <2>1, <2>2, <3>1, <3>3, PlainStep
  <2> QED BY <2>3, <2>4
<1>4. ASSUME Compiled(w) PROVE HydrationInv'
  <2>1. Others(w) /\ Kept
    BY <1>4, StepOthers, QuietActions, QuietKept DEF Step, QuietAction
  <2>2. Same /\ pc[w] = "compiled" /\ pc'[w] = "commit" /\ UNCHANGED <<marks, failed, todo>>
    BY <1>4 DEF Compiled, TInv
  <2>4. WorkerInv(w)'
    BY <1>1, <2>1, <2>2
  <2> QED BY <2>1, <2>2, <2>4, PlainStep
<1>5. ASSUME CommitSuperseded(w) PROVE HydrationInv'
  <2>1. Others(w) /\ Kept
    BY <1>5, StepOthers, QuietActions, QuietKept DEF Step, QuietAction
  <2>2. Same /\ pc[w] = "commit" /\ pc'[w] = "compile" /\ failed'[w] = TRUE
    BY <1>5 DEF CommitSuperseded, TInv
  <2>4. WorkerInv(w)'
    BY <2>2 DEF WorkerInv, EditedAt, ScannedAt, PendingAt
  <2> QED BY <2>1, <2>2, <2>4, PlainStep
<1>6. ASSUME CommitCheck(w) PROVE HydrationInv'
  <2>1. Others(w) /\ Kept
    BY <1>6, StepOthers, QuietActions, QuietKept DEF Step, QuietAction
  <2>2. Same /\ pc[w] = "commit" /\ pc'[w] = "stat" /\ ret'[w] = "checked" /\ UNCHANGED <<marks, failed, todo>>
    BY <1>6 DEF CommitCheck, TInv
  <2>4. WorkerInv(w)'
    BY <1>1, <2>1, <2>2
  <2> QED BY <2>1, <2>2, <2>4, PlainStep
<1> QED BY <1>2, <1>3, <1>4, <1>5, <1>6

\* The recovery before a compilation.
LEMMA RecoverHydration ==
    ASSUME TInv, SourceInv, Orderly, HydrationInv, TInv', NEW w \in Workers
    PROVE  /\ PreflightNone(w) => HydrationInv'
           /\ PreflightRecovers(w) => HydrationInv'
           /\ PreflightFails(w) => HydrationInv'
           /\ HydrateRecovered(w) => HydrationInv'
<1> DEFINE Same == UNCHANGED <<mix, disk, graph, dirty, ungraphed, gens, done>>
<1>1. ASSUME PreflightNone(w) \/ PreflightRecovers(w) PROVE HydrationInv'
  <2>1. Others(w) /\ Kept
    BY <1>1, StepOthers, QuietActions, QuietKept DEF Step, QuietAction
  <2>2. Same /\ pc[w] = "preflight" /\ pc'[w] = "stat" /\ ret'[w] \in {"recovered", Compilation(w)}
        /\ UNCHANGED <<op, todo, found, marks, failed>>
    BY <1>1 DEF PreflightNone, PreflightRecovers, TInv
  <2>3. WorkerInv(w)'
    BY <2>1, <2>2, RecoveryWorker
  <2> QED BY <2>1, <2>2, <2>3, PlainStep
<1>2. ASSUME PreflightFails(w) PROVE HydrationInv'
  <2>1. Others(w) /\ Kept
    BY <1>2, StepOthers, QuietActions, QuietKept DEF Step, QuietAction
  <2>2. Same /\ pc[w] = "preflight" /\ pc'[w] = "idle"
    BY <1>2 DEF PreflightFails, Return, TInv
  <2>3. WorkerInv(w)'
    BY <2>2, OutsideQuery
  <2> QED BY <2>1, <2>2, <2>3, PlainStep
<1>3. ASSUME HydrateRecovered(w) PROVE HydrationInv'
  <2>1. Others(w) /\ Kept
    BY <1>3, StepOthers, PublishKept DEF Step
  <2>2. Same /\ pc[w] = "recovered" /\ pc'[w] = "stat" /\ ret'[w] = Compilation(w)
        /\ UNCHANGED <<op, todo, found, marks, failed>>
    BY <1>3 DEF HydrateRecovered, TInv
  <2>3. WorkerInv(w)'
    BY <2>1, <2>2, RecoveryWorker
  <2> QED BY <2>1, <2>2, <2>3, PlainStep
<1> QED BY <1>1, <1>2, <1>3

\* A publication: an empty compilation is of a file that does not mention the name.
LEMMA CommitHydration ==
    ASSUME TInv, SourceInv, Orderly, HydrationInv, TInv', NEW w \in Workers, Commit(w)
    PROVE  HydrationInv'
<1> DEFINE f == file[w]
<1>1. Others(w) /\ Kept
  BY StepOthers, PublishKept DEF Step
<1>2. /\ UNCHANGED <<mix, disk, unseen, graph, dirty, ungraphed, gens, done, file, marks>>
      /\ pc[w] = "checked" /\ pc'[w] = "compile" /\ todo'[w] = todo[w] \ {f}
      /\ f \in Files /\ built[w] \in Contents
  <2>1. /\ UNCHANGED <<mix, disk, unseen, graph, dirty, ungraphed, gens, done, file, marks>>
        /\ pc[w] = "checked" /\ pc' = [pc EXCEPT ![w] = "compile"]
        /\ todo' = [todo EXCEPT ![w] = @ \ {f}]
    BY DEF Commit
  <2>2. pc \in [Workers -> Steps] /\ todo \in [Workers -> SUBSET Files]
    BY DEF TInv
  <2>3. f \in Files /\ built[w] \in Contents
    BY <2>1 DEF TInv
  <2> HIDE DEF Steps
  <2> QED BY <2>1, <2>2, <2>3
<1>3. CASE ~ Publishable(w)
  <2>1. failed'[w] = TRUE
    BY <1>3 DEF Commit, TInv
  <2>2. WorkerInv(w)'
    BY <1>2, <2>1 DEF WorkerInv, EditedAt, ScannedAt, PendingAt
  <2> QED BY <1>1, <1>2, <2>2, PlainStep
<1>4. CASE Publishable(w)
  <2>1. UNCHANGED failed
    BY <1>4 DEF Commit
  <2>2. Hydrated(f)'
    <3>1. CASE req[w] = "semantic" \/ built[w] \in Mentions
      <4>1. index' = [index EXCEPT ![f] = [src |-> built[w], covered |-> req[w] = "semantic"]]
        BY <1>4, <3>1 DEF Commit
      <4>2. index'[f] = [src |-> built[w], covered |-> req[w] = "semantic"]
        BY <1>2, <4>1 DEF TInv
      <4> QED BY <1>2, <4>2, EntryIsEntry DEF Hydrated
    <3>2. CASE built[w] \notin Mentions
      <4>1. f \notin unseen => built[w] = disk[f].src
        BY <1>2, <1>4 DEF Publishable, SourceInv, ReadCurrent
      <4>2. mix.store => ~MidEdit(f)'
        <5>1. \A g \in Files : MidEdit(g)' => MidEdit(g)
          BY <1>1, <1>2 DEF MidEdit, Others
        <5> QED BY <1>2, <5>1, NoStoreEdit
      <4> QED BY <1>2, <3>2, <4>1, <4>2 DEF Hydrated
    <3> QED BY <3>1, <3>2
  <2>3. PendingAt(w)'
    <3>1. Pending(w) = todo[w] /\ Pending(w)' = todo'[w]
      BY <1>2 DEF Pending
    <3> QED BY <1>1, <1>2, <2>1, <2>2, <3>1 DEF HydrationInv, WorkerInv, PendingAt, Kept
  <2>4. WorkerInv(w)'
    BY <1>2, <2>3 DEF WorkerInv, EditedAt, ScannedAt
  <2> QED BY <1>1, <1>2, <2>4, PlainStep
<1> QED BY <1>3, <1>4

\* The answer records the completion: nothing is left to look at.
LEMMA AnswerHydration ==
    ASSUME TInv, SourceInv, Orderly, HydrationInv, TInv', NEW w \in Workers, Answer(w)
    PROVE  HydrationInv'
<1>1. Others(w) /\ Kept
  BY StepOthers, QuietActions, QuietKept DEF Step, QuietAction
<1>2. UNCHANGED <<mix, disk, graph, dirty, ungraphed>> /\ pc[w] = "compile" /\ pc'[w] = "idle"
      /\ todo[w] = {} /\ MarkComplete(IF failed[w] THEN {} ELSE marks[w], req[w])
  BY DEF Answer, Return, TInv
<1>3. WorkerInv(w)'
  BY <1>2, OutsideQuery
<1>4. GraphInv'
  BY <1>1, <1>2, GraphKept
<1>5. DoneInv'
  <2> SUFFICES ASSUME NEW s \in Scopes, NEW r \in Requirements, IsComplete(s, r)',
                      \A v \in Workers : pc'[v] \notin RefreshAt,
                      NEW f \in Files, s = "cbm" => f \notin ungraphed
               PROVE  Hydrated(f)'
    BY <1>2 DEF DoneInv
  <2>1. CASE ~failed[w] /\ s \in marks[w]
    <3>1. Pending(w) = {}
      BY <1>2 DEF Pending
    <3> QED BY <1>1, <2>1, <3>1 DEF HydrationInv, WorkerInv, PendingAt, Kept
  <2>2. CASE ~ (~failed[w] /\ s \in marks[w])
    <3>1. <<s, r>> \in DOMAIN done /\ <<s, r>>[1] = s
      BY DEF TInv
    <3>2. done'[<<s, r>>] = done[<<s, r>>] /\ gens'[s] = gens[s]
      BY <1>2, <2>2, <3>1 DEF MarkComplete
    <3>3. IsComplete(s, r)
      BY <3>2 DEF IsComplete, Generation
    <3>4. \A v \in Workers : pc[v] \notin RefreshAt
      BY <1>1, <1>2 DEF Others
    <3> QED BY <1>1, <3>3, <3>4 DEF HydrationInv, DoneInv, Kept
  <2> QED BY <2>1, <2>2
<1> QED BY <1>1, <1>2, <1>3, <1>4, <1>5, OthersKept DEF HydrationInv

\* The world, and stuttering.
LEMMA WorldHydration ==
    ASSUME TInv, HydrationInv
    PROVE  /\ \A f \in Files : OutsideWrite(f) => HydrationInv'
           /\ CbmFollows => HydrationInv'
           /\ UNCHANGED vars => HydrationInv'
<1>1. ASSUME NEW f \in Files, OutsideWrite(f) PROVE HydrationInv'
  <2>1. Kept
    BY <1>1, OutsideKept
  <2>2. /\ UNCHANGED <<mix, graph, dirty, gens, done, pc, op, req, file, todo, found, marks, failed,
                       stamp, got, ret, built>>
        /\ ungraphed' = ungraphed \union {f} /\ \A g \in Files \ {f} : disk'[g] = disk[g]
    BY <1>1 DEF OutsideWrite, TInv
  <2>3. ASSUME NEW v \in Workers PROVE WorkerInv(v)'
    <3>1. pc[v] \in {"editDiscovery", "insert", "scanned"} => file[v] \in Files
      BY DEF TInv
    <3>2. Pending(v)' = Pending(v)
      BY <2>2 DEF Pending
    <3>3. EditedAt(v)' /\ ScannedAt(v)'
      BY <2>1, <2>2, <3>1 DEF HydrationInv, WorkerInv, EditedAt, ScannedAt, Kept
    <3>4. PendingAt(v)'
      BY <2>1, <2>2, <3>2 DEF HydrationInv, WorkerInv, PendingAt, Kept
    <3> QED BY <3>3, <3>4 DEF WorkerInv
  <2>4. GraphInv'
    BY <2>2 DEF HydrationInv, GraphInv, Marking
  <2>5. DoneInv'
    BY <2>1, <2>2 DEF HydrationInv, DoneInv, IsComplete, Generation, Kept
  <2> QED BY <2>3, <2>4, <2>5 DEF HydrationInv
<1>2. ASSUME UNCHANGED <<mix, disk, index, unseen, torn, dirty, ungraphed, gens, done, pc, file, todo, found, marks,
                        failed, got, ret>>, GraphInv'
      PROVE  HydrationInv'
  <2>1. \A f : Hydrated(f)' = Hydrated(f)
    BY <1>2 DEF Hydrated, MidEdit, Editor
  <2>2. \A v \in Workers : Pending(v)' = Pending(v)
    BY <1>2 DEF Pending
  <2>3. \A v \in Workers : WorkerInv(v)'
    BY <1>2, <2>1, <2>2 DEF HydrationInv, WorkerInv, EditedAt, ScannedAt, PendingAt
  <2>4. DoneInv'
    BY <1>2, <2>1 DEF HydrationInv, DoneInv, IsComplete, Generation
  <2> QED BY <1>2, <2>3, <2>4 DEF HydrationInv
<1>3. ASSUME CbmFollows PROVE HydrationInv'
  <2>1. GraphInv'
    BY <1>3 DEF CbmFollows, GraphInv
  <2> QED BY <1>2, <1>3, <2>1 DEF CbmFollows
<1>4. ASSUME UNCHANGED vars PROVE HydrationInv'
  <2>1. GraphInv'
    BY <1>4 DEF vars, HydrationInv, GraphInv, Marking
  <2> QED BY <1>2, <1>4, <2>1 DEF vars
<1> QED BY <1>1, <1>3, <1>4

\* All three invariants.
HInv == SInv /\ (Orderly => HydrationInv)

\* In orderly sessions every file is hydrated, failed, or still to be looked at
\* by each query that will record a completion.
THEOREM HydrationInvariance == Spec => []HInv
<1>1. Init => HInv
  <2> SUFFICES ASSUME Init PROVE HInv
    OBVIOUS
  <2>1. SInv
    BY SourceInitially
  <2>2. \A w \in Workers : WorkerInv(w)
    BY DEF Init, Everyone, WorkerInv, EditedAt, ScannedAt, PendingAt
  <2>3. GraphInv
    BY DEF Init, GraphInv
  <2>4. DoneInv
    <3>1. \A s \in Scopes, r \in Requirements : <<s, r>> \in Scopes \X Requirements
      OBVIOUS
    <3> QED BY <3>1 DEF Init, DoneInv, IsComplete
  <2> QED BY <2>1, <2>2, <2>3, <2>4 DEF HInv, HydrationInv
<1>2. HInv /\ [Next]_vars => HInv'
  <2> SUFFICES ASSUME HInv, [Next]_vars PROVE HInv'
    OBVIOUS
  <2>1. SInv'
    BY SourceStep DEF HInv
  <2>2. TInv /\ TInv' /\ (Orderly => SourceInv /\ HydrationInv)
    BY <2>1 DEF HInv, SInv
  <2>3. Orderly' => Orderly
    BY <2>2, MixKept DEF Orderly
  <2>4. ASSUME Orderly, NEW w \in Workers, Step(w) PROVE HydrationInv'
    BY <2>2, <2>4, OtherHydration, EditHydration, EditUndoHydration, RecoverHydration, RefreshHydration, ReadHydration, DiscoverHydration,
       ScanHydration, CompileHydration, CommitHydration, AnswerHydration DEF Step
  <2>5. ASSUME Orderly, ~ \E w \in Workers : Step(w) PROVE HydrationInv'
    BY <2>2, <2>5, WorldHydration DEF Next
  <2> QED BY <2>1, <2>3, <2>4, <2>5 DEF HInv
<1> QED BY <1>1, <1>2, PTL DEF Spec

\* Where discovery is recorded as complete, every file that mentions the name is
\* in the index with its present bytes (hydration.rs), for any number of queries
\* and edits in any interleaving.
THEOREM DiscoveryStaysHydrated == Spec => []OrderlyDiscovery
<1>1. HInv => OrderlyDiscovery
  <2> SUFFICES ASSUME HInv, Orderly, NEW s \in Scopes, NEW r \in Requirements, NEW f \in Files, f \notin unseen \union torn,
                      IsComplete(s, r), disk[f].src \in Mentions, ~Editing(f), ~Reconciling,
                      s = "cbm" => f \notin ungraphed
               PROVE  index[f] # None /\ index[f].src = disk[f].src
    BY DEF OrderlyDiscovery, HydratedWhenComplete
  <2>1. TInv /\ SourceInv /\ HydrationInv
    BY DEF HInv, SInv
  <2>2. \A w \in Workers : pc[w] \notin RefreshAt
    BY <2>1 DEF Reconciling, TInv
  <2>3. ~MidEdit(f)
    BY DEF MidEdit, Editing
  <2>4. Hydrated(f)
    BY <2>1, <2>2 DEF HydrationInv, DoneInv
  <2> QED BY <2>1, <2>3, <2>4 DEF Hydrated, SourceInv, FactsInv
<1> QED BY <1>1, HydrationInvariance, PTL
=============================================================================
