---------------------------- MODULE ProxyWindow -----------------------------
(***************************************************************************)
(* What the HTTP proxy does to the bodies of one conversation.  The client *)
(* resends the whole conversation with every request; the proxy replaces   *)
(* tool results that are old by a stub (age_tool_results) and then places  *)
(* prompt-cache breakpoints (inject_breakpoints).                          *)
(*                                                                         *)
(* A block has a type, the path its text names (or none) and whether the   *)
(* client put a breakpoint on it; the text itself is left out.  One path's *)
(* text may be part of another's.                                          *)
(***************************************************************************)
EXTENDS Naturals, Sequences, FiniteSets

CONSTANTS
    Paths, NoPath,
    PartOf,         \* pairs <<p, q>>: p is a part of the text of q
    MaxAgeTurns,    \* sliding_window_max_age_turns
    PreserveFloor,  \* sliding_window_force_preserve_floor
    MaxMessages     \* bound: messages of the conversation

ASSUME WindowAssumption == MaxAgeTurns \in Nat /\ PreserveFloor \in Nat

VARIABLES
    messages,   \* the conversation
    sent,       \* positions <<i, j>> of the results the last request carried as stubs
    marks       \* breakpoints the last request carried: [part, i, j, ttl]

windowVars == <<messages, sent, marks>>

Text(p) == [type |-> "text", path |-> p, marked |-> FALSE]
Result(p, m) == [type |-> "tool_result", path |-> p, marked |-> m]

\* The messages a client sends: prompts and results of a user, calls of an
\* assistant.  One kind of message with a breakpoint of the client's suffices.
Turns ==
    {[role |-> "user", content |-> <<b>>] :
        b \in UNION {{Text(p), Result(p, FALSE)} : p \in Paths \union {NoPath}}}
      \union {[role |-> "user", content |-> <<Result(p, FALSE), Text(NoPath)>>] : p \in Paths}
      \union {[role |-> "user", content |-> <<Result(NoPath, TRUE), Text(NoPath)>>],
              [role |-> "assistant", content |->
                  <<[type |-> "tool_use", path |-> NoPath, marked |-> FALSE]>>]}

\* The rest of a body: the number of tools left by drop_tools, and for each
\* system block whether it is longer than SMALL_BLOCK_THRESHOLD.
Frames == [tools : 0..1, system : {<<>>, <<FALSE>>, <<TRUE, FALSE>>}]

-----------------------------------------------------------------------------
(* age_tool_results *)

Recent(ms) == {i \in 1..Len(ms) : i + PreserveFloor > Len(ms)}

RecentPaths(ms) ==
    UNION {{ms[i].content[j].path : j \in {k \in 1..Len(ms[i].content) :
                                             ms[i].content[k].type # "tool_use"}} :
            i \in Recent(ms)} \ {NoPath}

\* A recent path contains the result's.
CrossReferenced(p, paths) == \E q \in paths : p = q \/ <<p, q>> \in PartOf

\* Mutant: the comparison is reversed.
YoungWhenOld(i, n) == n - i + 1 > MaxAgeTurns

Young(i, n) == n - i + 1 <= MaxAgeTurns

Aged(ms) ==
    {p \in (1..Len(ms)) \X (1..2) :
        LET message == ms[p[1]] IN
        /\ p[1] \notin Recent(ms) /\ message.role = "user" /\ p[2] <= Len(message.content)
        /\ message.content[p[2]].type = "tool_result"
        /\ ~CrossReferenced(message.content[p[2]].path, RecentPaths(ms))
        /\ ~Young(p[1], Len(ms))}

-----------------------------------------------------------------------------
(* inject_breakpoints *)

\* has_any_breakpoints
ClientMarks(ms) ==
    {[part |-> "messages", i |-> p[1], j |-> p[2], ttl |-> "client"] :
        p \in {q \in (1..Len(ms)) \X (1..2) :
                 q[2] <= Len(ms[q[1]].content) /\ ms[q[1]].content[q[2]].marked}}

Cacheable(block) == block.type \in {"text", "tool_result"}

CacheableIn(ms, i) == {j \in 1..Len(ms[i].content) : Cacheable(ms[i].content[j])}

Largest(S) == CHOOSE x \in S : \A y \in S : y <= x

ToolsSlot(frame) ==
    IF frame.tools = 0 THEN {}
    ELSE {[part |-> "tools", i |-> frame.tools, j |-> 1, ttl |-> "1h"]}

SystemSlot(frame) ==
    LET large == {i \in 1..Len(frame.system) : frame.system[i]} IN
    IF large = {} THEN {} ELSE {[part |-> "system", i |-> Largest(large), j |-> 1, ttl |-> "1h"]}

FirstMessageSlot(ms) ==
    IF ms = <<>> \/ CacheableIn(ms, 1) = {} THEN {}
    ELSE {[part |-> "messages", i |-> 1, j |-> Largest(CacheableIn(ms, 1)), ttl |-> "1h"]}

\* Mutant: the search runs from the first message.
TailOfFirst(ms) ==
    LET with == {i \in 1..Len(ms) : CacheableIn(ms, i) # {}} IN
    IF with = {} THEN {}
    ELSE LET i == CHOOSE x \in with : \A y \in with : x <= y
             j == CHOOSE x \in CacheableIn(ms, i) : \A y \in CacheableIn(ms, i) : x <= y
         IN  {[part |-> "messages", i |-> i, j |-> j, ttl |-> "tail"]}

TailSlot(ms) ==
    LET with == {i \in 1..Len(ms) : CacheableIn(ms, i) # {}} IN
    IF with = {} THEN {}
    ELSE {[part |-> "messages", i |-> Largest(with),
           j |-> Largest(CacheableIn(ms, Largest(with))), ttl |-> "tail"]}

\* The tail's breakpoint replaces one already on its block.
Injected(ms, frame) ==
    LET tail == TailSlot(ms)
        over == {m \in FirstMessageSlot(ms) : \E t \in tail : t.i = m.i /\ t.j = m.j}
    IN  ToolsSlot(frame) \union SystemSlot(frame) \union (FirstMessageSlot(ms) \ over) \union tail

Breakpoints(ms, frame) ==
    IF ClientMarks(ms) # {} THEN ClientMarks(ms) ELSE Injected(ms, frame)

-----------------------------------------------------------------------------
WindowInit == messages = <<>> /\ sent = {} /\ marks = {}

\* The next request of the conversation: run the pipeline, then inject.
Request(turn, frame) ==
    /\ Len(messages) < MaxMessages
    /\ messages' = Append(messages, turn)
    /\ sent' = Aged(messages')
    /\ marks' = Breakpoints(messages', frame)

WindowNext == \E turn \in Turns, frame \in Frames : Request(turn, frame)

WindowSpec == WindowInit /\ [][WindowNext]_windowVars

-----------------------------------------------------------------------------
(* Properties *)

Order == [p \in {"tools", "system", "messages"} |->
            CASE p = "tools" -> 1 [] p = "system" -> 2 [] p = "messages" -> 3]

Earlier(m, n) ==
    \/ Order[m.part] < Order[n.part]
    \/ m.part = n.part /\ (m.i < n.i \/ (m.i = n.i /\ m.j < n.j))

\* A request carries at most four breakpoints and every one of the one-hour
\* kind lies before the short-lived tail; a client's own breakpoints are the
\* only ones when there are any (inject_breakpoints).
BreakpointsOrdered ==
    /\ ClientMarks(messages) = {} => Cardinality(marks) <= 4
    /\ \A m, n \in marks : m.ttl = "1h" /\ n.ttl = "tail" => Earlier(m, n)
    /\ ClientMarks(messages) # {} => \A m \in marks : m.ttl = "client"

\* From one request to the next the stubs stay: a result that was sent as a
\* stub comes back only when one of the most recent messages names its path
\* (age_tool_results), so the cached prefix changes at most once per result
\* and reference.
StubsStep ==
    \A p \in sent \ sent' :
        CrossReferenced(messages[p[1]].content[p[2]].path, RecentPaths(messages'))

StubsStay == [][StubsStep]_windowVars

\* "If a path string from a candidate aged item appears anywhere later in the
\* array, the item is preserved" (age_tool_results, rule 3).
LaterReferenceKeeps ==
    \A p \in sent : \A i \in (p[1] + 1)..Len(messages) : \A j \in 1..Len(messages[i].content) :
        LET own   == messages[p[1]].content[p[2]].path
            later == messages[i].content[j]
        IN  own # NoPath /\ later.type # "tool_use" => ~CrossReferenced(own, {later.path} \ {NoPath})
=============================================================================
