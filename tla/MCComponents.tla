--------------------------- MODULE MCComponents -----------------------------
(***************************************************************************)
(* One instance of each component that shares no state with the others:    *)
(* the workspace index, the buffered store, the CBM client, the CBM        *)
(* bridge, the proxy's transformations, the splice of apply_edit, delta    *)
(* replay, the session statistics and the hierarchical codec.  A behaviour *)
(* is one of the component `part' names; the others stay in their initial  *)
(* states: the reachable states are the disjoint union of the components'. *)
(***************************************************************************)
EXTENDS MCWorkspaceIndex, BufferedStore, CbmClient, GraphBridge, ProxyWindow, DeltaReplay

CONSTANTS pathA, pathAB

VARIABLES
    part,
    batch, report,
    session, contexts, persistent, board, recorded,
    stream, projection, received

\* The text of one path contains the other's.
MCPartOf == {<<pathA, pathAB>>}

\* Two bodies of one method and an effect, so that identities repeat.
MCTuples ==
    {[op |-> "BODY", key |-> "m", arg |-> "x"], [op |-> "BODY", key |-> "m", arg |-> "y"],
     [op |-> "EFFECT", key |-> "m", arg |-> "x"]}

\* Two adjacent units, the second without a line ending of its own, and a
\* caller whose transport turned CRLF into LF.
EditedSource == <<"head", "sig1", "a1", "crlf", "a2", "sig2", "b1", "tail">>
EditedUnits ==
    <<[qualified |-> "A.run", id |-> "M1", name |-> "run", body |-> <<2, 5>>, declaration |-> <<1, 5>>],
      [qualified |-> "B.run", id |-> "M2", name |-> "run", body |-> <<6, 7>>, declaration |-> <<5, 7>>]>>
EditRequest(kind, target, expected, text) ==
    [kind |-> kind, target |-> target, expected |-> expected, text |-> text]
EditRequests ==
    {EditRequest("replace_body", "A.run", <<"a1", "lf", "a2">>, <<"n">>),
     EditRequest("replace_body", "A.run", <<"a1", "lf", "a2">>, <<"m", "lf", "m", "lf", "m">>),
     EditRequest("replace_body", "M2", <<"b1">>, <<"o", "lf", "o">>),
     EditRequest("replace_body", "M2", <<"stale">>, <<"o">>),
     EditRequest("delete", "A.run", <<"a1", "crlf", "a2">>, <<>>),
     EditRequest("delete", "M2", <<"b1">>, <<>>),
     EditRequest("delete", "run", <<"b1">>, <<>>)}
    \union {EditRequest(kind, target, <<>>, text) :
               kind \in {"insert_before", "insert_after"}, target \in {"A.run", "M2"},
               text \in {<<"p", "lf">>, <<"q">>}}

Splicer == INSTANCE EditSplice WITH
    Source <- EditedSource, Units <- EditedUnits, Operations <- EditRequests, MaxOps <- 3

\* Two spellings of one file and another file; the shapes the handlers record.
RecordedPaths == {"f", "./f", "g"}
RecordedEvent(raw, compressed, strategy, domain) ==
    [raw |-> raw, compressed |-> compressed, strategy |-> strategy, domain |-> domain]
Stats == INSTANCE SessionStats WITH
    Spellings <- RecordedPaths,
    Canonical <- [s \in RecordedPaths \union {"__proxy__"} |-> IF s = "./f" THEN "f" ELSE s],
    Events <- {RecordedEvent(2, 2, "full", "verbatim"), RecordedEvent(3, 1, "full", "ir_compression"),
               RecordedEvent(1, 2, "full", "ir_compression"),
               RecordedEvent(1, 1, "delta", "ir_compression")},
    ToolEvents <- {[raw |-> 2, compressed |-> 1]},
    Rows <- {[raw |-> 4, compressed |-> 1, deltas |-> n] : n \in {0, 1}},
    MaxEvents <- 3

\* Four vocabularies: a class with its facts and a second base; methods with
\* parameters, two returns and a constructor pattern; an interface and a class of
\* its identity; a method with payloads that are refused and a field of its identity.
Instruction(op, on, id, arg) == [op |-> op, on |-> on, id |-> id, arg |-> arg]
ClassWords ==
    {Instruction("DEF_C", "", "c", "C"), Instruction("DEF_F", "c", "f", "F"),
     Instruction("FIELD_T", "f", "", "t"), Instruction("EXT", "c", "", "b"),
     Instruction("BASE_REF", "c", "", "b"), Instruction("IMPL", "c", "", "i"),
     Instruction("IMPL", "c", "", "j"), Instruction("INJECTS", "c", "", "d")}
MethodWords ==
    {Instruction("DEF_C", "", "c", "C"), Instruction("DEF_M", "c", "m", "M"),
     Instruction("DEF_M", "c", "n", "N"), Instruction("SIG", "m", "p", "t"),
     Instruction("SIG", "m", "q", "t"), Instruction("RET", "m", "", "t"),
     Instruction("RET", "m", "", "u"), Instruction("PAT", "c", "m", "CTOR"),
     Instruction("CALL", "m", "", "n")}
InterfaceWords ==
    {Instruction("DEF_I", "", "i", "I"), Instruction("DEF_C", "", "i", "I"),
     Instruction("DEF_IM", "i", "m", "M"), Instruction("DEF_IF", "i", "f", "F"),
     Instruction("FIELD_T", "f", "", "t"), Instruction("EXT_I", "i", "", "j"),
     Instruction("EFFECT", "m", "", "io"), Instruction("TYPE", "", "a", "t"),
     Instruction("IMP", "", "a", "mod")}
PayloadWords ==
    {Instruction("DEF_C", "", "c", "C"), Instruction("DEF_M", "c", "m", "M"),
     Instruction("DEF_F", "c", "m", "M"), Instruction("FLAGS", "m", "", "malformed"),
     Instruction("FLAGS", "m", "", "x"), Instruction("BODY", "m", "", "text"),
     Instruction("PAT", "c", "", "SERVICE"), Instruction("PAT", "c", "m", "GETTER")}
Codec == INSTANCE HierarchicalCodec WITH
    Vocabularies <- {ClassWords, MethodWords, InterfaceWords, PayloadWords},
    NoId <- "", Malformed <- "malformed", MaxStream <- 5

spliceVars == <<batch, report>>
statsVars == <<session, contexts, persistent, board, recorded>>
codecVars == <<stream, projection, received>>
lateVars == <<spliceVars, replayVars, statsVars, codecVars>>
allVars == <<part, vars, storeVars, clientVars, graphBridgeVars, windowVars, lateVars>>

\* A component that is not running starts in one of its initial states only.
StartReplay == ReplayInit /\ (part # "replay" => history = <<<<>>>>)
StartStats == Stats!StatsInit /\ (part # "stats" => persistent)

AllInit ==
    /\ part \in {"index", "store", "client", "bridge", "window", "splice", "replay", "stats",
                "codec"}
    /\ Init /\ StoreInit /\ ClientInit /\ BridgeInit /\ WindowInit
    /\ Splicer!SpliceInit /\ StartReplay /\ StartStats /\ Codec!CodecInit

IndexStep ==
    /\ part = "index" /\ Next
    /\ UNCHANGED <<part, storeVars, clientVars, graphBridgeVars, windowVars, lateVars>>
StoreStep ==
    /\ part = "store" /\ StoreNext
    /\ UNCHANGED <<part, vars, clientVars, graphBridgeVars, windowVars, lateVars>>
ClientStep ==
    /\ part = "client" /\ ClientNext
    /\ UNCHANGED <<part, vars, storeVars, graphBridgeVars, windowVars, lateVars>>
BridgeStep ==
    /\ part = "bridge" /\ BridgeNext
    /\ UNCHANGED <<part, vars, storeVars, clientVars, windowVars, lateVars>>
WindowStep ==
    /\ part = "window" /\ WindowNext
    /\ UNCHANGED <<part, vars, storeVars, clientVars, graphBridgeVars, lateVars>>

EditStep ==
    /\ part = "splice" /\ Splicer!SpliceNext
    /\ UNCHANGED <<part, vars, storeVars, clientVars, graphBridgeVars, windowVars, replayVars,
                   statsVars, codecVars>>
ReplayStep ==
    /\ part = "replay" /\ ReplayNext
    /\ UNCHANGED <<part, vars, storeVars, clientVars, graphBridgeVars, windowVars, spliceVars,
                   statsVars, codecVars>>
StatsStep ==
    /\ part = "stats" /\ Stats!StatsNext
    /\ UNCHANGED <<part, vars, storeVars, clientVars, graphBridgeVars, windowVars, spliceVars,
                   replayVars, codecVars>>
CodecStep ==
    /\ part = "codec" /\ Codec!CodecNext
    /\ UNCHANGED <<part, vars, storeVars, clientVars, graphBridgeVars, windowVars, spliceVars,
                   replayVars, statsVars>>

AllNext == IndexStep \/ StoreStep \/ ClientStep \/ BridgeStep \/ WindowStep
           \/ EditStep \/ ReplayStep \/ StatsStep \/ CodecStep

AllSpec == AllInit /\ [][AllNext]_allVars

-----------------------------------------------------------------------------
\* IndexQueries: answers are the current facts in scope, each once.
IndexAnswersCurrent == part = "index" => AnswersCurrent
\* IndexQueries: the cycle witness is a cycle of current edges, and exists when one does.
IndexWitnessExact == part = "index" => WitnessExact
\* IndexQueries: the dependencies of an entity are those within the limit.
IndexDependenciesExact == part = "index" => DependenciesExact
\* EditSplice: disjoint edits are applied as one substitution.
SpliceExact == Splicer!SpliceExact
\* EditSplice: insertions at one position are in the order of the request.
CallerOrderAtAnchors == Splicer!CallerOrderAtAnchors
\* EditSplice: no accepted batch has intersecting ranges.
OverlapsRejected == Splicer!OverlapsRejected
\* EditSplice: the report is in request order.
ReportInOrder == Splicer!ReportInOrder
\* SessionStats: totals add up to the entries.
TotalsExact == Stats!TotalsExact
\* SessionStats: the session's domain totals add up to the entries.
DomainsExact == Stats!DomainsExact
\* HierarchicalCodec: a received tree is the compiled stream, scope by scope.
HierarchyExact == Codec!HierarchyExact
=============================================================================
