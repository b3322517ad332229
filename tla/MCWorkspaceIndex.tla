-------------------------- MODULE MCWorkspaceIndex --------------------------
(* Instance of IndexQueries for TLC. *)
EXTENDS IndexQueries

MCFiles == {<<"repo", "a">>, <<"repo", "b">>, <<"repo-old", "a">>}
MCRoots == {<<"repo">>, <<"repo-old">>}
MCKeys == {"svc", "svc2", "page"}
MCName == [k \in MCKeys |-> IF k = "page" THEN "Page" ELSE "Svc"]
Edge(r, s, o) == [rel |-> r, subj |-> s, obj |-> o]

\* Two versions of a source: the second closes a cycle with the first.
MCFacts ==
    [p \in {"v1", "v2"} \X Fidelities |->
        CASE p[2] = Low  -> {Edge("Defines", "svc", "svc")}
          [] p = <<"v1", High>> -> {Edge("Injects", "page", "svc"), Edge("Calls", "svc", "page"),
                                    Edge("Defines", "svc2", "svc2")}
          [] p = <<"v2", High>> -> {Edge("ImportsModule", "svc", "svc2"),
                                    Edge("Injects", "svc2", "page"),
                                    Edge("HasSelector", "page", "svc2")}
          [] p = <<"v1", Edit>> -> {Edge("Injects", "page", "page"), Edge("Autowired", "page", "svc")}
          [] OTHER -> {}]
MCKeyOrder == <<"page", "svc", "svc2">>
MCFileOrder == <<<<"repo", "a">>, <<"repo", "b">>, <<"repo-old", "a">>>>
=============================================================================
