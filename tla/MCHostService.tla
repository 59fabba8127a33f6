----------------------------- MODULE MCHostService -----------------------------
(***************************************************************************)
(* Instances of HostService for TLC: one page and one request at a time     *)
(* with every method; one page and every kind of event; two pages, two      *)
(* requests in flight and an event; two pages whose prompts stand together, *)
(* one request at a time.                                                   *)
(***************************************************************************)
EXTENDS HostService

ValueGrant == {{"value"}}

Setup(pages, calls, events, inflight, requests, bound) ==
    [handles |-> pages, methods |-> calls, payloads |-> events, inflight |-> inflight,
     requests |-> requests, events |-> 1, time |-> bound,
     revisions |-> bound, generations |-> bound, sessions |-> bound]

Sequential == {[Setup({h}, Methods \ {"update", "read"}, {}, 1, 7, 2) EXCEPT !.time = 1] :
                 h \in Handles}
Notified == {[Setup({h}, {"grant"}, Payloads, 1, 7, 1) EXCEPT !.sessions = 0] : h \in Handles}
Pipelined == {[Setup(Handles, {"grant"}, {"permissions"}, 2, 8, 1) EXCEPT !.sessions = 0],
              Setup(Handles, {"grant"}, {"permissions"}, 2, 6, 1)}
Paired == {Setup(Handles, {"grant"}, {}, 1, 8, 1),
           [Setup(Handles, {"grant", "revoke"}, {}, 1, 7, 2) EXCEPT !.time = 1]}
AllSetups == Sequential \cup Notified \cup Pipelined \cup Paired

UpdateOnly == {[Setup({h}, {"grant", "update"}, {}, 1, 8, 2) EXCEPT
                    !.time = 1, !.revisions = 1, !.sessions = 1] : h \in Handles}
ReadWithout == {[Setup({h}, {"grant", "read"}, {"other"}, 1, 8, 1) EXCEPT !.time = 1] :
                    h \in Handles}

Symmetry == Permutations(Handles) \cup Permutations(Scopes)
=============================================================================
