---------------------------- MODULE MCHttpServer ----------------------------
(* One request of every kind of handler, the paths that two patterns match, *)
(* a preflight and a path that no route has.                                *)
EXTENDS HttpServer

Ask(method, path, body, endpoint) ==
    [method |-> method, path |-> path, body |-> body, endpoint |-> endpoint]

MCClients == {"dashboard", "driver"}

MCRequests == {
    Ask("GET", <<>>, 0, <<>>),
    Ask("GET", <<"api", "shipments", "affected">>, 0, <<"api", "shipments", "affected">>),
    Ask("GET", <<"api", "cold-chain", "alerts">>, 0, <<"api", "cold-chain", "alerts">>),
    Ask("GET", <<"api", "cold-chain", "SH1011">>, 0, <<"api", "cold-chain", ANY>>),
    Ask("POST", <<"api", "routes", "recommend">>, 2, <<"api", "routes", "recommend">>),
    Ask("POST", <<"api", "simulation">>, 2, <<"api", "simulation">>),
    Ask("POST", <<"api", "driver-requests">>, 1, <<"api", "driver-requests">>),
    Ask("POST", <<"api", "driver-requests", "REQ001", "reject">>, 2,
        <<"api", "driver-requests", ANY, "reject">>),
    Ask("POST", <<"api", "notifications", "NOT001", "read">>, 2,
        <<"api", "notifications", ANY, "read">>),
    Ask("OPTIONS", <<"api", "simulation">>, 0, <<"api", "simulation">>),
    Ask("DELETE", <<"api", "driver-requests", "REQ001">>, 0, Nowhere)}
=============================================================================
