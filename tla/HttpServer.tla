----------------------------- MODULE HttpServer -----------------------------
(***************************************************************************)
(* The HTTP server of main.cpp: one thread that accepts a connection,      *)
(* reads one request, dispatches it, answers and closes, while the other   *)
(* clients wait in the backlog of the listening socket.                    *)
(*                                                                         *)
(* A request travels in units: Head units of header and, after them, the   *)
(* units of its body.  A client may stop sending or hang up after any of   *)
(* them; the server notices either a closed connection or, five seconds    *)
(* later, the receive timeout, and treats the two alike.  A handler is one *)
(* step here (its statements are in RequestServer and Scenarios).          *)
(***************************************************************************)
EXTENDS Integers, Sequences, SequencesExt, FiniteSets

CONSTANTS
    Clients,    \* clients, each of which makes one call
    Requests,   \* what a client may ask for
    Backlog     \* bound: connections that wait for accept

\* body is the Content-Length in units, endpoint the pattern that the caller
\* means, or Nowhere.
RequestType ==
    [method : STRING, path : Seq(STRING), body : Nat, endpoint : Seq(STRING)]

ASSUME HttpAssumption ==
    /\ Requests \subseteq RequestType
    /\ Backlog \in Nat \ {0}

VARIABLES
    asked,      \* client -> its request, or NoRequest before it connects
    sent,       \* client -> the units of it that are on the wire
    there,      \* client -> it has not hung up
    backlog,    \* connections not yet accepted, oldest first
    serving,    \* the client whose connection is handled, or Nobody
    got,        \* units of its request the server has received (total)
    have,       \* those of them that the body loop counts (body_have)
    phase,      \* where handleConnection is
    outcome,    \* client -> what became of its call
    inTime      \* history: the clients whose whole request was on the wire while
                \* the server was still to receive it, or doing so

callVars == <<asked, sent, there, inTime>>
vars == <<callVars, backlog, serving, got, have, phase, outcome>>

-----------------------------------------------------------------------------
(* The route table *)

ANY == "{}"     \* a segment in braces

\* A route says what its handler does with the body: it only reads, asks for
\* a JSON body without changing anything, needs a JSON body to act, can act
\* without one, or acts and never looks at it, although the page sends one.
Route(method, pattern, use) == [method |-> method, pattern |-> pattern, use |-> use]

ReadRoute(pattern) == Route("GET", pattern, "reads")

ApiRoutes == <<
    ReadRoute(<<"api", "health">>), ReadRoute(<<"api", "dashboard">>),
    ReadRoute(<<"api", "shipments">>), ReadRoute(<<"api", "shipments", "affected">>),
    ReadRoute(<<"api", "disruptions">>), ReadRoute(<<"api", "routes">>),
    Route("POST", <<"api", "routes", "recommend">>, "asks"),
    ReadRoute(<<"api", "carriers">>),
    Route("POST", <<"api", "carriers", "recommend">>, "asks"),
    ReadRoute(<<"api", "fleet">>), ReadRoute(<<"api", "fleet", "idle">>),
    ReadRoute(<<"api", "fleet", "utilisation">>),
    Route("POST", <<"api", "fleet", "redeploy">>, "needs"),
    ReadRoute(<<"api", "cold-chain", "alerts">>),
    ReadRoute(<<"api", "cold-chain", ANY>>),
    ReadRoute(<<"api", "cold-chain", ANY, "temperature">>),
    Route("POST", <<"api", "simulation">>, "needs"),
    ReadRoute(<<"api", "recommendations">>),
    Route("POST", <<"api", "bob", "query">>, "reads")>>

DriverRoutes == <<
    ReadRoute(<<"api", "drivers">>), ReadRoute(<<"api", "drivers", ANY>>),
    ReadRoute(<<"api", "drivers", ANY, "shipments">>),
    ReadRoute(<<"api", "driver-requests">>),
    Route("POST", <<"api", "driver-requests">>, "needs"),
    ReadRoute(<<"api", "driver-requests", ANY>>),
    Route("POST", <<"api", "driver-requests", ANY, "approve">>, "can"),
    Route("POST", <<"api", "driver-requests", ANY, "reject">>, "can"),
    ReadRoute(<<"api", "notifications", ANY>>),
    Route("POST", <<"api", "notifications", ANY, "read">>, "acts"),
    ReadRoute(<<"api", "shipments", ANY, "timeline">>),
    ReadRoute(<<"api", "shipments", ANY, "location">>),
    ReadRoute(<<"api", "shipments", ANY, "route">>),
    Route("POST", <<"api", "shipments", ANY, "reroute">>, "needs"),
    ReadRoute(<<"api", "disruptions", ANY, "verification">>)>>

FileRoutes == <<
    ReadRoute(<<>>), ReadRoute(<<"index.html">>), ReadRoute(<<"driver.html">>),
    ReadRoute(<<"css", "dashboard.css">>), ReadRoute(<<"js", "dashboard.js">>),
    ReadRoute(<<"js", "driver.js">>)>>

\* Mutant of Routes: the alerts are registered after the shipments' routes.
RoutesSwapped ==
    LET at == 14
        all == ApiRoutes \o DriverRoutes \o FileRoutes
    IN  [all EXCEPT ![at] = all[at + 1], ![at + 1] = all[at]]

Routes == ApiRoutes \o DriverRoutes \o FileRoutes

MatchPath(pattern, path) ==
    /\ Len(pattern) = Len(path)
    /\ \A i \in 1..Len(path) : pattern[i] \in {ANY, path[i]}

\* The first route registered for the method that matches; 0 for none.
HandlerOf(method, path) ==
    SelectInSeq(Routes, LAMBDA r : r.method = method /\ MatchPath(r.pattern, path))

-----------------------------------------------------------------------------
(* Requests and their outcomes *)

Nobody == "nobody"
NoRequest == [method |-> "", path |-> <<>>, body |-> 0, endpoint |-> <<>>]
Header == 2                             \* bound: units of a header

ASSUME NobodyAssumption == Nobody \notin Clients /\ NoRequest \notin Requests

Nowhere == <<"nowhere">>

\* The routes that a request fits, in whatever order they are registered.
Fitting(r) == {h \in 1..Len(Routes) : Routes[h].method = r.method
                                         /\ MatchPath(Routes[h].pattern, r.path)}

\* A caller means the most literal of the patterns that its path fits: every
\* other one of them has braces in more places.
ASSUME EndpointAssumption ==
    \A r \in Requests : r.method # "OPTIONS" =>
        IF Fitting(r) = {} THEN r.endpoint = Nowhere
        ELSE \E h \in Fitting(r) :
                 /\ r.endpoint = Routes[h].pattern
                 /\ \A k \in Fitting(r) : MatchPath(Routes[k].pattern, Routes[h].pattern)

Whole(r) == Header + r.body             \* where the body of r is complete

\* answer: "none" so far, the answer of the handler ("ok", "invalid", "failed",
\* "notFound"), or "dropped" for a connection closed without one; effect: on
\* the database; handler: its route; units: what had been received by then.
Outcome(answer, effect, handler, units) ==
    [answer |-> answer, effect |-> effect, handler |-> handler, units |-> units]

Pending == Outcome("none", "none", 0, 0)

\* Mutant of Parses: a body that was cut is taken for a whole one.
ParsesCut(r, n) == r.body > 0

\* json::parse of the body after n units: what the pages send is a JSON object,
\* and no proper prefix of one is JSON.
Parses(r, n) == r.body > 0 /\ n = Whole(r)

\* The <<answer, effect>> pairs of a handler.  Statements may fail: the
\* exception leaves a handler that has no catch around them, and any statement
\* that came before has had its effect.
Handled(use, parsed) ==
    CASE use = "reads" -> {<<"ok", "none">>, <<"failed", "none">>}
      [] use = "asks" /\ parsed -> {<<"ok", "none">>, <<"invalid", "none">>}
      [] use = "needs" /\ parsed -> {<<"ok", "own">>, <<"invalid", "partial">>}
      [] use \in {"asks", "needs"} /\ ~parsed -> {<<"invalid", "none">>}
      [] use = "can" /\ parsed -> {<<"ok", "own">>, <<"failed", "partial">>}
      [] use = "can" /\ ~parsed -> {<<"ok", "default">>, <<"failed", "partial">>}
      [] use = "acts" -> {<<"ok", "own">>, <<"failed", "none">>}

\* dispatch, given the first n units of request r.
Dispatched(r, n) ==
    LET h == HandlerOf(r.method, r.path)
    IN  IF r.method = "OPTIONS" THEN {Outcome("ok", "none", 0, n)}
        ELSE IF h = 0 THEN {Outcome("notFound", "none", 0, n)}
        ELSE {Outcome(o[1], o[2], h, n) : o \in Handled(Routes[h].use, Parses(r, n))}

-----------------------------------------------------------------------------
Init ==
    /\ asked = [c \in Clients |-> NoRequest]
    /\ sent = [c \in Clients |-> 0]
    /\ there = [c \in Clients |-> TRUE]
    /\ inTime = {}
    /\ backlog = <<>> /\ serving = Nobody
    /\ got = 0 /\ have = 0 /\ phase = "accept"
    /\ outcome = [c \in Clients |-> Pending]

\* The connection of c is established and not yet closed by the server.
Connected(c) == c \in Range(backlog) \/ serving = c

\* The server is still to receive from c, or doing so.
Awaited(c) == c \in Range(backlog) \/ (serving = c /\ phase \in {"head", "body"})

\* The clients: the kernel completes a connection while there is room for it.
Connect(c) ==
    /\ asked[c] = NoRequest /\ Len(backlog) < Backlog
    /\ \E r \in Requests : asked' = [asked EXCEPT ![c] = r]
    /\ backlog' = Append(backlog, c)
    /\ UNCHANGED <<sent, there, inTime, serving, got, have, phase, outcome>>

Send(c) ==
    /\ Connected(c) /\ there[c]
    /\ \E n \in sent[c] + 1 .. Whole(asked[c]) :
           /\ sent' = [sent EXCEPT ![c] = n]
           /\ inTime' = IF n = Whole(asked[c]) /\ Awaited(c) THEN inTime \cup {c} ELSE inTime
    /\ UNCHANGED <<asked, there, backlog, serving, got, have, phase, outcome>>

HangUp(c) ==
    /\ Connected(c) /\ there[c]
    /\ there' = [there EXCEPT ![c] = FALSE]
    /\ UNCHANGED <<asked, sent, inTime, backlog, serving, got, have, phase, outcome>>

\* The loop of main: the oldest connection of the backlog.
Accept ==
    /\ phase = "accept" /\ backlog # <<>>
    /\ serving' = Head(backlog) /\ backlog' = Tail(backlog)
    /\ got' = 0 /\ have' = 0 /\ phase' = "head"
    /\ UNCHANGED <<callVars, outcome>>

\* The condition of the body loop, tested before every recv of it, with h units
\* of the body received: Content-Length is asked[serving].body.
BodyLoop(h) == IF h < asked[serving].body THEN "body" ELSE "handling"

\* Mutant of RecvHead: what came of the headers is counted as body.
RecvHeadMiscounts ==
    /\ phase = "head" /\ got < sent[serving]
    /\ \E n \in got + 1 .. sent[serving] :
           /\ got' = n
           /\ IF n < Header THEN UNCHANGED <<have, phase>>
              ELSE have' = n /\ phase' = BodyLoop(n)
    /\ UNCHANGED <<callVars, backlog, serving, outcome>>

\* recv of the header loop returns some of what is on the wire, up to the size of
\* the buffer; with the end of the headers any part of the body may have come.
RecvHead ==
    /\ phase = "head" /\ got < sent[serving]
    /\ \E n \in got + 1 .. sent[serving] :
           /\ got' = n
           /\ IF n < Header THEN UNCHANGED <<have, phase>>
              ELSE have' = n - Header /\ phase' = BodyLoop(n - Header)
    /\ UNCHANGED <<callVars, backlog, serving, outcome>>

\* recv of the body loop asks for no more than is missing of the body.
RecvBody ==
    /\ phase = "body" /\ got < sent[serving]
    /\ \E n \in 1 .. sent[serving] - got :
           /\ n <= asked[serving].body - have
           /\ got' = got + n /\ have' = have + n /\ phase' = BodyLoop(have + n)
    /\ UNCHANGED <<callVars, backlog, serving, outcome>>

\* Mutant of RecvEnds: without SO_RCVTIMEO only a closed connection ends recv.
RecvEndsNoTimeout ==
    /\ phase \in {"head", "body"} /\ got = sent[serving] /\ ~there[serving]
    /\ phase' = IF phase = "head" THEN "closing" ELSE "handling"
    /\ outcome' = IF phase = "head"
                  THEN [outcome EXCEPT ![serving] = Outcome("dropped", "none", 0, got)]
                  ELSE outcome
    /\ UNCHANGED <<callVars, backlog, serving, got, have>>

\* recv returns nothing: the client has hung up, or five seconds have passed.
\* Without the end of the headers parseRequest drops the request, otherwise what
\* there is of it goes on to dispatch.
RecvEnds ==
    /\ phase \in {"head", "body"} /\ got = sent[serving]
    /\ phase' = IF phase = "head" THEN "closing" ELSE "handling"
    /\ outcome' = IF phase = "head"
                  THEN [outcome EXCEPT ![serving] = Outcome("dropped", "none", 0, got)]
                  ELSE outcome
    /\ UNCHANGED <<callVars, backlog, serving, got, have>>

\* parseRequest, dispatch and send; what is sent to a client that has hung up
\* is lost.
Handle ==
    /\ phase = "handling"
    /\ \E o \in Dispatched(asked[serving], got) :
           outcome' = [outcome EXCEPT ![serving] = o]
    /\ phase' = "closing"
    /\ UNCHANGED <<callVars, backlog, serving, got, have>>

\* Mutant of Close: CLOSE_SOCKET is forgotten on the way back to accept.
CloseForgotten ==
    /\ phase = "closing"
    /\ phase' = "accept" /\ got' = 0 /\ have' = 0
    /\ UNCHANGED <<callVars, backlog, serving, outcome>>

Close ==
    /\ phase = "closing"
    /\ phase' = "accept" /\ serving' = Nobody /\ got' = 0 /\ have' = 0
    /\ UNCHANGED <<callVars, backlog, outcome>>

ClientStep == \E c \in Clients : Connect(c) \/ Send(c) \/ HangUp(c)
ServerStep == Accept \/ RecvHead \/ RecvBody \/ RecvEnds \/ Handle \/ Close

Next == ClientStep \/ ServerStep

\* The thread of the server keeps running; the clients owe it nothing.
Spec == Init /\ [][Next]_vars /\ WF_vars(ServerStep)

-----------------------------------------------------------------------------
(* Properties *)

\* Every variable has its type, and the backlog holds nobody twice.
HttpTypeOK ==
    /\ asked \in [Clients -> Requests \cup {NoRequest}]
    /\ sent \in [Clients -> Nat] /\ there \in [Clients -> BOOLEAN]
    /\ backlog \in Seq(Clients) /\ Len(backlog) <= Backlog
    /\ serving \in Clients \cup {Nobody} /\ got \in Nat /\ have \in Nat
    /\ phase \in {"accept", "head", "body", "handling", "closing"}
    /\ serving = Nobody <=> phase = "accept"
    /\ inTime \subseteq Clients
    /\ \A c \in Clients :
           /\ outcome[c].units <= sent[c]
           /\ outcome[c].handler \in 0..Len(Routes)

Used(c) == IF outcome[c].handler = 0 THEN "none" ELSE Routes[outcome[c].handler].use
Ended(c) == outcome[c].answer # "none"
Cut(c) == outcome[c].units < Whole(asked[c])

\* A request of which the last unit was on the wire before the server had given
\* up on it, while it waited in the backlog or in either loop, is handled whole,
\* in whatever pieces it arrived and wherever the header loop stopped in it: only
\* a client that is too late has its request cut.
SentInTimeIsReadWhole ==
    \A c \in inTime : Ended(c) => outcome[c].units = Whole(asked[c])

\* No scenario, redeployment, reroute or driver request is made of half a body:
\* a request that was cut, by a timeout or by its client, has no effect unless
\* its handler can do without the body. Approve and reject then decide with their
\* default text, and a notification is marked read as it would be by the whole.
NothingIsMadeOfHalfABody ==
    \A c \in Clients : Ended(c) /\ Cut(c) =>
        \/ outcome[c].effect = "none"
        \/ Used(c) = "can" /\ outcome[c].effect # "own"
        \/ Used(c) = "acts"

\* A request is answered by the endpoint its caller means, however many
\* patterns match its path: alerts is not the cold-chain record of a shipment
\* "alerts".
RoutedAsIntended ==
    \A c \in Clients : Ended(c) /\ outcome[c].answer # "dropped" /\ asked[c].method # "OPTIONS" =>
        IF outcome[c].handler = 0 THEN asked[c].endpoint = Nowhere
        ELSE /\ Routes[outcome[c].handler].pattern = asked[c].endpoint
             /\ Routes[outcome[c].handler].method = asked[c].method

\* Every connection is closed in the end, with an answer or without one,
\* whatever the clients before it do: one that stalls for ever holds the only
\* thread for a receive timeout and no longer.
EveryCallEnds ==
    \A c \in Clients : Connected(c) ~> Ended(c) /\ ~Connected(c)
=============================================================================
