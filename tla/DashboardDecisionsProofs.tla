----------------------- MODULE DashboardDecisionsProofs -----------------------
(***************************************************************************)
(* What holds of the decisions of a dashboard tab for any shipments,       *)
(* scenarios, routes and number of calls in flight.                        *)
(***************************************************************************)
EXTENDS DashboardDecisions, TLAPS

\* A table as the server sends it: every row has the route of its shipment.
Genuine(t) ==
    /\ DOMAIN t \subseteq Shipments
    /\ \A s \in DOMAIN t : t[s] \in [route : {Own[s]}, late : BOOLEAN]

\* The list in memory: a route that is not the shipment's own has been approved.
Patched ==
    /\ DOMAIN list \subseteq Shipments
    /\ \A s \in DOMAIN list :
           /\ list[s] \in [route : Advice[s] \cup {Own[s]}, late : BOOLEAN]
           /\ list[s].route # Own[s] => decisions[s] = list[s].route

Decided ==
    /\ decisions \in [Shipments -> Routes \cup {"none", "rejected"}]
    /\ \A s \in Shipments : decisions[s] \in Advice[s] \cup {"none", "rejected"}

\* The shipment has been on the list since the page was loaded.
Seen(s) == s \in DOMAIN list \cup gone

Bodies ==
    [shows : {"nothing", "loading", "none found", "banner"}]
        \cup [shows : {"buttons"}, ship : Shipments, route : Routes]

\* Buttons are for a route that was advised for their shipment; it has been on
\* the list, shows its own route if it still is, and is undecided unless it has
\* been taken off.
Panel ==
    /\ panel \in [title : Shipments \cup {"none"}, body : Bodies]
    /\ panel.body.shows # "nothing" => panel.title \in Shipments
    /\ panel.body.shows = "buttons" =>
           /\ panel.body.route \in Advice[panel.body.ship]
           /\ Seen(panel.body.ship)
           /\ panel.body.ship \in DOMAIN list =>
                  list[panel.body.ship].route = Own[panel.body.ship]
           /\ panel.body.ship \notin gone => decisions[panel.body.ship] = "none"

\* A call or an answer about a shipment is about one that has been seen, in a
\* page whose panel has been opened.
AnswerOK(call, value) ==
    /\ call.kind = "detail" =>
           /\ call.about \in Shipments /\ Seen(call.about) /\ panel.title \in Shipments
           /\ value \in Advice[call.about] \cup {"none"}
    /\ call.kind = "refresh" => Genuine(value)

CallOK(call) ==
    /\ call.kind = "detail" =>
           call.about \in Shipments /\ Seen(call.about) /\ panel.title \in Shipments
    /\ call.kind = "scenario" => call.about \in Scenarios
    /\ call.kind = "answered" => AnswerOK(call.call, call.value)

\* The inductive invariant.
Inv ==
    /\ Genuine(rows) /\ Patched /\ Decided /\ Panel
    /\ calls = [c \in Calls |-> calls[c]]
    /\ \A c \in Calls : CallOK(calls[c])
    /\ \A s \in Shipments : decisions[s] # "none" => Seen(s)

-----------------------------------------------------------------------------
\* Nothing that has been seen is forgotten, and the panel stays open.
SeenKept ==
    /\ \A s \in Shipments : Seen(s) => Seen(s)'
    /\ panel.title \in Shipments => panel'.title \in Shipments

\* A step that changes one call and forgets nothing leaves the others as right
\* as they were.
LEMMA OneCall ==
    ASSUME Inv, SeenKept, NEW c \in Calls,
           calls' = [calls EXCEPT ![c] = calls'[c]],
           CallOK(calls[c])'
    PROVE  /\ calls' = [d \in Calls |-> calls'[d]]
           /\ \A d \in Calls : CallOK(calls[d])'
<1>1. calls' = [d \in Calls |-> calls'[d]]
  BY DEF Inv
<1>2. ASSUME NEW d \in Calls
      PROVE  CallOK(calls[d])'
  <2>1. CASE d = c
    BY <2>1
  <2>2. CASE d # c
    <3>1. calls'[d] = calls[d] /\ CallOK(calls[d])
      BY <2>2 DEF Inv
    <3> QED
      BY <3>1 DEF CallOK, AnswerOK, SeenKept, Genuine
  <2> QED
    BY <2>1, <2>2
<1> QED
  BY <1>1, <1>2

\* A step that changes no call.
LEMMA NoCall ==
    ASSUME Inv, SeenKept, UNCHANGED calls
    PROVE  /\ calls' = [d \in Calls |-> calls'[d]]
           /\ \A d \in Calls : CallOK(calls[d])'
BY DEF Inv, CallOK, AnswerOK, SeenKept, Genuine

\* Loading the page establishes everything that is said of it.
LEMMA LoadedOK ==
    ASSUME Genuine(rows)', NEW c \in Calls, Loaded(c)
    PROVE  Inv'
<1> USE DEF Loaded, Closed, Showing
<1>1. Patched' /\ Decided'
  <2>1. DOMAIN list' = {}
    OBVIOUS
  <2> QED
    BY <2>1 DEF Patched, Decided
<1>2. Panel'
  BY DEF Panel, Bodies
<1>3. /\ calls' = [d \in Calls |-> calls'[d]]
      /\ \A d \in Calls : CallOK(calls[d])'
  <2>1. \A d \in Calls : calls'[d] \in {Free, Refresh}
    OBVIOUS
  <2>2. \A d \in Calls : calls'[d].kind \in {"free", "refresh"}
    BY <2>1 DEF Free, Refresh
  <2> QED
    BY <2>2 DEF CallOK
<1>4. \A s \in Shipments : (decisions[s] # "none" => Seen(s))'
  OBVIOUS
<1> QED
  BY <1>1, <1>2, <1>3, <1>4 DEF Inv

-----------------------------------------------------------------------------
(* Decisions and the panel *)

\* Showing shipment s over a list on which every row is as the invariant wants:
\* a call is started and the panel waits, or nothing happens.
LEMMA ShowOK ==
    ASSUME Inv, SeenKept, NEW c \in Calls, NEW s \in Shipments,
           Show(c, s, list), DOMAIN list' = DOMAIN list
    PROVE  /\ calls' = [d \in Calls |-> calls'[d]]
           /\ \A d \in Calls : CallOK(calls[d])'
           /\ s \in DOMAIN list => Panel'
           /\ s \notin DOMAIN list => UNCHANGED panel
<1>1. CASE s \in DOMAIN list
  <2>1. /\ panel' = [title |-> s, body |-> Showing("loading")]
        /\ calls' = [calls EXCEPT ![c] = Detail(s)]
    BY <1>1 DEF Show, Start
  <2>2. Panel'
    BY <2>1 DEF Panel, Bodies, Showing
  <2>3. calls'[c] = Detail(s)
    BY <2>1 DEF Inv
  <2>4. CallOK(calls[c])'
    BY <2>1, <2>3, <1>1 DEF CallOK, Detail, Seen
  <2> QED
    BY <1>1, <2>1, <2>2, <2>3, <2>4, OneCall
<1>2. CASE s \notin DOMAIN list
  BY <1>2, NoCall DEF Show
<1> QED
  BY <1>1, <1>2

LEMMA ShowShipmentDetailOK ==
    ASSUME Inv, ShowShipmentDetail
    PROVE  Inv'
<1> PICK c \in Calls, s \in DOMAIN list :
        Show(c, s, list) /\ UNCHANGED <<rows, list, decisions, gone>>
  BY DEF ShowShipmentDetail
<1>1. s \in Shipments
  BY DEF Inv, Patched
<1>2. SeenKept
  BY <1>1 DEF SeenKept, Seen, Show
<1>3. Genuine(rows)' /\ Patched' /\ Decided'
  BY DEF Inv, Genuine, Patched, Decided
<1>4. \A x \in Shipments : (decisions[x] # "none" => Seen(x))'
  BY <1>2 DEF Inv, SeenKept
<1> QED
  BY <1>1, <1>2, <1>3, <1>4, ShowOK DEF Inv

\* What is known of the buttons of the panel.
LEMMA ButtonsKnown ==
    ASSUME Inv, panel.body.shows = "buttons"
    PROVE  /\ panel.body.ship \in Shipments
           /\ panel.body.route \in Advice[panel.body.ship]
           /\ panel.body.route \notin {"none", "rejected"}
           /\ Seen(panel.body.ship)
<1>1. panel.body \in Bodies /\ panel.body.route \in Advice[panel.body.ship] /\ Seen(panel.body.ship)
  BY DEF Inv, Panel
<1>2. panel.body.ship \in Shipments
  BY <1>1 DEF Bodies
<1> QED
  BY <1>1, <1>2, DecisionAssumption

LEMMA ApproveRecOK ==
    ASSUME Inv, ApproveRec
    PROVE  Inv'
<1> PICK c \in Calls :
        /\ panel.body.shows = "buttons" /\ Approved(c, panel.body)
        /\ UNCHANGED <<rows, gone>>
  BY DEF ApproveRec
<1> DEFINE b == panel.body
<1>1. /\ b.ship \in Shipments /\ b.route \in Advice[b.ship]
      /\ b.route \notin {"none", "rejected"} /\ Seen(b.ship)
  BY ButtonsKnown
<1>2. /\ decisions' = [decisions EXCEPT ![b.ship] = b.route]
      /\ list' = IF b.ship \in DOMAIN list
                 THEN [list EXCEPT ![b.ship] = [route |-> b.route, late |-> FALSE]] ELSE list
      /\ Show(c, b.ship, list)
  BY DEF Approved
<1>3. DOMAIN list' = DOMAIN list
  BY <1>2
<1>4. SeenKept
  BY <1>1, <1>2, <1>3 DEF SeenKept, Seen, Show
<1>5. /\ calls' = [d \in Calls |-> calls'[d]]
      /\ \A d \in Calls : CallOK(calls[d])'
      /\ b.ship \in DOMAIN list => Panel'
      /\ b.ship \notin DOMAIN list => UNCHANGED panel
  BY <1>1, <1>2, <1>3, <1>4, ShowOK
<1>6. Decided'
  BY <1>1, <1>2 DEF Inv, Decided, Routes
<1>7. Patched'
  <2> SUFFICES ASSUME NEW s \in DOMAIN list
               PROVE  /\ list'[s] \in [route : Advice[s] \cup {Own[s]}, late : BOOLEAN]
                      /\ list'[s].route # Own[s] => decisions'[s] = list'[s].route
    BY <1>3 DEF Patched, Inv
  <2>1. s \in Shipments
    BY DEF Inv, Patched
  <2>2. CASE s = b.ship
    BY <2>1, <2>2, <1>1, <1>2 DEF Inv, Decided
  <2>3. CASE s # b.ship
    BY <2>1, <2>3, <1>1, <1>2 DEF Inv, Patched, Decided
  <2> QED
    BY <2>2, <2>3
<1>8. Panel'
  <2>1. CASE b.ship \notin DOMAIN list
    <3>1. UNCHANGED panel /\ b.ship \in gone
      BY <2>1, <1>1, <1>5 DEF Seen
    <3> QED
      BY <2>1, <3>1, <1>3, <1>4 DEF Panel, Inv, Seen
  <2> QED
    BY <2>1, <1>5
<1>9. \A x \in Shipments : (decisions[x] # "none" => Seen(x))'
  BY <1>1, <1>2, <1>4 DEF Inv, SeenKept, Decided
<1> QED
  BY <1>5, <1>6, <1>7, <1>8, <1>9 DEF Inv, Genuine

LEMMA RejectRecOK ==
    ASSUME Inv, RejectRec
    PROVE  Inv'
<1> PICK c \in Calls :
        /\ panel.body.shows = "buttons"
        /\ decisions' = [decisions EXCEPT ![panel.body.ship] = "rejected"]
        /\ Show(c, panel.body.ship, list)
        /\ UNCHANGED <<rows, list, gone>>
  BY DEF RejectRec
<1> DEFINE b == panel.body
<1>1. b.ship \in Shipments /\ b.route \in Advice[b.ship] /\ Seen(b.ship)
  BY ButtonsKnown
<1>2. SeenKept
  BY <1>1 DEF SeenKept, Seen, Show
<1>3. /\ calls' = [d \in Calls |-> calls'[d]]
      /\ \A d \in Calls : CallOK(calls[d])'
      /\ b.ship \in DOMAIN list => Panel'
      /\ b.ship \notin DOMAIN list => UNCHANGED panel
  BY <1>1, <1>2, ShowOK
<1>4. Decided'
  BY <1>1 DEF Inv, Decided
<1>5. Patched'
  <2> SUFFICES ASSUME NEW s \in DOMAIN list, list[s].route # Own[s]
               PROVE  decisions'[s] = list[s].route
    <3>1. Patched /\ UNCHANGED list
      BY DEF Inv
    <3> QED
      BY <3>1 DEF Patched
  <2>1. s # b.ship
    BY DEF Inv, Panel
  <2> QED
    BY <2>1, <1>1 DEF Inv, Patched, Decided
<1>6. Panel'
  <2>1. CASE b.ship \notin DOMAIN list
    <3>1. UNCHANGED panel /\ b.ship \in gone
      BY <2>1, <1>1, <1>3 DEF Seen
    <3> QED
      BY <2>1, <3>1, <1>2 DEF Panel, Inv, Seen
  <2> QED
    BY <2>1, <1>3
<1>7. \A x \in Shipments : (decisions[x] # "none" => Seen(x))'
  BY <1>1, <1>2 DEF Inv, SeenKept, Decided
<1> QED
  BY <1>3, <1>4, <1>5, <1>6, <1>7 DEF Inv, Genuine

-----------------------------------------------------------------------------
(* Calls and their answers *)

\* A step that leaves the page alone: the table stays genuine, one call changes.
LEMMA PageKept ==
    ASSUME Inv, UNCHANGED page, Genuine(rows)', NEW c \in Calls,
           calls' = [calls EXCEPT ![c] = calls'[c]],
           CallOK(calls[c])'
    PROVE  Inv'
<1>1. UNCHANGED <<list, decisions, panel, gone>>
  BY DEF page
<1>2. SeenKept
  BY <1>1 DEF SeenKept, Seen
<1>3. Patched' /\ Decided' /\ Panel'
  BY <1>1 DEF Inv, Patched, Decided, Panel, Seen
<1>4. \A s \in Shipments : (decisions[s] # "none" => Seen(s))'
  BY <1>1, <1>2 DEF Inv, SeenKept
<1> QED
  BY <1>2, <1>3, <1>4, OneCall DEF Inv

LEMMA CallStartedOK ==
    ASSUME Inv, RunSimulation \/ RefreshShipments \/ CallLost
    PROVE  Inv'
<1>1. Genuine(rows)' /\ UNCHANGED page
  BY DEF Inv, Genuine, RunSimulation, RefreshShipments, CallLost
<1>2. PICK c \in Calls : \/ \E e \in Scenarios : calls' = [calls EXCEPT ![c] = Scenario(e)]
                         \/ calls' = [calls EXCEPT ![c] = Refresh]
                         \/ calls' = [calls EXCEPT ![c] = Free]
  BY DEF RunSimulation, RefreshShipments, CallLost, Start, End
<1>3. calls' = [calls EXCEPT ![c] = calls'[c]] /\ CallOK(calls[c])'
  BY <1>2 DEF Inv, CallOK, Scenario, Refresh, Free
<1> QED
  BY <1>1, <1>3, PageKept

LEMMA ServeRefreshOK ==
    ASSUME Inv, ServeRefresh
    PROVE  Inv'
<1> PICK c \in Calls : Serve(c, "refresh", rows) /\ UNCHANGED <<rows, page>>
  BY DEF ServeRefresh
<1>1. /\ calls' = [calls EXCEPT ![c] = calls'[c]]
      /\ calls'[c] = Answered(calls[c], rows) /\ calls[c].kind = "refresh"
  BY DEF Inv, Serve
<1>2. Genuine(rows)' /\ UNCHANGED page
  BY DEF Inv, Genuine
<1>3. CallOK(calls[c])'
  BY <1>1 DEF CallOK, AnswerOK, Answered, Inv, Genuine
<1> QED
  BY <1>1, <1>2, <1>3, PageKept

LEMMA ServeDetailOK ==
    ASSUME Inv, ServeDetail
    PROVE  Inv'
<1> PICK c \in Calls : \E r \in Advice[calls[c].about] \cup {"none"} :
        Serve(c, "detail", r) /\ UNCHANGED <<rows, page>>
  BY DEF ServeDetail
<1> PICK r \in Advice[calls[c].about] \cup {"none"} :
        Serve(c, "detail", r) /\ UNCHANGED <<rows, page>>
  OBVIOUS
<1>1. /\ calls' = [calls EXCEPT ![c] = calls'[c]]
      /\ calls'[c] = Answered(calls[c], r) /\ calls[c].kind = "detail"
  BY DEF Inv, Serve
<1>2. Genuine(rows)' /\ UNCHANGED page
  BY DEF Inv, Genuine
<1>3. CallOK(calls[c])'
  BY <1>1, <1>2 DEF CallOK, AnswerOK, Answered, Inv, Seen, page
<1> QED
  BY <1>1, <1>2, <1>3, PageKept

\* Whatever a scenario does to the table, rows keep the route of their shipment.
LEMMA AfterScenarioGenuine ==
    ASSUME Genuine(rows), NEW e \in Scenarios
    PROVE  Genuine(AfterScenario(e))
<1> USE DEF Genuine, Row
<1>1. CASE e = "reset"
  BY <1>1 DEF AfterScenario, SeedRows, Shipments
<1>2. CASE e = "demand_increase"
  BY <1>2 DEF AfterScenario, Shipments
<1>3. CASE e \notin {"reset", "demand_increase"}
  BY <1>3 DEF AfterScenario
<1> QED
  BY <1>1, <1>2, <1>3

LEMMA ScenarioServedOK ==
    ASSUME Inv, ServeScenario \/ OtherScenario
    PROVE  Inv'
<1>1. CASE ServeScenario
  <2> PICK c \in Calls :
        /\ Serve(c, "scenario", "done")
        /\ \/ rows' = AfterScenario(calls[c].about)
           \/ rows' = IF calls[c].about = "reset" THEN <<>> ELSE rows
        /\ UNCHANGED page
    BY <1>1 DEF ServeScenario
  <2>1. /\ calls' = [calls EXCEPT ![c] = calls'[c]]
        /\ calls'[c] = Answered(calls[c], "done") /\ calls[c].kind = "scenario"
    BY DEF Inv, Serve
  <2>2. CallOK(calls[c])'
    BY <2>1 DEF CallOK, AnswerOK, Answered
  <2>3. Genuine(rows)'
    <3>1. CASE rows' = AfterScenario(calls[c].about)
      BY <3>1, <2>1, AfterScenarioGenuine DEF Inv, CallOK
    <3>2. CASE rows' = <<>>
      <4>1. DOMAIN rows' = {}
        BY <3>2
      <4> QED
        BY <4>1 DEF Genuine
    <3>3. CASE UNCHANGED rows
      BY <3>3 DEF Inv, Genuine
    <3> QED
      BY <3>1, <3>2, <3>3
  <2> QED
    BY <2>1, <2>2, <2>3, PageKept
<1>2. CASE OtherScenario
  <2> PICK e \in Scenarios : rows' = AfterScenario(e)
    BY <1>2 DEF OtherScenario
  <2>1. UNCHANGED <<list, decisions, panel, gone, calls>>
    BY <1>2 DEF OtherScenario, page
  <2>2. SeenKept
    BY <2>1 DEF SeenKept, Seen
  <2>3. Genuine(rows)'
    BY AfterScenarioGenuine DEF Inv, Genuine
  <2>4. Patched' /\ Decided' /\ Panel'
    BY <2>1 DEF Inv, Patched, Decided, Panel, Seen
  <2> QED
    BY <2>1, <2>2, <2>3, <2>4, NoCall DEF Inv, SeenKept
<1> QED
  BY <1>1, <1>2

LEMMA ButtonsTyped ==
    ASSUME NEW s \in Shipments, NEW r \in Routes
    PROVE  Buttons(s, r) \in Bodies
BY DEF Buttons, Bodies

LEMMA DetailAnsweredOK ==
    ASSUME Inv, DetailAnswered
    PROVE  Inv'
<1> PICK c \in Calls :
        /\ Receive(c, "detail") /\ End(c)
        /\ panel' = [panel EXCEPT !.body = Drawn(calls[c].call.about, calls[c].value)]
        /\ UNCHANGED <<rows, list, decisions, gone>>
  BY DEF DetailAnswered
<1> DEFINE s == calls[c].call.about
           r == calls[c].value
<1>1. /\ s \in Shipments /\ Seen(s) /\ r \in Advice[s] \cup {"none"}
      /\ panel.title \in Shipments
  BY DEF Inv, CallOK, AnswerOK, Receive
<1>2. calls' = [calls EXCEPT ![c] = calls'[c]] /\ calls'[c].kind = "free"
  BY DEF Inv, End, Free
<1>3. SeenKept
  BY DEF SeenKept, Seen, Inv, Panel
<1>4. Patched' /\ Decided' /\ Genuine(rows)'
  BY DEF Inv, Patched, Decided, Genuine
<1>5. Panel'
  <2>1. panel' = [title |-> panel.title, body |-> Drawn(s, r)]
    BY DEF Inv, Panel
  <2>2. CASE r = "none" \/ decisions[s] # "none"
    <3>1. Drawn(s, r) \in [shows : {"none found", "banner"}]
      BY <2>2 DEF Drawn, Showing
    <3>2. panel'.title \in Shipments /\ panel'.body \in [shows : {"none found", "banner"}]
      BY <2>1, <3>1, <1>1
    <3>3. panel' \in [title : Shipments \cup {"none"}, body : Bodies]
      BY <2>1, <3>2 DEF Bodies
    <3> QED
      BY <3>2, <3>3 DEF Panel
  <2>3. CASE r # "none" /\ decisions[s] = "none"
    <3>1. Drawn(s, r) = [shows |-> "buttons", ship |-> s, route |-> r]
      BY <2>3 DEF Drawn, Buttons
    <3>2. r \in Advice[s] /\ r \in Routes
      BY <2>3, <1>1 DEF Routes
    <3>3. s \in DOMAIN list => list[s].route = Own[s]
      BY <2>3, <1>1, DecisionAssumption DEF Inv, Patched
    <3>4. panel'.title \in Shipments /\ panel'.body = [shows |-> "buttons", ship |-> s, route |-> r]
      BY <2>1, <3>1, <1>1
    <3>5. panel'.body \in Bodies
      BY <3>2, <3>4, <1>1, ButtonsTyped DEF Buttons
    <3>6. panel' \in [title : Shipments \cup {"none"}, body : Bodies]
      BY <2>1, <3>4, <3>5
    <3> QED
      BY <2>3, <3>2, <3>3, <3>4, <3>6, <1>1 DEF Panel, Seen
  <2> QED
    BY <2>2, <2>3
<1> QED
  BY <1>2, <1>3, <1>4, <1>5, OneCall DEF Inv, CallOK, SeenKept

LEMMA ScenarioAnsweredOK ==
    ASSUME Inv, ScenarioAnswered
    PROVE  Inv'
<1> PICK c \in Calls :
        /\ Receive(c, "scenario") /\ calls' = [calls EXCEPT ![c] = Refresh]
        /\ list' = [s \in DOMAIN list |->
                       IF MarkedBy(calls[c].call.about, s) THEN [list[s] EXCEPT !.late = TRUE]
                       ELSE list[s]]
        /\ UNCHANGED <<rows, decisions, panel, gone>>
  BY DEF ScenarioAnswered
<1>1. calls' = [calls EXCEPT ![c] = calls'[c]] /\ calls'[c].kind = "refresh"
  BY DEF Inv, Refresh
<1>2. /\ DOMAIN list' = DOMAIN list
      /\ SeenKept
  BY DEF SeenKept, Seen
<1>3. \A s \in DOMAIN list :
          /\ list'[s] \in [route : Advice[s] \cup {Own[s]}, late : BOOLEAN]
          /\ list'[s].route = list[s].route
  BY DEF Inv, Patched
<1>4. Patched' /\ Decided' /\ Genuine(rows)'
  BY <1>2, <1>3 DEF Inv, Patched, Decided, Genuine
<1>5. Panel'
  BY <1>2, <1>3 DEF Inv, Panel, Seen
<1> QED
  BY <1>1, <1>2, <1>4, <1>5, OneCall DEF Inv, CallOK, SeenKept

LEMMA RefreshAnsweredOK ==
    ASSUME Inv, RefreshAnswered
    PROVE  Inv'
<1> PICK c \in Calls :
        /\ Receive(c, "refresh") /\ End(c)
        /\ list' = calls[c].value
        /\ gone' = gone \cup (DOMAIN list \ DOMAIN calls[c].value)
        /\ UNCHANGED <<rows, decisions, panel>>
  BY DEF RefreshAnswered
<1>1. Genuine(list)'
  BY DEF Inv, CallOK, AnswerOK, Receive, Genuine
<1>2. calls' = [calls EXCEPT ![c] = calls'[c]] /\ calls'[c].kind = "free"
  BY DEF Inv, End, Free
<1>3. SeenKept
  BY DEF SeenKept, Seen
<1>4. \A s \in DOMAIN list' : list'[s].route = Own[s]
  BY <1>1 DEF Genuine
<1>5. Patched' /\ Decided' /\ Genuine(rows)'
  BY <1>1, <1>4 DEF Inv, Patched, Decided, Genuine
<1>6. Panel'
  BY <1>4 DEF Inv, Panel, Seen
<1> QED
  BY <1>2, <1>3, <1>5, <1>6, OneCall DEF Inv, CallOK, SeenKept

-----------------------------------------------------------------------------
LEMMA InitInv == Init => Inv
<1> SUFFICES ASSUME Init
             PROVE  Inv
  OBVIOUS
<1> USE DEF Init
<1>1. Genuine(rows)
  BY DEF Genuine, SeedRows, Row, Shipments
<1>2. DOMAIN list = {}
  OBVIOUS
<1>3. Patched /\ Decided
  BY <1>2 DEF Patched, Decided
<1>4. Panel
  BY DEF Panel, Bodies, Closed, Showing
<1> PICK c \in Calls : calls = [d \in Calls |-> IF d = c THEN Refresh ELSE Free]
  OBVIOUS
<1>5. \A d \in Calls : calls[d].kind \in {"free", "refresh"}
  BY DEF Free, Refresh
<1>6. \A d \in Calls : CallOK(calls[d])
  BY <1>5 DEF CallOK
<1> QED
  BY <1>1, <1>3, <1>4, <1>6 DEF Inv

LEMMA StepInv == Inv /\ [Next]_vars => Inv'
<1> SUFFICES ASSUME Inv, [Next]_vars
             PROVE  Inv'
  OBVIOUS
<1>1. CASE UserStep
  <2>1. CASE Reload
    BY <2>1, LoadedOK DEF Reload, Inv, Genuine
  <2> QED
    BY <1>1, <2>1, ShowShipmentDetailOK, ApproveRecOK, RejectRecOK, CallStartedOK DEF UserStep
<1>2. CASE ServerStep
  BY <1>2, ServeRefreshOK, ServeDetailOK, ScenarioServedOK DEF ServerStep
<1>3. CASE AnswerStep
  BY <1>3, DetailAnsweredOK, ScenarioAnsweredOK, RefreshAnsweredOK, CallStartedOK DEF AnswerStep
<1>4. CASE UNCHANGED vars
  <2>1. UNCHANGED <<rows, list, decisions, panel, gone, calls>>
    BY <1>4 DEF vars, page
  <2>2. SeenKept
    BY <2>1 DEF SeenKept, Seen
  <2> QED
    BY <2>1, <2>2, NoCall DEF Inv, Genuine, Patched, Decided, Panel, Seen
<1> QED
  BY <1>1, <1>2, <1>3, <1>4 DEF Next

\* What is known in every reachable state, however many calls are in flight.
THEOREM Invariant == Spec => []Inv
BY InitInv, StepInv, PTL DEF Spec

\* Rows, decisions and buttons keep their types.
THEOREM TypeCorrect == Spec => []DecisionsTypeOK
<1>1. Inv => DecisionsTypeOK
  <2> SUFFICES ASSUME Inv
               PROVE  DecisionsTypeOK
    OBVIOUS
  <2>1. \A s \in Shipments : Advice[s] \subseteq Routes
    BY DEF Routes
  <2>2. panel.body.shows = "buttons" => panel.body.route \in Routes
    BY <2>1, ButtonsKnown
  <2> QED
    BY <2>1, <2>2 DEF Inv, DecisionsTypeOK, Genuine, Patched, Decided, Panel
<1> QED
  BY <1>1, Invariant, PTL

\* The list never shows a foreign route that was not approved for that shipment.
THEOREM OnlyApproved == Spec => []OnlyApprovedRoutes
<1>1. Inv => OnlyApprovedRoutes
  BY DEF Inv, Patched, OnlyApprovedRoutes
<1> QED
  BY <1>1, Invariant, PTL

\* Nothing is approved for a shipment that was not advised for it, although the
\* buttons may stand in the panel of another.
THEOREM Advised == Spec => []ApprovedWasAdvised
<1>1. Inv => ApprovedWasAdvised
  BY DEF Inv, Decided, ApprovedWasAdvised
<1> QED
  BY <1>1, Invariant, PTL

\* A decision is final until the page is loaded again, for every shipment that
\* has not been taken off the list meanwhile.
THEOREM Final == Spec => DecisionIsFinal
<1>1. ASSUME Inv, [Next]_vars, ~Reload, NEW s \in Shipments \ gone, decisions[s] # "none"
      PROVE  decisions'[s] = decisions[s]
  <2>1. CASE ApproveRec \/ RejectRec
    <3>1. panel.body.shows = "buttons" /\ panel.body.ship # s
      BY <1>1, <2>1 DEF Inv, Panel, ApproveRec, RejectRec
    <3>2. \E x : decisions' = [decisions EXCEPT ![panel.body.ship] = x]
      BY <2>1 DEF ApproveRec, Approved, RejectRec
    <3> QED
      BY <1>1, <3>1, <3>2 DEF Inv, Decided
  <2>2. CASE UNCHANGED decisions
    BY <2>2
  <2>3. UNCHANGED decisions \/ ApproveRec \/ RejectRec
    BY <1>1 DEF Next, UserStep, ServerStep, AnswerStep, vars, page, ShowShipmentDetail,
                RunSimulation, RefreshShipments, ServeRefresh, ServeDetail, ServeScenario,
                OtherScenario, DetailAnswered, ScenarioAnswered, RefreshAnswered, CallLost
  <2> QED
    BY <2>1, <2>2, <2>3
<1>2. Inv /\ [Next]_vars =>
          [~Reload => \A s \in Shipments \ gone :
                         decisions[s] # "none" => decisions'[s] = decisions[s]]_vars
  BY <1>1
<1> QED
  BY <1>2, Invariant, PTL DEF Spec, DecisionIsFinal
=============================================================================
