-------------------------- MODULE DashboardDecisions --------------------------
(***************************************************************************)
(* Decisions on route recommendations in one dashboard tab.  They live in  *)
(* the page: approving patches the shipment in the list in memory, which   *)
(* the next refresh replaces, while the decision stays.  The detail panel  *)
(* is drawn at once and its recommendation when the answer arrives, by     *)
(* then perhaps into the panel of another shipment.                        *)
(*                                                                         *)
(* Of a row the route and whether it is late are kept; delay, risk and     *)
(* score move with the latter.  Answers may overtake each other or be lost.*)
(***************************************************************************)
CONSTANTS
    Seeded,     \* the shipments of the seed, and
    Surge,      \* those that demand_increase adds
    Own,        \* [Seeded \cup Surge -> the route in the shipments table]
    Advice,     \* [Seeded \cup Surge -> the routes that may be recommended]
    Events,     \* scenarios that delay,
    Delayed,    \* [Events -> the shipments they delay]
    Marked,     \* [Events -> the routes and shipments that the page marks as late at once]
    Calls       \* bound: calls in flight

Shipments == Seeded \cup Surge
Scenarios == Events \cup {"demand_increase", "reset"}

ASSUME DecisionAssumption ==
    /\ Seeded \cap Surge = {}
    /\ Shipments \subseteq DOMAIN Own /\ Shipments \subseteq DOMAIN Advice
    /\ \A s \in Shipments : Own[s] \notin Advice[s] /\ Advice[s] \cap {"none", "rejected"} = {}
    /\ Events \subseteq DOMAIN Delayed \cap DOMAIN Marked
    /\ Events \cap {"demand_increase", "reset"} = {}

VARIABLES
    rows,       \* the server's shipments table
    list,       \* state.allShipments
    decisions,  \* state.decisions: "none", "rejected" or the approved route
    panel,      \* the detail panel: its title and what its body shows
    calls,      \* the calls in flight
    gone        \* shipments that a refresh has taken off the list since the page was loaded

page == <<list, decisions, panel, gone>>
vars == <<rows, page, calls>>

Row(s, late) == [route |-> Own[s], late |-> late]

Free == [kind |-> "free"]
Refresh == [kind |-> "refresh"]
Detail(s) == [kind |-> "detail", about |-> s]
Scenario(e) == [kind |-> "scenario", about |-> e]
Answered(call, value) == [kind |-> "answered", call |-> call, value |-> value]

\* What the body of the panel shows: buttons act on the shipment and the route
\* they were drawn for, whatever the title says.
Showing(what) == [shows |-> what]
Buttons(s, r) == [shows |-> "buttons", ship |-> s, route |-> r]

Closed == [title |-> "none", body |-> Showing("nothing")]

SeedRows == [s \in Seeded |-> Row(s, FALSE)]

-----------------------------------------------------------------------------
\* The page has just been loaded: init sends its first refresh.
Loaded(c) ==
    /\ list' = <<>> /\ gone' = {} /\ panel' = Closed
    /\ decisions' = [s \in Shipments |-> "none"]
    /\ calls' = [d \in Calls |-> IF d = c THEN Refresh ELSE Free]

Init ==
    /\ rows = SeedRows
    /\ list = <<>> /\ gone = {} /\ panel = Closed
    /\ decisions = [s \in Shipments |-> "none"]
    /\ \E c \in Calls : calls = [d \in Calls |-> IF d = c THEN Refresh ELSE Free]

Reload == \E c \in Calls : Loaded(c) /\ UNCHANGED rows

Start(c, call) == calls[c] = Free /\ calls' = [calls EXCEPT ![c] = call]

\* The synchronous part of showShipmentDetail, over the list l; of a shipment
\* that is not on it nothing is drawn and nothing is asked.
Show(c, s, l) ==
    IF s \in DOMAIN l
    THEN /\ panel' = [title |-> s, body |-> Showing("loading")]
         /\ Start(c, Detail(s))
    ELSE UNCHANGED <<panel, calls>>

ShowShipmentDetail ==
    \E c \in Calls, s \in DOMAIN list :
        Show(c, s, list) /\ UNCHANGED <<rows, list, decisions, gone>>

\* Mutant of Approved: the shipment of the title is decided.
ApprovedTitle(c, b) ==
    /\ decisions' = [decisions EXCEPT ![panel.title] = b.route]
    /\ list' = IF b.ship \in DOMAIN list
               THEN [list EXCEPT ![b.ship] = [route |-> b.route, late |-> FALSE]] ELSE list
    /\ Show(c, b.ship, list)

\* Mutant of Approved: the status is kept in place of the route.
ApprovedStatus(c, b) ==
    /\ decisions' = [decisions EXCEPT ![b.ship] = "approved"]
    /\ UNCHANGED list
    /\ Show(c, b.ship, list)

\* Mutant of Approved: the row of the title is patched.
ApprovedPatchTitle(c, b) ==
    /\ decisions' = [decisions EXCEPT ![b.ship] = b.route]
    /\ list' = IF panel.title \in DOMAIN list
               THEN [list EXCEPT ![panel.title] = [route |-> b.route, late |-> FALSE]] ELSE list
    /\ Show(c, b.ship, list)

\* approveRec and the showShipmentDetail that follows it, on buttons b.
Approved(c, b) ==
    /\ decisions' = [decisions EXCEPT ![b.ship] = b.route]
    /\ list' = IF b.ship \in DOMAIN list
               THEN [list EXCEPT ![b.ship] = [route |-> b.route, late |-> FALSE]] ELSE list
    /\ Show(c, b.ship, list)

ApproveRec ==
    \E c \in Calls :
        /\ panel.body.shows = "buttons" /\ Approved(c, panel.body)
        /\ UNCHANGED <<rows, gone>>

RejectRec ==
    \E c \in Calls :
        /\ panel.body.shows = "buttons"
        /\ decisions' = [decisions EXCEPT ![panel.body.ship] = "rejected"]
        /\ Show(c, panel.body.ship, list)
        /\ UNCHANGED <<rows, list, gone>>

RunSimulation ==
    \E c \in Calls, e \in Scenarios :
        Start(c, Scenario(e)) /\ UNCHANGED <<rows, page>>

\* refreshDriverAndShipments, after a driver request has been decided.
RefreshShipments == \E c \in Calls : Start(c, Refresh) /\ UNCHANGED <<rows, page>>

-----------------------------------------------------------------------------
(* The server *)

Serve(c, kind, value) ==
    calls[c].kind = kind /\ calls' = [calls EXCEPT ![c] = Answered(@, value)]

ServeRefresh == \E c \in Calls : Serve(c, "refresh", rows) /\ UNCHANGED <<rows, page>>

\* Nothing is found, or the shipment is not in the table any more.
ServeDetail ==
    \E c \in {d \in Calls : calls[d].kind = "detail"} :
        /\ \E r \in Advice[calls[c].about] \cup {"none"} :
               /\ r # "none" => calls[c].about \in DOMAIN rows
               /\ Serve(c, "detail", r)
        /\ UNCHANGED <<rows, page>>

AfterScenario(e) ==
    CASE e = "reset" -> SeedRows
      [] e = "demand_increase" ->
            [s \in DOMAIN rows \cup Surge |-> IF s \in DOMAIN rows THEN rows[s] ELSE Row(s, TRUE)]
      [] OTHER -> [s \in DOMAIN rows |-> IF s \in Delayed[e] THEN Row(s, TRUE) ELSE rows[s]]

\* A scenario that fails has done nothing to the shipments, or cleared them.
ServeScenario ==
    \E c \in Calls :
        /\ Serve(c, "scenario", "done")
        /\ \/ rows' = AfterScenario(calls[c].about)
           \/ rows' = IF calls[c].about = "reset" THEN <<>> ELSE rows
        /\ UNCHANGED page

\* Another tab runs a scenario, or this one did before it was loaded again.
OtherScenario ==
    /\ \E e \in Scenarios : rows' = AfterScenario(e)
    /\ UNCHANGED <<page, calls>>

-----------------------------------------------------------------------------
(* The answers *)

Receive(c, kind) == calls[c].kind = "answered" /\ calls[c].call.kind = kind
End(c) == calls' = [calls EXCEPT ![c] = Free]

\* Mutant of Drawn: a decided shipment gets its buttons again.
DrawnUnlocked(s, r) == IF r = "none" THEN Showing("none found") ELSE Buttons(s, r)

\* Buttons only if the shipment has not been decided, at the time of the answer.
Drawn(s, r) ==
    IF r = "none" THEN Showing("none found")
    ELSE IF decisions[s] # "none" THEN Showing("banner") ELSE Buttons(s, r)

\* detailRouteRec is looked up again: it is the one of the panel as it is now.
DetailAnswered ==
    \E c \in Calls :
        /\ Receive(c, "detail") /\ End(c)
        /\ panel' = [panel EXCEPT !.body = Drawn(calls[c].call.about, calls[c].value)]
        /\ UNCHANGED <<rows, list, decisions, gone>>

\* The row of s is marked when its route is meant, which may be the approved
\* one, or the shipment itself.
MarkedBy(e, s) == e \in Events /\ Marked[e] \cap {list[s].route, s} # {}

\* applySimulationEffects, then refreshAll.
ScenarioAnswered ==
    \E c \in Calls :
        /\ Receive(c, "scenario") /\ calls' = [calls EXCEPT ![c] = Refresh]
        /\ list' = [s \in DOMAIN list |->
                       IF MarkedBy(calls[c].call.about, s) THEN [list[s] EXCEPT !.late = TRUE]
                       ELSE list[s]]
        /\ UNCHANGED <<rows, decisions, panel, gone>>

RefreshAnswered ==
    \E c \in Calls :
        /\ Receive(c, "refresh") /\ End(c)
        /\ list' = calls[c].value
        /\ gone' = gone \cup (DOMAIN list \ DOMAIN calls[c].value)
        /\ UNCHANGED <<rows, decisions, panel>>

\* The call fails before or after it was served: the error is shown or swallowed.
CallLost ==
    \E c \in Calls : calls[c] # Free /\ End(c) /\ UNCHANGED <<rows, page>>

UserStep ==
    \/ ShowShipmentDetail \/ ApproveRec \/ RejectRec
    \/ RunSimulation \/ RefreshShipments \/ Reload

ServerStep == ServeRefresh \/ ServeDetail \/ ServeScenario \/ OtherScenario
AnswerStep == DetailAnswered \/ ScenarioAnswered \/ RefreshAnswered \/ CallLost

Next == UserStep \/ ServerStep \/ AnswerStep

Spec == Init /\ [][Next]_vars

-----------------------------------------------------------------------------
(* Properties *)

Routes == UNION {Advice[s] : s \in Shipments}

\* Rows, decisions and buttons have their types, and a panel that shows anything
\* has the title of a shipment.
DecisionsTypeOK ==
    /\ DOMAIN rows \subseteq Shipments /\ DOMAIN list \subseteq Shipments
    /\ \A s \in DOMAIN list : list[s].route \in Routes \cup {Own[s]} /\ list[s].late \in BOOLEAN
    /\ \A s \in Shipments : decisions[s] \in Routes \cup {"none", "rejected"}
    /\ panel.body.shows # "nothing" => panel.title \in Shipments
    /\ panel.body.shows = "buttons" => panel.body.route \in Routes

\* "Locked": until the page is loaded again a decision is not replaced by
\* another, with however many panels opened and answers outstanding, unless the
\* shipment has been off the list meanwhile.
DecisionIsFinal ==
    [][~Reload => \A s \in Shipments \ gone :
                     decisions[s] # "none" => decisions'[s] = decisions[s]]_vars

\* A route on the list that is not the one in the table is the one that was
\* approved for that very shipment, though the recommendation may stand in the
\* panel of another.
OnlyApprovedRoutes ==
    \A s \in DOMAIN list : list[s].route # Own[s] => decisions[s] = list[s].route

\* The route approved for a shipment is one that was recommended for it.
ApprovedWasAdvised ==
    \A s \in Shipments : decisions[s] \notin {"none", "rejected"} => decisions[s] \in Advice[s]
=============================================================================
