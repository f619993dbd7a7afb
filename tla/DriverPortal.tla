---------------------------- MODULE DriverPortal ----------------------------
(***************************************************************************)
(* One driver.html page: it selects a driver, polls that driver's          *)
(* notifications and requests, marks notifications read and submits        *)
(* requests, while admins decide and reset through the same server.        *)
(*                                                                         *)
(* Two fetches that one Promise.all waits for are answered separately, and *)
(* the continuations of different calls run in any order.  A call keeps    *)
(* the driver that was selected when it started (`did`).                   *)
(***************************************************************************)
EXTENDS RequestService

CONSTANTS
    Calls,          \* bound: async functions under way at a time
    MaxForms,       \* bound: forms the driver fills in
    MaxSwitches,    \* bound: drivers selected
    MaxDecisions,   \* bound: decisions and resets by admins
    MaxLosses       \* bound: fetches that fail or whose answer is lost

None == "none"

ASSUME PortalAssumption ==
    /\ None \notin Drivers
    /\ MaxForms \in Nat /\ MaxSwitches \in Nat /\ MaxDecisions \in Nat /\ MaxLosses \in Nat

Free == [kind |-> "free"]

\* The answer of a fetch: none yet, or one value.
Waiting == {}

Value(answer) == CHOOSE value \in answer : TRUE

VARIABLES
    selected,   \* driverState.selectedDriver
    notes,      \* driverState.notifications: ids with their read flags
    mine,       \* driverState.requests: ids with their status
    timer,      \* the polling interval is set
    form,       \* the message field: "empty", "filled"
    button,     \* the submit button: "ready", "busy"
    flight,     \* per call: what is under way
    forms, switches, decisions, losses,     \* counters for the bounds
    made,       \* history: rows the form in the fields has produced
    lost        \* history: submissions of that form that ended in an error

pageVars == <<selected, notes, mine, timer>>
formVars == <<form, button, made, lost>>
counters == <<forms, switches, decisions, losses>>
portalVars == <<requests, notifications, selected, notes, mine, timer, form, button, flight,
                forms, switches, decisions, losses, made, lost>>

\* What GET /api/notifications/d and GET /api/driver-requests, filtered by
\* driver, answer for driver d.
NotesOf(d) ==
    [n \in {n \in DOMAIN notifications : notifications[n].driver = d} |-> notifications[n].read]

RequestsOf(d) ==
    [r \in {r \in DOMAIN requests : requests[r].driver = d} |-> requests[r].status]

Empty == [x \in {} |-> {}]

\* loadDriverData up to its first await; `by` is the function that awaits it.
LoadCall(d, by) == [kind |-> "load", did |-> d, by |-> by, notes |-> Waiting]

-----------------------------------------------------------------------------
(* The driver *)

PortalInit ==
    /\ Init
    /\ selected = None /\ notes = Empty /\ mine = Empty /\ timer = FALSE
    /\ form = "empty" /\ button = "ready" /\ made = 0 /\ lost = 0
    /\ flight = [k \in Calls |-> Free]
    /\ forms = 0 /\ switches = 0 /\ decisions = 0 /\ losses = 0

SelectDriver(d, k) ==
    /\ flight[k] = Free
    /\ switches < MaxSwitches
    /\ switches' = switches + 1
    /\ selected' = d
    /\ flight' = [flight EXCEPT ![k] = LoadCall(d, "select")]
    /\ UNCHANGED <<vars, notes, mine, timer, formVars, forms, decisions, losses>>

FillForm ==
    /\ form = "empty"
    /\ forms < MaxForms
    /\ form' = "filled" /\ forms' = forms + 1
    /\ made' = 0 /\ lost' = 0
    /\ UNCHANGED <<vars, pageVars, button, flight, switches, decisions, losses>>

\* Mutant of SubmitRequest: the button stays enabled.
SubmitRequestEnabled(k) ==
    /\ selected # None /\ form = "filled" /\ button = "ready"
    /\ flight[k] = Free
    /\ flight' = [flight EXCEPT ![k] = [kind |-> "submit", did |-> selected, state |-> "sent"]]
    /\ UNCHANGED <<vars, pageVars, formVars, counters>>

\* submitRequest up to its POST.
SubmitRequest(k) ==
    /\ selected # None /\ form = "filled" /\ button = "ready"
    /\ flight[k] = Free
    /\ button' = "busy"
    /\ flight' = [flight EXCEPT ![k] = [kind |-> "submit", did |-> selected, state |-> "sent"]]
    /\ UNCHANGED <<vars, pageVars, form, made, lost, counters>>

\* Clicking a notification, read or not.
MarkNotifRead(n, k) ==
    /\ n \in DOMAIN notes
    /\ flight[k] = Free
    /\ flight' = [flight EXCEPT ![k] = [kind |-> "read", id |-> n, state |-> "sent"]]
    /\ UNCHANGED <<vars, pageVars, formVars, counters>>

\* Mutant of PollUpdates: polls before a driver is selected.
PollUpdatesAlways(k) ==
    /\ flight[k] = Free
    /\ flight' = [flight EXCEPT ![k] =
                    [kind |-> "poll", did |-> selected, notes |-> Waiting, mine |-> Waiting]]
    /\ UNCHANGED <<vars, pageVars, formVars, counters>>

\* pollUpdates, every 5 s.
PollUpdates(k) ==
    /\ timer
    /\ flight[k] = Free
    /\ flight' = [flight EXCEPT ![k] =
                    [kind |-> "poll", did |-> selected, notes |-> Waiting, mine |-> Waiting]]
    /\ UNCHANGED <<vars, pageVars, formVars, counters>>

-----------------------------------------------------------------------------
(* The server *)

ServeNotes(k) ==
    /\ flight[k].kind \in {"load", "poll"} /\ flight[k].notes = Waiting
    /\ flight' = [flight EXCEPT ![k].notes = {NotesOf(flight[k].did)}]
    /\ UNCHANGED <<vars, pageVars, formVars, counters>>

ServeRequests(k) ==
    /\ flight[k].kind \in {"load2", "poll"} /\ flight[k].mine = Waiting
    /\ flight' = [flight EXCEPT ![k].mine = {RequestsOf(flight[k].did)}]
    /\ UNCHANGED <<vars, pageVars, formVars, counters>>

ServeSubmit(k) ==
    /\ flight[k].kind = "submit" /\ flight[k].state = "sent"
    /\ Submit(flight[k].did)
    /\ flight' = [flight EXCEPT ![k].state = "answered"]
    /\ made' = made + 1
    /\ UNCHANGED <<pageVars, form, button, lost, counters>>

ServeRead(k) ==
    /\ flight[k].kind = "read" /\ flight[k].state = "sent"
    /\ IF flight[k].id \in DOMAIN notifications THEN MarkRead(flight[k].id) ELSE UNCHANGED vars
    /\ flight' = [flight EXCEPT ![k].state = "answered"]
    /\ UNCHANGED <<pageVars, formVars, counters>>

\* Admins decide any request and reset at any time (see AdminConsole).
AdminActs ==
    /\ decisions < MaxDecisions
    /\ decisions' = decisions + 1
    /\ \/ \E r \in DOMAIN requests, v \in Verdicts, t \in Replies : Decide(r, v, t)
       \/ Reset
    /\ UNCHANGED <<pageVars, formVars, flight, forms, switches, losses>>

-----------------------------------------------------------------------------
(* Continuations *)

\* Mutants of Finish: a failed load leaves the caller, without a timer; or
\* with a disabled button.
FinishLoaded(k) ==
    /\ flight' = [flight EXCEPT ![k] = Free]
    /\ timer' = (timer \/ (flight[k].by = "select" /\ flight[k].kind = "load2"))
    /\ button' = IF flight[k].by = "submit" THEN "ready" ELSE button

FinishBusy(k) ==
    /\ flight' = [flight EXCEPT ![k] = Free]
    /\ timer' = (timer \/ flight[k].by = "select")
    /\ button' = IF flight[k].by = "submit" /\ flight[k].kind = "load2" THEN "ready" ELSE button

\* The end of loadDriverData: what its caller does next.
Finish(k) ==
    /\ flight' = [flight EXCEPT ![k] = Free]
    /\ timer' = (timer \/ flight[k].by = "select")
    /\ button' = IF flight[k].by = "submit" THEN "ready" ELSE button

LoadAnswered(k) ==
    /\ flight[k].kind = "load" /\ flight[k].notes # Waiting
    /\ notes' = Value(flight[k].notes)
    /\ flight' = [flight EXCEPT ![k] = [kind |-> "load2", did |-> flight[k].did,
                                        by |-> flight[k].by, mine |-> Waiting]]
    /\ UNCHANGED <<vars, selected, mine, timer, formVars, counters>>

Load2Answered(k) ==
    /\ flight[k].kind = "load2" /\ flight[k].mine # Waiting
    /\ mine' = Value(flight[k].mine)
    /\ Finish(k)
    /\ UNCHANGED <<vars, selected, notes, form, made, lost, counters>>

PollAnswered(k) ==
    /\ flight[k].kind = "poll" /\ flight[k].notes # Waiting /\ flight[k].mine # Waiting
    /\ notes' = Value(flight[k].notes)
    /\ mine' = Value(flight[k].mine)
    /\ flight' = [flight EXCEPT ![k] = Free]
    /\ UNCHANGED <<vars, selected, timer, formVars, counters>>

\* The form is cleared and the data loaded for whoever is selected by now;
\* the button stays disabled meanwhile.
SubmitAnswered(k) ==
    /\ flight[k].kind = "submit" /\ flight[k].state = "answered"
    /\ form' = "empty"
    /\ flight' = [flight EXCEPT ![k] = LoadCall(selected, "submit")]
    /\ UNCHANGED <<vars, pageVars, button, made, lost, counters>>

\* The copy in whatever list is there by now is marked.
ReadAnswered(k) ==
    /\ flight[k].kind = "read" /\ flight[k].state = "answered"
    /\ notes' = [n \in DOMAIN notes |-> notes[n] \/ n = flight[k].id]
    /\ flight' = [flight EXCEPT ![k] = Free]
    /\ UNCHANGED <<vars, selected, mine, timer, formVars, counters>>

\* A fetch rejects, before or after the server acted.  Every function
\* catches it; submitRequest alerts, keeps the form and frees the button.
CallLost(k) ==
    /\ flight[k] # Free
    /\ losses < MaxLosses
    /\ losses' = losses + 1
    /\ CASE flight[k].kind \in {"load", "load2"} -> Finish(k) /\ UNCHANGED lost
         [] flight[k].kind = "submit" ->
                /\ flight' = [flight EXCEPT ![k] = Free]
                /\ button' = "ready" /\ lost' = lost + 1
                /\ UNCHANGED timer
         [] OTHER -> /\ flight' = [flight EXCEPT ![k] = Free]
                     /\ UNCHANGED <<timer, button, lost>>
    /\ UNCHANGED <<vars, selected, notes, mine, form, made, forms, switches, decisions>>

-----------------------------------------------------------------------------

DriverStep ==
    \/ \E d \in Drivers, k \in Calls : SelectDriver(d, k)
    \/ FillForm
    \/ \E k \in Calls : SubmitRequest(k) \/ \E n \in DOMAIN notes : MarkNotifRead(n, k)

Serve(k) == ServeNotes(k) \/ ServeRequests(k) \/ ServeSubmit(k) \/ ServeRead(k)

Continue(k) ==
    \/ LoadAnswered(k) \/ Load2Answered(k) \/ PollAnswered(k)
    \/ SubmitAnswered(k) \/ ReadAnswered(k)

PortalNext ==
    \/ DriverStep
    \/ AdminActs
    \/ \E k \in Calls : PollUpdates(k) \/ Serve(k) \/ Continue(k) \/ CallLost(k)

\* The interval fires whatever else is under way: strong fairness, because in
\* the model a poll needs one of the bounded Calls and clicks may take them.
\* The server works its queue off and continuations run.
\* A full table (bound MaxRequests) leaves a submission unserved, but no
\* fairness obliges the driver to submit.
PortalFairness ==
    /\ SF_portalVars(\E k \in Calls : PollUpdates(k))
    /\ \A k \in Calls : WF_portalVars(Serve(k)) /\ WF_portalVars(Continue(k))

PortalSpec == PortalInit /\ [][PortalNext]_portalVars /\ PortalFairness

-----------------------------------------------------------------------------
(* Properties *)

\* The page, its form and its calls are well typed.
PortalTypeOK ==
    /\ TypeOK
    /\ selected \in Drivers \cup {None}
    /\ timer \in BOOLEAN /\ (timer => selected # None)
    /\ form \in {"empty", "filled"} /\ button \in {"ready", "busy"}
    /\ DOMAIN notes \subseteq NotificationIds /\ DOMAIN mine \subseteq RequestIds
    /\ \A k \in Calls : flight[k].kind \in {"free", "load", "load2", "poll", "submit", "read"}
    /\ \A k \in Calls : flight[k].kind \in {"load", "load2", "poll", "submit"} =>
                            flight[k].did \in Drivers

\* A filled form becomes one request per submission that failed in the
\* driver's eyes, and one more: retrying is the only source of duplicates.
OneRequestPerForm == made <= lost + 1

\* Once a driver stays selected and nothing changes any more, the page shows
\* that driver's notifications and requests as the server has them, whoever
\* was selected before and whichever answers came late.
PageFollowsSelection ==
    \A d \in Drivers :
        <>[](selected = d) => <>[](notes = NotesOf(d) /\ mine = RequestsOf(d))

\* The submit button never stays disabled.
ButtonReturns == button = "busy" ~> button = "ready"
=============================================================================
