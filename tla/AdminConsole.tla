---------------------------- MODULE AdminConsole ----------------------------
(***************************************************************************)
(* Dashboard tabs deciding driver requests through lists they fetched      *)
(* earlier.  Every fetch uses a connection of its own, so answers may      *)
(* arrive in another order than the server produced them, or never; the    *)
(* server itself executes one handler at a time (RequestServer shows why   *)
(* RequestService may stand for it).  Drivers submit in the background.    *)
(*                                                                         *)
(* A tab keeps the fetched list twice: state.driverRequests, which the     *)
(* badge counts, and the cards of the last render, which carry the         *)
(* buttons.  The two differ while the section is not on screen.            *)
(***************************************************************************)
EXTENDS RequestService

CONSTANTS
    Tabs,           \* open dashboards
    Calls,          \* bound: calls one tab has in flight at a time
    ApproveText,    \* the reply approveDriverRequest sends
    Reasons,        \* what an admin may type into the reject dialog
    MaxClicks,      \* bound: decisions and resets sent by all tabs
    MaxResets,      \* bound: how many of them are resets
    MaxLosses       \* bound: calls that fail or whose answer is lost

ASSUME ConsoleAssumption ==
    /\ ApproveText \in Replies /\ Reasons \subseteq Replies
    /\ MaxClicks \in Nat /\ MaxResets \in Nat /\ MaxLosses \in Nat
    /\ IsFiniteSet(Tabs) /\ IsFiniteSet(Calls)

Free == [kind |-> "free"]

NoDialog == [id |-> 0]

VARIABLES
    cached,     \* per tab: state.driverRequests
    shown,      \* per tab: the list renderDriverRequests drew
    active,     \* per tab: the driver requests section is on screen
    dialog,     \* per tab: the card whose reject dialog is open
    flight,     \* per tab and call: what is under way
    clicks,     \* decisions and resets sent
    losses,     \* calls lost
    epoch       \* history: resets executed

tabVars == <<cached, shown, active, dialog>>
consoleVars == <<requests, notifications, cached, shown, active, dialog, flight,
                 clicks, losses, epoch>>

\* A list as the server answers it; its `epoch` is history, not in the answer.
Snapshot ==
    [rows |-> [r \in DOMAIN requests |->
                 [driver |-> requests[r].driver, status |-> requests[r].status]],
     epoch |-> epoch]

\* A card the admin acts on: the call carries its id, the rest is history.
Card(t, r) == [id |-> r, driver |-> shown[t].rows[r].driver, epoch |-> shown[t].epoch]

Start(t, k, call) ==
    /\ flight[t][k] = Free
    /\ flight' = [flight EXCEPT ![t][k] = call]

End(t, k) == flight' = [flight EXCEPT ![t][k] = Free]

Awaits(t, k, kinds) == flight[t][k].kind \in kinds /\ flight[t][k].state = "sent"

Answered(t, k, kinds) == flight[t][k].kind \in kinds /\ flight[t][k].state = "answered"

-----------------------------------------------------------------------------
(* What a tab does *)

\* init: refreshAll has drawn the list once, another section is on screen.
ConsoleInit ==
    /\ Init
    /\ epoch = 0 /\ clicks = 0 /\ losses = 0
    /\ cached = [t \in Tabs |-> Snapshot]
    /\ shown = [t \in Tabs |-> Snapshot]
    /\ active = [t \in Tabs |-> FALSE]
    /\ dialog = [t \in Tabs |-> NoDialog]
    /\ flight = [t \in Tabs |-> [k \in Calls |-> Free]]

\* The interval timer; it does not wait for the previous poll.
Poll(t, k) ==
    /\ Start(t, k, [kind |-> "poll", state |-> "sent"])
    /\ UNCHANGED <<vars, tabVars, clicks, losses, epoch>>

\* showSection draws nothing anew.
ShowSection(t) ==
    /\ dialog[t] = NoDialog
    /\ active' = [active EXCEPT ![t] = ~active[t]]
    /\ UNCHANGED <<vars, cached, shown, dialog, flight, clicks, losses, epoch>>

\* A filter button draws the cached list; which cards the filter hides is
\* left out.
FilterList(t) ==
    /\ active[t] /\ dialog[t] = NoDialog
    /\ shown' = [shown EXCEPT ![t] = cached[t]]
    /\ UNCHANGED <<vars, cached, active, dialog, flight, clicks, losses, epoch>>

\* The card of r is on screen with its buttons and no dialog covers it.
HasButtons(t, r) ==
    /\ active[t] /\ dialog[t] = NoDialog
    /\ shown[t].rows[r].status = "PENDING"

SendDecision(t, k, card, verdict, reply) ==
    /\ clicks < MaxClicks
    /\ clicks' = clicks + 1
    /\ Start(t, k, [kind |-> "decide", state |-> "sent", card |-> card,
                    verdict |-> verdict, reply |-> reply])

\* Nothing disables the buttons while the call runs.
ApproveDriverRequest(t, k, r) ==
    /\ HasButtons(t, r)
    /\ SendDecision(t, k, Card(t, r), "APPROVED", ApproveText)
    /\ UNCHANGED <<vars, tabVars, losses, epoch>>

OpenRejectDialog(t, r) ==
    /\ HasButtons(t, r)
    /\ dialog' = [dialog EXCEPT ![t] = Card(t, r)]
    /\ UNCHANGED <<vars, cached, shown, active, flight, clicks, losses, epoch>>

CloseRejectDialog(t) ==
    /\ dialog[t] # NoDialog
    /\ dialog' = [dialog EXCEPT ![t] = NoDialog]
    /\ UNCHANGED <<vars, cached, shown, active, flight, clicks, losses, epoch>>

\* Mutants of ConfirmReject: the card is redrawn before the answer; the id is
\* taken from a pending card on screen when the admin confirms.
ConfirmRejectRedraws(t, k, reason) ==
    /\ dialog[t] # NoDialog
    /\ SendDecision(t, k, dialog[t], "REJECTED", reason)
    /\ dialog' = [dialog EXCEPT ![t] = NoDialog]
    /\ shown' = [shown EXCEPT ![t].rows =
                   [r \in DOMAIN @ |-> IF r = dialog[t].id
                                       THEN [@[r] EXCEPT !.status = "REJECTED"] ELSE @[r]]]
    /\ UNCHANGED <<vars, cached, active, losses, epoch>>

ConfirmRejectOnScreen(t, k, reason) ==
    /\ dialog[t] # NoDialog
    /\ \E r \in DOMAIN shown[t].rows :
          /\ shown[t].rows[r].status = "PENDING"
          /\ SendDecision(t, k, [dialog[t] EXCEPT !.id = r], "REJECTED", reason)
    /\ dialog' = [dialog EXCEPT ![t] = NoDialog]
    /\ UNCHANGED <<vars, cached, shown, active, losses, epoch>>

\* The dialog kept nothing but the id, however long it stayed open.
ConfirmReject(t, k, reason) ==
    /\ dialog[t] # NoDialog
    /\ SendDecision(t, k, dialog[t], "REJECTED", reason)
    /\ dialog' = [dialog EXCEPT ![t] = NoDialog]
    /\ UNCHANGED <<vars, cached, shown, active, losses, epoch>>

\* runSimulation("reset").
SendReset(t, k) ==
    /\ clicks < MaxClicks
    /\ epoch + Cardinality({u \in Tabs \X Calls : Awaits(u[1], u[2], {"reset"})}) < MaxResets
    /\ dialog[t] = NoDialog
    /\ Start(t, k, [kind |-> "reset", state |-> "sent"])
    /\ clicks' = clicks + 1
    /\ UNCHANGED <<vars, tabVars, losses, epoch>>

-----------------------------------------------------------------------------
(* What the server answers *)

ServeList(t, k) ==
    /\ Awaits(t, k, {"poll", "refresh"})
    /\ flight' = [flight EXCEPT ![t][k] =
                    [kind |-> @.kind, state |-> "answered", list |-> Snapshot]]
    /\ UNCHANGED <<vars, tabVars, clicks, losses, epoch>>

ServeDecision(t, k) ==
    /\ Awaits(t, k, {"decide"})
    /\ LET call == flight[t][k] IN Decide(call.card.id, call.verdict, call.reply)
    /\ flight' = [flight EXCEPT ![t][k] = [kind |-> "decide", state |-> "answered"]]
    /\ UNCHANGED <<tabVars, clicks, losses, epoch>>

ServeReset(t, k) ==
    /\ Awaits(t, k, {"reset"})
    /\ Reset
    /\ epoch' = epoch + 1
    /\ flight' = [flight EXCEPT ![t][k] = [kind |-> "reset", state |-> "answered"]]
    /\ UNCHANGED <<tabVars, clicks, losses>>

\* A driver submits a request.
DriverSubmits(d) ==
    /\ Submit(d)
    /\ UNCHANGED <<tabVars, flight, clicks, losses, epoch>>

-----------------------------------------------------------------------------
(* What a tab does with an answer *)

\* Mutant of PollAnswered: draws the answer without keeping it.
PollAnsweredDrawsOnly(t, k) ==
    /\ Answered(t, k, {"poll"})
    /\ shown' = IF active[t] THEN [shown EXCEPT ![t] = flight[t][k].list] ELSE shown
    /\ End(t, k)
    /\ UNCHANGED <<vars, cached, active, dialog, clicks, losses, epoch>>

\* A poll draws the cards only while they are on screen.
PollAnswered(t, k) ==
    /\ Answered(t, k, {"poll"})
    /\ cached' = [cached EXCEPT ![t] = flight[t][k].list]
    /\ shown' = IF active[t] THEN [shown EXCEPT ![t] = flight[t][k].list] ELSE shown
    /\ End(t, k)
    /\ UNCHANGED <<vars, active, dialog, clicks, losses, epoch>>

\* refreshDriverAndShipments and refreshAll draw them always.
RefreshAnswered(t, k) ==
    /\ Answered(t, k, {"refresh"})
    /\ cached' = [cached EXCEPT ![t] = flight[t][k].list]
    /\ shown' = [shown EXCEPT ![t] = flight[t][k].list]
    /\ End(t, k)
    /\ UNCHANGED <<vars, active, dialog, clicks, losses, epoch>>

\* Mutant of ActionAnswered: does not wait for the list.
ActionAnsweredNoWait(t, k) ==
    /\ Answered(t, k, {"decide", "reset"})
    /\ flight' = [flight EXCEPT ![t][k] = [kind |-> "refresh", state |-> "answered"]]
    /\ UNCHANGED <<vars, tabVars, clicks, losses, epoch>>

\* A decision or a reset that came back asks for the list.
ActionAnswered(t, k) ==
    /\ Answered(t, k, {"decide", "reset"})
    /\ flight' = [flight EXCEPT ![t][k] = [kind |-> "refresh", state |-> "sent"]]
    /\ UNCHANGED <<vars, tabVars, clicks, losses, epoch>>

\* The fetch rejects, before or after the server acted: no refresh follows.
CallLost(t, k) ==
    /\ flight[t][k] # Free
    /\ losses < MaxLosses
    /\ losses' = losses + 1
    /\ End(t, k)
    /\ UNCHANGED <<vars, tabVars, clicks, epoch>>

-----------------------------------------------------------------------------

UserStep(t) ==
    \/ ShowSection(t)
    \/ FilterList(t)
    \/ \E k \in Calls :
          \/ \E r \in DOMAIN shown[t].rows : ApproveDriverRequest(t, k, r)
          \/ \E reason \in Reasons : ConfirmReject(t, k, reason)
          \/ SendReset(t, k)
    \/ \E r \in DOMAIN shown[t].rows : OpenRejectDialog(t, r)
    \/ CloseRejectDialog(t)

Serve(t, k) == ServeList(t, k) \/ ServeDecision(t, k) \/ ServeReset(t, k)

Receive(t, k) == PollAnswered(t, k) \/ RefreshAnswered(t, k) \/ ActionAnswered(t, k)

ConsoleNext ==
    \/ \E t \in Tabs : UserStep(t)
    \/ \E t \in Tabs, k \in Calls : Poll(t, k) \/ Serve(t, k) \/ Receive(t, k) \/ CallLost(t, k)
    \/ \E d \in Drivers : DriverSubmits(d)

ConsoleSpec == ConsoleInit /\ [][ConsoleNext]_consoleVars

\* The timer fires every 5 s, the server works its queue off, and the browser
\* runs the continuation of every answer.
Fairness ==
    \A t \in Tabs :
        /\ WF_consoleVars(\E k \in Calls : Poll(t, k))
        /\ \A k \in Calls : WF_consoleVars(Serve(t, k)) /\ WF_consoleVars(Receive(t, k))

FairConsoleSpec == ConsoleSpec /\ Fairness

-----------------------------------------------------------------------------
(* Properties *)

View == [rows : UNION {[R -> [driver : Drivers, status : {"PENDING"} \cup Verdicts]] :
                          R \in SUBSET RequestIds},
         epoch : 0 .. MaxResets]

CardType == [id : RequestIds, driver : Drivers, epoch : 0 .. MaxResets]

Call ==
    {Free}
    \cup [kind : {"poll", "refresh", "reset"}, state : {"sent"}]
    \cup [kind : {"decide", "reset"}, state : {"answered"}]
    \cup [kind : {"poll", "refresh"}, state : {"answered"}, list : View]
    \cup [kind : {"decide"}, state : {"sent"}, card : CardType,
          verdict : Verdicts, reply : Replies]

\* Every view, dialog and call in flight is well typed.
ConsoleTypeOK ==
    /\ TypeOK
    /\ cached \in [Tabs -> View] /\ shown \in [Tabs -> View]
    /\ active \in [Tabs -> BOOLEAN]
    /\ dialog \in [Tabs -> {NoDialog} \cup CardType]
    /\ flight \in [Tabs -> [Calls -> Call]]
    /\ clicks \in 0 .. MaxClicks /\ losses \in 0 .. MaxLosses /\ epoch \in 0 .. MaxResets

\* A card without buttons is about a request that has been decided: no
\* stale, reordered or lost answer hides a request that still waits, unless
\* a reset came after the list.
DecidedOnScreenIsDecided ==
    \A t \in Tabs : \A list \in {cached[t], shown[t]} :
        list.epoch = epoch =>
            \A r \in DOMAIN list.rows :
                list.rows[r].status \in Verdicts =>
                    r \in DOMAIN requests /\ requests[r].status \in Verdicts

\* A decision under way addresses the request that was on the card, however
\* stale the list and however long the dialog was open; only a reset can
\* give the id to another request.
DecisionsHitTheirCard ==
    \A t \in Tabs, k \in Calls :
        Awaits(t, k, {"decide"}) /\ flight[t][k].card.epoch = epoch =>
            LET card == flight[t][k].card IN
            card.id \in DOMAIN requests /\ requests[card.id].driver = card.driver

\* Once admins and drivers are done, every tab's badge counts what the
\* server has, and a section that stays on screen shows it.
TabsConverge ==
    \A t \in Tabs :
        /\ <>[](cached[t] = Snapshot)
        /\ <>[](active[t]) => <>[](shown[t] = Snapshot)
=============================================================================
