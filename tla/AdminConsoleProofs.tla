-------------------------- MODULE AdminConsoleProofs --------------------------
(***************************************************************************)
(* Dashboard tabs with stale lists, for any number of tabs, calls, clicks, *)
(* resets and lost calls.  The argument follows the lists: wherever one    *)
(* is (drawn, kept or still in an answer under way), what it says of a     *)
(* request has been true since it was made and cannot be undone but by a   *)
(* reset, which leaves the list behind in an older epoch.                  *)
(***************************************************************************)
EXTENDS AdminConsole, RequestServiceProofs

\* A list made before the reset that began epoch e, or one whose requests are
\* in the table, of the same drivers, and decided if it says so.
Faithful(list, table, e) ==
    /\ list.epoch <= e
    /\ list.epoch = e =>
           \A r \in DOMAIN list.rows :
               /\ r \in DOMAIN table /\ table[r].driver = list.rows[r].driver
               /\ list.rows[r].status \in Verdicts => table[r].status \in Verdicts

Addressed(card, table, e) ==
    /\ card.epoch <= e
    /\ card.epoch = e => card.id \in DOMAIN table /\ table[card.id].driver = card.driver

ListsOK ==
    \A t \in Tabs :
        /\ Faithful(cached[t], requests, epoch) /\ Faithful(shown[t], requests, epoch)
        /\ \A k \in Calls : Answered(t, k, {"poll", "refresh"}) =>
                                Faithful(flight[t][k].list, requests, epoch)

CardsOK ==
    \A t \in Tabs :
        /\ dialog[t] # NoDialog => Addressed(dialog[t], requests, epoch)
        /\ \A k \in Calls : Awaits(t, k, {"decide"}) =>
                                Addressed(flight[t][k].card, requests, epoch)

\* The resets that are sent are counted against the bound.
Resets == {u \in Tabs \X Calls : Awaits(u[1], u[2], {"reset"})}

ResetsCounted == epoch \in Nat /\ epoch + Cardinality(Resets) <= MaxResets

TabsTyped ==
    /\ cached \in [Tabs -> View] /\ shown \in [Tabs -> View]
    /\ active \in [Tabs -> BOOLEAN]
    /\ dialog \in [Tabs -> {NoDialog} \cup CardType]
    /\ clicks \in 0 .. MaxClicks /\ losses \in 0 .. MaxLosses

FlightTyped == flight \in [Tabs -> [Calls -> Call]]

ConsoleInv ==
    IInv /\ TabsTyped /\ FlightTyped /\ ResetsCounted /\ ListsOK /\ CardsOK

-----------------------------------------------------------------------------
(* The server's steps *)

\* No request leaves the table, changes its driver or is undecided again.
Keeps(before, after) ==
    \A r \in DOMAIN before :
        /\ r \in DOMAIN after /\ after[r].driver = before[r].driver
        /\ before[r].status \in Verdicts => after[r].status \in Verdicts

LEMMA SubmitKeeps ==
    ASSUME IInv, NEW d \in Drivers, Submit(d)
    PROVE  Keeps(requests, requests')
BY NextIdIsFresh DEF IInv, Submit, Put, Keeps

LEMMA DecideKeeps ==
    ASSUME IInv, NEW r, NEW v \in Verdicts, NEW reply, Decide(r, v, reply)
    PROVE  Keeps(requests, requests')
<1> SUFFICES ASSUME NEW q \in DOMAIN requests
             PROVE  /\ q \in DOMAIN requests' /\ requests'[q].driver = requests[q].driver
                    /\ requests[q].status \in Verdicts => requests'[q].status \in Verdicts
  BY DEF Keeps
<1>1. requests[q] \in Request
  BY DEF IInv, TypeOK
<1>2. /\ DOMAIN requests' = DOMAIN requests
      /\ requests'[q] = IF q = r THEN [requests[q] EXCEPT !.status = v, !.reply = reply]
                        ELSE requests[q]
  BY DEF Decide, WithVerdict
<1> QED
  BY <1>1, <1>2 DEF Request

LEMMA StillFaithful ==
    ASSUME NEW list, NEW before, NEW after, NEW e, Keeps(before, after), Faithful(list, before, e)
    PROVE  Faithful(list, after, e)
BY DEF Faithful, Keeps

LEMMA StillAddressed ==
    ASSUME NEW card, NEW before, NEW after, NEW e, Keeps(before, after), Addressed(card, before, e)
    PROVE  Addressed(card, after, e)
BY DEF Addressed, Keeps

LEMMA LeftBehind ==
    ASSUME NEW x, NEW before, NEW after, NEW e \in Nat, x.epoch \in Nat
    PROVE  /\ Faithful(x, before, e) => Faithful(x, after, e + 1)
           /\ Addressed(x, before, e) => Addressed(x, after, e + 1)
BY DEF Faithful, Addressed

\* Between two steps of the tables every list and card holds of the new ones.
LEMMA TablesStep ==
    ASSUME ListsOK, CardsOK, Keeps(requests, requests'),
           UNCHANGED <<cached, shown, dialog, epoch>>,
           \A t \in Tabs, k \in Calls :
               /\ Answered(t, k, {"poll", "refresh"})' =>
                      Answered(t, k, {"poll", "refresh"}) /\ flight'[t][k] = flight[t][k]
               /\ Awaits(t, k, {"decide"})' =>
                      Awaits(t, k, {"decide"}) /\ flight'[t][k] = flight[t][k]
    PROVE  ListsOK' /\ CardsOK'
<1>1. ListsOK'
  BY StillFaithful DEF ListsOK
<1>2. CardsOK'
  BY StillAddressed DEF CardsOK
<1> QED
  BY <1>1, <1>2

-----------------------------------------------------------------------------
(* The calls under way *)

LEMMA SnapshotIs ==
    ASSUME ConsoleInv
    PROVE  Snapshot \in View /\ Faithful(Snapshot, requests, epoch) /\ epoch \in 0 .. MaxResets
<1>1. epoch \in 0 .. MaxResets
  <2>1. IsFiniteSet(Resets)
    <3>1. IsFiniteSet(Tabs \X Calls) /\ Resets \in SUBSET (Tabs \X Calls)
      BY ConsoleAssumption, FS_Product DEF Resets
    <3> QED
      BY ONLY <3>1, FS_Subset
  <2>2. Cardinality(Resets) \in Nat
    BY ONLY <2>1, FS_CardinalityType
  <2> QED
    BY <2>2, ConsoleAssumption DEF ConsoleInv, ResetsCounted
<1>2. /\ DOMAIN requests \in SUBSET RequestIds
      /\ \A r \in DOMAIN requests : requests[r] \in Request
  BY DEF ConsoleInv, IInv, TypeOK
<1> DEFINE rows == [r \in DOMAIN requests |->
                       [driver |-> requests[r].driver, status |-> requests[r].status]]
<1>3. rows \in [DOMAIN requests -> [driver : Drivers, status : {"PENDING"} \cup Verdicts]]
  BY <1>2 DEF Request
<1>4. Snapshot \in View
  BY <1>1, <1>2, <1>3 DEF Snapshot, View
<1>5. Faithful(Snapshot, requests, epoch)
  BY <1>1 DEF Snapshot, Faithful
<1> QED
  BY <1>1, <1>4, <1>5

\* One call is replaced by another.
Replaced(t, k, call) == flight' = [flight EXCEPT ![t][k] = call]

LEMMA FlightStep ==
    ASSUME FlightTyped, NEW t \in Tabs, NEW k \in Calls, NEW call \in Call, Replaced(t, k, call)
    PROVE  /\ FlightTyped' /\ flight'[t][k] = call
           /\ \A u \in Tabs, j \in Calls : u # t \/ j # k => flight'[u][j] = flight[u][j]
BY DEF FlightTyped, Replaced

LEMMA ResetsStep ==
    ASSUME ResetsCounted, epoch' = epoch, NEW t \in Tabs, NEW k \in Calls,
           \A u \in Tabs, j \in Calls : u # t \/ j # k => flight'[u][j] = flight[u][j],
           ~Awaits(t, k, {"reset"})'
    PROVE  ResetsCounted'
<1>1. IsFiniteSet(Resets)
  <2>1. IsFiniteSet(Tabs \X Calls) /\ Resets \in SUBSET (Tabs \X Calls)
    BY ConsoleAssumption, FS_Product DEF Resets
  <2> QED
    BY ONLY <2>1, FS_Subset
<1>2. Resets' \in SUBSET Resets
  BY DEF Resets, Awaits
<1>3. IsFiniteSet(Resets') /\ Cardinality(Resets') <= Cardinality(Resets)
  BY ONLY <1>1, <1>2, FS_Subset
<1>4. Cardinality(Resets) \in Nat /\ Cardinality(Resets') \in Nat
  BY ONLY <1>1, <1>3, FS_CardinalityType
<1> QED
  BY <1>3, <1>4, ConsoleAssumption DEF ResetsCounted

-----------------------------------------------------------------------------
(* One lemma per kind of step *)

\* Sections, filters and dialogs: what is drawn or addressed was there before.
LEMMA PageStep ==
    ASSUME ConsoleInv, UNCHANGED <<vars, flight, clicks, losses, epoch>>, TabsTyped',
           \A t \in Tabs :
               /\ cached'[t] \in {cached[t], shown[t]} /\ shown'[t] \in {cached[t], shown[t]}
               /\ dialog'[t] # NoDialog => Addressed(dialog'[t], requests, epoch)
    PROVE  ConsoleInv'
<1>1. UNCHANGED <<requests, notifications>>
  BY DEF vars
<1>2. IInv'
  BY <1>1, NextIInv DEF ConsoleInv, vars
<1>3. FlightTyped' /\ ResetsCounted'
  BY DEF ConsoleInv, FlightTyped, ResetsCounted, Resets, Awaits
<1>4. ListsOK'
  BY <1>1 DEF ConsoleInv, ListsOK, Answered
<1>5. CardsOK'
  BY <1>1 DEF ConsoleInv, CardsOK, Awaits
<1> QED
  BY <1>2, <1>3, <1>4, <1>5 DEF ConsoleInv

\* A card of the list that is drawn.
LEMMA CardIs ==
    ASSUME ConsoleInv, NEW t \in Tabs, NEW r \in DOMAIN shown[t].rows
    PROVE  Card(t, r) \in CardType /\ Addressed(Card(t, r), requests, epoch)
<1>1. shown[t] \in View
  BY DEF ConsoleInv, TabsTyped
<1>2. /\ r \in RequestIds /\ shown[t].rows[r].driver \in Drivers
      /\ shown[t].epoch \in 0 .. MaxResets
  <2> PICK R \in SUBSET RequestIds :
           shown[t].rows \in [R -> [driver : Drivers, status : {"PENDING"} \cup Verdicts]]
    BY <1>1 DEF View
  <2>1. shown[t].rows[r] \in [driver : Drivers, status : {"PENDING"} \cup Verdicts]
    OBVIOUS
  <2> QED
    BY <1>1, <2>1 DEF View
<1>3. Faithful(shown[t], requests, epoch)
  BY DEF ConsoleInv, ListsOK
<1> QED
  BY <1>2, <1>3 DEF Card, CardType, Faithful, Addressed

LEMMA UserPageOK ==
    ASSUME ConsoleInv, NEW t \in Tabs,
           \/ ShowSection(t) \/ FilterList(t) \/ CloseRejectDialog(t)
           \/ \E r \in DOMAIN shown[t].rows : OpenRejectDialog(t, r)
    PROVE  ConsoleInv'
<1>1. TabsTyped /\ \A u \in Tabs : dialog[u] # NoDialog => Addressed(dialog[u], requests, epoch)
  BY DEF ConsoleInv, CardsOK
<1>2. CASE ShowSection(t) \/ FilterList(t) \/ CloseRejectDialog(t)
  <2>1. UNCHANGED <<vars, flight, clicks, losses, epoch>> /\ TabsTyped'
    BY <1>1, <1>2 DEF ShowSection, FilterList, CloseRejectDialog, TabsTyped
  <2>2. \A u \in Tabs :
            /\ cached'[u] \in {cached[u], shown[u]} /\ shown'[u] \in {cached[u], shown[u]}
            /\ dialog'[u] \in {dialog[u], NoDialog}
    BY <1>1, <1>2 DEF ShowSection, FilterList, CloseRejectDialog, TabsTyped
  <2> QED
    BY <1>1, <2>1, <2>2, PageStep
<1>3. ASSUME NEW r \in DOMAIN shown[t].rows, OpenRejectDialog(t, r)
      PROVE  ConsoleInv'
  <2> PICK card : card = Card(t, r)
    OBVIOUS
  <2>1. card \in CardType /\ Addressed(card, requests, epoch)
    BY CardIs
  <2>2. /\ UNCHANGED <<vars, cached, shown, active, flight, clicks, losses, epoch>>
        /\ dialog' = [dialog EXCEPT ![t] = card]
    BY <1>3 DEF OpenRejectDialog
  <2>3. TabsTyped' /\ \A u \in Tabs : dialog'[u] = IF u = t THEN card ELSE dialog[u]
    BY <1>1, <2>1, <2>2 DEF TabsTyped
  <2> QED
    BY <1>1, <2>1, <2>2, <2>3, PageStep
<1> QED
  BY <1>2, <1>3

\* A call is sent that is not a reset: of a decision the card is known.
LEMMA SentOK ==
    ASSUME ConsoleInv, NEW t \in Tabs, NEW k \in Calls, NEW call \in Call, Start(t, k, call),
           call.kind # "reset", call.kind # "free", call.state = "sent",
           call.kind = "decide" => Addressed(call.card, requests, epoch),
           TabsTyped', \A u \in Tabs : dialog'[u] \in {dialog[u], NoDialog},
           UNCHANGED <<vars, cached, shown, epoch>>
    PROVE  ConsoleInv'
<1>1. UNCHANGED <<requests, notifications>>
  BY DEF vars
<1>2. IInv'
  BY <1>1, NextIInv DEF ConsoleInv, vars
<1>3. /\ FlightTyped' /\ flight'[t][k] = call
      /\ \A u \in Tabs, j \in Calls : u # t \/ j # k => flight'[u][j] = flight[u][j]
  <2>1. FlightTyped /\ Replaced(t, k, call)
    BY DEF ConsoleInv, Start, Replaced
  <2> QED
    BY <2>1, FlightStep
<1>4. ResetsCounted'
  BY <1>3, ResetsStep DEF ConsoleInv, Awaits
<1>5. ListsOK'
  <2>1. ASSUME NEW u \in Tabs, NEW j \in Calls, Answered(u, j, {"poll", "refresh"})'
        PROVE  Answered(u, j, {"poll", "refresh"}) /\ flight'[u][j] = flight[u][j]
    BY <1>3, <2>1 DEF Answered
  <2> QED
    BY <1>1, <2>1 DEF ConsoleInv, ListsOK
<1>6. CardsOK'
  <2>1. ASSUME NEW u \in Tabs, NEW j \in Calls, Awaits(u, j, {"decide"})'
        PROVE  Addressed(flight'[u][j].card, requests, epoch)
    <3>1. CASE u = t /\ j = k
      BY <1>3, <2>1, <3>1 DEF Awaits
    <3>2. CASE u # t \/ j # k
      BY <1>3, <2>1, <3>2 DEF Awaits, ConsoleInv, CardsOK
    <3> QED
      BY <3>1, <3>2
  <2> QED
    BY <1>1, <2>1 DEF ConsoleInv, CardsOK
<1> QED
  BY <1>2, <1>3, <1>4, <1>5, <1>6 DEF ConsoleInv

LEMMA UserCallOK ==
    ASSUME ConsoleInv, NEW t \in Tabs, NEW k \in Calls,
           \/ Poll(t, k)
           \/ \E r \in DOMAIN shown[t].rows : ApproveDriverRequest(t, k, r)
           \/ \E reason \in Reasons : ConfirmReject(t, k, reason)
    PROVE  ConsoleInv'
<1>1. TabsTyped
  BY DEF ConsoleInv
<1>2. CASE Poll(t, k)
  <2> PICK call : call = [kind |-> "poll", state |-> "sent"]
    OBVIOUS
  <2>1. call \in Call /\ call.kind = "poll" /\ call.state = "sent"
    BY DEF Call
  <2>2. Start(t, k, call) /\ UNCHANGED <<vars, tabVars, clicks, losses, epoch>>
    BY <1>2 DEF Poll
  <2>3. TabsTyped' /\ UNCHANGED <<cached, shown, dialog>>
    BY <1>1, <2>2 DEF TabsTyped, tabVars
  <2> QED
    BY <2>1, <2>2, <2>3, SentOK
<1>3. ASSUME NEW card \in CardType, NEW v \in Verdicts, NEW reply \in Replies,
             Addressed(card, requests, epoch), SendDecision(t, k, card, v, reply),
             UNCHANGED <<vars, cached, shown, active, losses, epoch>>,
             dialog' \in {dialog, [dialog EXCEPT ![t] = NoDialog]}
      PROVE  ConsoleInv'
  <2> PICK call : call = [kind |-> "decide", state |-> "sent", card |-> card,
                          verdict |-> v, reply |-> reply]
    OBVIOUS
  <2>1. /\ call \in Call /\ call.kind = "decide" /\ call.state = "sent"
        /\ call.card = card
    BY DEF Call
  <2>2. Start(t, k, call) /\ clicks' \in 0 .. MaxClicks
    BY <1>1, <1>3, ConsoleAssumption DEF SendDecision, TabsTyped
  <2>3. TabsTyped' /\ \A u \in Tabs : dialog'[u] \in {dialog[u], NoDialog}
    BY <1>1, <1>3, <2>2 DEF TabsTyped
  <2> QED
    BY <1>3, <2>1, <2>2, <2>3, SentOK
<1>4. ASSUME NEW r \in DOMAIN shown[t].rows, ApproveDriverRequest(t, k, r)
      PROVE  ConsoleInv'
  <2>1. Card(t, r) \in CardType /\ Addressed(Card(t, r), requests, epoch)
    BY CardIs
  <2> QED
    BY <1>3, <1>4, <2>1, ConsoleAssumption DEF ApproveDriverRequest, tabVars, Verdicts
<1>5. ASSUME NEW reason \in Reasons, ConfirmReject(t, k, reason)
      PROVE  ConsoleInv'
  <2>1. dialog[t] \in CardType /\ Addressed(dialog[t], requests, epoch)
    BY <1>1, <1>5 DEF ConfirmReject, TabsTyped, ConsoleInv, CardsOK
  <2> QED
    BY <1>3, <1>5, <2>1, ConsoleAssumption DEF ConfirmReject, Verdicts
<1> QED
  BY <1>2, <1>4, <1>5

\* A reset is sent: it is counted before it is served.
LEMMA SendResetOK ==
    ASSUME ConsoleInv, NEW t \in Tabs, NEW k \in Calls, SendReset(t, k)
    PROVE  ConsoleInv'
<1> PICK call : call = [kind |-> "reset", state |-> "sent"]
  OBVIOUS
<1>1. call \in Call /\ call.kind = "reset" /\ call.state = "sent"
  BY DEF Call
<1>2. /\ UNCHANGED <<vars, requests, notifications, cached, shown, active, dialog, losses, epoch>>
      /\ flight[t][k] = Free /\ flight' = [flight EXCEPT ![t][k] = call]
      /\ epoch + Cardinality(Resets) < MaxResets /\ clicks < MaxClicks /\ clicks' = clicks + 1
  BY DEF SendReset, Start, tabVars, vars, Resets
<1>3. IInv'
  BY <1>2, NextIInv DEF ConsoleInv
<1>4. TabsTyped'
  BY <1>2, ConsoleAssumption DEF ConsoleInv, TabsTyped
<1>5. /\ FlightTyped' /\ flight'[t][k] = call
      /\ \A u \in Tabs, j \in Calls : u # t \/ j # k => flight'[u][j] = flight[u][j]
  <2>1. FlightTyped /\ call \in Call /\ Replaced(t, k, call)
    BY <1>1, <1>2 DEF ConsoleInv, Replaced
  <2> QED
    BY <2>1, FlightStep
<1>6. ResetsCounted'
  <2>1. Resets' = Resets \cup {<<t, k>>}
    BY <1>1, <1>5 DEF Resets, Awaits
  <2>2. <<t, k>> \notin Resets
    BY <1>2 DEF Resets, Awaits, Free
  <2>3. IsFiniteSet(Resets)
    <3>1. IsFiniteSet(Tabs \X Calls) /\ Resets \in SUBSET (Tabs \X Calls)
      BY ConsoleAssumption, FS_Product DEF Resets
    <3> QED
      BY ONLY <3>1, FS_Subset
  <2>4. Cardinality(Resets) \in Nat /\ Cardinality(Resets') = Cardinality(Resets) + 1
    BY ONLY <2>1, <2>2, <2>3, FS_CardinalityType, FS_AddElement
  <2> QED
    BY <1>2, <2>4, ConsoleAssumption DEF ConsoleInv, ResetsCounted
<1>7. \A u \in Tabs, j \in Calls :
          /\ Answered(u, j, {"poll", "refresh"})' =>
                 Answered(u, j, {"poll", "refresh"}) /\ flight'[u][j] = flight[u][j]
          /\ Awaits(u, j, {"decide"})' =>
                 Awaits(u, j, {"decide"}) /\ flight'[u][j] = flight[u][j]
  BY <1>1, <1>5 DEF Answered, Awaits
<1>8. Keeps(requests, requests')
  BY <1>2 DEF Keeps
<1>9. ListsOK' /\ CardsOK'
  BY <1>2, <1>7, <1>8, TablesStep DEF ConsoleInv
<1> QED
  BY <1>3, <1>4, <1>5, <1>6, <1>9 DEF ConsoleInv

\* A call ends, or goes on with another kind or state, over tables that keep
\* what they say; its answer may be a list of now, or be drawn.
LEMMA EndedOK ==
    ASSUME ConsoleInv, NEW t \in Tabs, NEW k \in Calls, NEW call \in Call, Replaced(t, k, call),
           IInv', Keeps(requests, requests'), epoch' = epoch, UNCHANGED dialog, TabsTyped',
           call.kind = "free" \/ call.state = "answered" \/ call.kind = "refresh",
           Answered(t, k, {"poll", "refresh"})' => Faithful(call.list, requests', epoch),
           \A u \in Tabs :
               /\ Faithful(cached'[u], requests, epoch) /\ Faithful(shown'[u], requests, epoch)
    PROVE  ConsoleInv'
<1>1. /\ FlightTyped' /\ flight'[t][k] = call
      /\ \A u \in Tabs, j \in Calls : u # t \/ j # k => flight'[u][j] = flight[u][j]
  BY FlightStep DEF ConsoleInv
<1>2. ~Awaits(t, k, {"decide", "reset"})'
  BY <1>1 DEF Awaits
<1>3. ResetsCounted'
  BY <1>1, <1>2, ResetsStep DEF ConsoleInv, Awaits
<1>4. ListsOK'
  <2>1. ASSUME NEW u \in Tabs, NEW j \in Calls, Answered(u, j, {"poll", "refresh"})'
        PROVE  Faithful(flight'[u][j].list, requests', epoch)
    <3>1. CASE u = t /\ j = k
      BY <1>1, <2>1, <3>1
    <3>2. CASE u # t \/ j # k
      <4>1. Answered(u, j, {"poll", "refresh"}) /\ flight'[u][j] = flight[u][j]
        BY <1>1, <2>1, <3>2 DEF Answered
      <4> QED
        BY <4>1, StillFaithful DEF ConsoleInv, ListsOK
    <3> QED
      BY <3>1, <3>2
  <2> QED
    BY <2>1, StillFaithful DEF ListsOK
<1>5. CardsOK'
  <2>1. ASSUME NEW u \in Tabs, NEW j \in Calls, Awaits(u, j, {"decide"})'
        PROVE  Awaits(u, j, {"decide"}) /\ flight'[u][j] = flight[u][j]
    <3>1. u # t \/ j # k
      BY <1>2, <2>1 DEF Awaits
    <3> QED
      BY <1>1, <2>1, <3>1 DEF Awaits
  <2> QED
    BY <2>1, StillAddressed DEF ConsoleInv, CardsOK
<1> QED
  BY <1>1, <1>3, <1>4, <1>5 DEF ConsoleInv

\* What a call carries, by its kind.
LEMMA CallIs ==
    ASSUME FlightTyped, NEW t \in Tabs, NEW k \in Calls
    PROVE  /\ Answered(t, k, {"poll", "refresh"}) => flight[t][k].list \in View
           /\ Awaits(t, k, {"decide"}) =>
                  /\ flight[t][k].card.id \in RequestIds
                  /\ flight[t][k].verdict \in Verdicts /\ flight[t][k].reply \in Replies
<1>1. flight[t][k] \in Call
  BY DEF FlightTyped
<1> PICK call : call = flight[t][k]
  OBVIOUS
<1>2. call.kind \in {"poll", "refresh"} /\ call.state = "answered" => call.list \in View
  BY <1>1 DEF Call, Free
<1>3. call.kind = "decide" /\ call.state = "sent" =>
          /\ call.card \in CardType /\ call.verdict \in Verdicts /\ call.reply \in Replies
  BY <1>1 DEF Call, Free
<1> QED
  BY <1>2, <1>3 DEF Answered, Awaits, CardType

LEMMA Unchanged == Keeps(requests, requests) /\ (IInv /\ UNCHANGED vars => IInv')
BY NextIInv DEF Keeps

LEMMA ServeOK ==
    ASSUME ConsoleInv, NEW t \in Tabs, NEW k \in Calls, ServeList(t, k) \/ ServeDecision(t, k)
    PROVE  ConsoleInv'
<1>1. TabsTyped' /\ UNCHANGED <<cached, shown, dialog, epoch>>
  BY DEF ConsoleInv, TabsTyped, ServeList, ServeDecision, tabVars
<1>2. \A u \in Tabs :
          Faithful(cached'[u], requests, epoch) /\ Faithful(shown'[u], requests, epoch)
  BY <1>1 DEF ConsoleInv, ListsOK
<1>3. FlightTyped /\ IInv
  BY DEF ConsoleInv
<1>4. CASE ServeList(t, k)
  <2> PICK call : call = [kind |-> flight[t][k].kind, state |-> "answered", list |-> Snapshot]
    OBVIOUS
  <2>1. UNCHANGED vars /\ requests' = requests /\ Replaced(t, k, call)
    BY <1>3, <1>4 DEF ServeList, Replaced, vars, FlightTyped
  <2>2. call \in Call /\ call.state = "answered" /\ call.list = Snapshot
    BY <1>4, SnapshotIs DEF Call, ServeList, Awaits
  <2>3. Faithful(call.list, requests', epoch)
    BY <2>1, <2>2, SnapshotIs
  <2>4. IInv' /\ Keeps(requests, requests')
    BY <1>3, <2>1, Unchanged
  <2> QED
    BY <1>1, <1>2, <2>1, <2>2, <2>3, <2>4, EndedOK
<1>5. CASE ServeDecision(t, k)
  <2> PICK call : call = [kind |-> "decide", state |-> "answered"]
    OBVIOUS
  <2>1. call \in Call /\ call.state = "answered" /\ call.kind = "decide"
    BY DEF Call
  <2>2. Replaced(t, k, call) /\ Awaits(t, k, {"decide"})
    BY <1>5 DEF ServeDecision, Replaced
  <2>3. PICK r \in RequestIds, v \in Verdicts, reply \in Replies : Decide(r, v, reply)
    BY <1>3, <1>5, <2>2, CallIs DEF ServeDecision
  <2>4. IInv' /\ Keeps(requests, requests')
    BY <1>3, <2>3, DecideIInv, DecideKeeps
  <2>5. ~Answered(t, k, {"poll", "refresh"})'
    BY <1>3, <2>1, <2>2, FlightStep DEF Answered
  <2> QED
    BY <1>1, <1>2, <2>1, <2>2, <2>4, <2>5, EndedOK
<1> QED
  BY <1>4, <1>5

LEMMA ReceiveOK ==
    ASSUME ConsoleInv, NEW t \in Tabs, NEW k \in Calls,
           Receive(t, k) \/ CallLost(t, k)
    PROVE  ConsoleInv'
<1>1. UNCHANGED vars /\ requests' = requests /\ epoch' = epoch /\ UNCHANGED dialog
  BY DEF Receive, PollAnswered, RefreshAnswered, ActionAnswered, CallLost, tabVars, vars
<1>2. IInv' /\ Keeps(requests, requests') /\ FlightTyped /\ TabsTyped
  BY <1>1, Unchanged DEF ConsoleInv
<1>3. ASSUME NEW u \in Tabs
      PROVE  Faithful(cached[u], requests, epoch) /\ Faithful(shown[u], requests, epoch)
  BY DEF ConsoleInv, ListsOK
<1> PICK sent : sent = [kind |-> "refresh", state |-> "sent"]
  OBVIOUS
<1>4. Free \in Call /\ sent \in Call /\ Free.kind = "free" /\ sent.kind = "refresh"
      /\ sent.state = "sent"
  BY DEF Call, Free
<1>5. ASSUME NEW call \in {Free, sent}, Replaced(t, k, call)
      PROVE  ~Answered(t, k, {"poll", "refresh"})'
  BY <1>2, <1>4, <1>5, FlightStep DEF Answered
<1>6. CASE PollAnswered(t, k) \/ RefreshAnswered(t, k)
  <2>1. Answered(t, k, {"poll", "refresh"}) /\ Replaced(t, k, Free)
    BY <1>6 DEF PollAnswered, RefreshAnswered, Answered, End, Replaced
  <2>2. flight[t][k].list \in View /\ Faithful(flight[t][k].list, requests, epoch)
    BY <1>2, <2>1, CallIs DEF ConsoleInv, ListsOK
  <2> PICK list \in View : list = flight[t][k].list
    BY <2>2
  <2>3. /\ cached' = [cached EXCEPT ![t] = list]
        /\ shown' \in {shown, [shown EXCEPT ![t] = list]}
        /\ UNCHANGED <<active, dialog, clicks, losses>>
    BY <1>6 DEF PollAnswered, RefreshAnswered
  <2>4. TabsTyped' /\ \A u \in Tabs : /\ cached'[u] \in {cached[u], list}
                                      /\ shown'[u] \in {shown[u], list}
    BY <1>2, <2>3 DEF TabsTyped
  <2>5. \A u \in Tabs :
            Faithful(cached'[u], requests, epoch) /\ Faithful(shown'[u], requests, epoch)
    BY <1>3, <2>2, <2>4
  <2> QED
    BY <1>1, <1>2, <1>4, <1>5, <2>1, <2>4, <2>5, EndedOK
<1>7. CASE ActionAnswered(t, k) \/ CallLost(t, k)
  <2>1. PICK call \in {Free, sent} : Replaced(t, k, call)
    BY <1>7 DEF ActionAnswered, CallLost, End, Replaced
  <2>2. TabsTyped' /\ UNCHANGED <<cached, shown>>
    BY <1>2, <1>7, ConsoleAssumption DEF ActionAnswered, CallLost, TabsTyped, tabVars
  <2>3. call \in Call /\ (call.kind = "free" \/ call.state = "answered" \/ call.kind = "refresh")
    BY <1>4
  <2>4. ~Answered(t, k, {"poll", "refresh"})'
    BY <1>5, <2>1
  <2> QED
    BY <1>1, <1>2, <1>3, <2>1, <2>2, <2>3, <2>4, EndedOK
<1> QED
  BY <1>6, <1>7 DEF Receive

\* A reset: everything that was listed belongs to the epoch before.
LEMMA ServeResetOK ==
    ASSUME ConsoleInv, NEW t \in Tabs, NEW k \in Calls, ServeReset(t, k)
    PROVE  ConsoleInv'
<1> PICK call : call = [kind |-> "reset", state |-> "answered"]
  OBVIOUS
<1>1. call \in Call /\ call.kind = "reset" /\ call.state = "answered"
  BY DEF Call
<1>2. /\ IInv' /\ Replaced(t, k, call) /\ epoch' = epoch + 1 /\ epoch \in Nat
      /\ UNCHANGED <<cached, shown, dialog, active, clicks, losses>> /\ Awaits(t, k, {"reset"})
      /\ epoch \in 0 .. MaxResets
  BY ResetIInv, SnapshotIs DEF ServeReset, Replaced, tabVars, ConsoleInv, ResetsCounted
<1>3. /\ FlightTyped' /\ flight'[t][k] = call
      /\ \A u \in Tabs, j \in Calls : u # t \/ j # k => flight'[u][j] = flight[u][j]
  BY <1>1, <1>2, FlightStep DEF ConsoleInv
<1>4. TabsTyped'
  BY <1>2 DEF ConsoleInv, TabsTyped
<1>5. ResetsCounted'
  <2>1. Resets' = Resets \ {<<t, k>>}
    BY <1>1, <1>3 DEF Resets, Awaits
  <2>2. <<t, k>> \in Resets
    BY <1>2 DEF Resets
  <2>3. IsFiniteSet(Resets)
    <3>1. IsFiniteSet(Tabs \X Calls) /\ Resets \in SUBSET (Tabs \X Calls)
      BY ConsoleAssumption, FS_Product DEF Resets
    <3> QED
      BY ONLY <3>1, FS_Subset
  <2>4. Cardinality(Resets) \in Nat /\ Cardinality(Resets') = Cardinality(Resets) - 1
    BY ONLY <2>1, <2>2, <2>3, FS_CardinalityType, FS_RemoveElement
  <2> QED
    BY <1>2, <2>4, ConsoleAssumption DEF ConsoleInv, ResetsCounted
<1>6. ListsOK'
  <2>1. ASSUME NEW list \in View, Faithful(list, requests, epoch)
        PROVE  Faithful(list, requests', epoch')
    BY <1>2, <2>1, LeftBehind, ConsoleAssumption DEF View
  <2>2. \A u \in Tabs : cached[u] \in View /\ shown[u] \in View
    BY DEF ConsoleInv, TabsTyped
  <2>3. ASSUME NEW u \in Tabs, NEW j \in Calls, Answered(u, j, {"poll", "refresh"})'
        PROVE  Faithful(flight'[u][j].list, requests', epoch')
    <3>1. Answered(u, j, {"poll", "refresh"}) /\ flight'[u][j] = flight[u][j]
      BY <1>1, <1>3, <2>3 DEF Answered
    <3> QED
      BY <2>1, <3>1, CallIs DEF ConsoleInv, ListsOK
  <2> QED
    BY <1>2, <2>1, <2>2, <2>3 DEF ConsoleInv, ListsOK
<1>7. CardsOK'
  <2>1. ASSUME NEW card, Addressed(card, requests, epoch), card.epoch \in Nat
        PROVE  Addressed(card, requests', epoch')
    BY <1>2, <2>1, LeftBehind
  <2>2. \A u \in Tabs : dialog[u] # NoDialog => dialog[u].epoch \in Nat
    BY ConsoleAssumption DEF ConsoleInv, TabsTyped, CardType
  <2>3. ASSUME NEW u \in Tabs, NEW j \in Calls, Awaits(u, j, {"decide"})'
        PROVE  Addressed(flight'[u][j].card, requests', epoch')
    <3>1. Awaits(u, j, {"decide"}) /\ flight'[u][j] = flight[u][j]
      BY <1>1, <1>3, <2>3 DEF Awaits
    <3>2. flight[u][j].card.epoch \in Nat
      <4>1. flight[u][j] \in Call
        BY DEF ConsoleInv, FlightTyped
      <4>2. flight[u][j].card \in CardType
        BY <3>1, <4>1 DEF Call, Free, Awaits
      <4> QED
        BY <4>2, ConsoleAssumption DEF CardType
    <3> QED
      BY <2>1, <3>1, <3>2 DEF ConsoleInv, CardsOK
  <2> QED
    BY <1>2, <2>1, <2>2, <2>3 DEF ConsoleInv, CardsOK
<1> QED
  BY <1>2, <1>3, <1>4, <1>5, <1>6, <1>7 DEF ConsoleInv

LEMMA DriverSubmitsOK ==
    ASSUME ConsoleInv, NEW d \in Drivers, DriverSubmits(d)
    PROVE  ConsoleInv'
<1>1. /\ IInv' /\ Keeps(requests, requests')
      /\ UNCHANGED <<cached, shown, active, dialog, flight, clicks, losses, epoch>>
  BY SubmitIInv, SubmitKeeps DEF DriverSubmits, ConsoleInv, tabVars
<1>2. TabsTyped' /\ FlightTyped' /\ ResetsCounted'
  BY <1>1 DEF ConsoleInv, TabsTyped, FlightTyped, ResetsCounted, Resets, Awaits
<1>3. ListsOK' /\ CardsOK'
  BY <1>1, TablesStep DEF ConsoleInv, Answered, Awaits
<1> QED
  BY <1>1, <1>2, <1>3 DEF ConsoleInv

-----------------------------------------------------------------------------
LEMMA ConsoleInitInv == ConsoleInit => ConsoleInv
<1> SUFFICES ASSUME ConsoleInit
             PROVE  ConsoleInv
  OBVIOUS
<1>1. IInv /\ epoch = 0 /\ clicks = 0 /\ losses = 0
  BY InitIInv DEF ConsoleInit
<1>2. \A t \in Tabs : dialog[t] = NoDialog /\ \A k \in Calls : flight[t][k].kind = "free"
  BY DEF ConsoleInit, Free
<1>3. ResetsCounted
  <2>1. Resets = {}
    BY <1>2 DEF Resets, Awaits
  <2>2. Cardinality(Resets) = 0
    BY <2>1, FS_EmptySet
  <2> QED
    BY <1>1, <2>2, ConsoleAssumption DEF ResetsCounted
<1>4. Snapshot \in View /\ Faithful(Snapshot, requests, epoch)
  <2>1. /\ DOMAIN requests \in SUBSET RequestIds
        /\ \A r \in DOMAIN requests : requests[r] \in Request
    BY <1>1 DEF IInv, TypeOK
  <2> DEFINE rows == [r \in DOMAIN requests |->
                         [driver |-> requests[r].driver, status |-> requests[r].status]]
  <2>2. rows \in [DOMAIN requests -> [driver : Drivers, status : {"PENDING"} \cup Verdicts]]
    BY <2>1 DEF Request
  <2>3. epoch \in 0 .. MaxResets
    BY <1>1, ConsoleAssumption
  <2>4. Snapshot \in View
    BY <2>1, <2>2, <2>3 DEF Snapshot, View
  <2>5. Faithful(Snapshot, requests, epoch)
    BY <2>3 DEF Snapshot, Faithful
  <2> QED
    BY <2>4, <2>5
<1>5. FlightTyped
  BY DEF ConsoleInit, FlightTyped, Call
<1>6. TabsTyped
  BY <1>1, <1>4, ConsoleAssumption DEF ConsoleInit, TabsTyped
<1>7. ListsOK
  BY <1>2, <1>4 DEF ConsoleInit, ListsOK, Answered
<1>8. CardsOK
  BY <1>2 DEF CardsOK, Awaits
<1> QED
  BY <1>1, <1>3, <1>5, <1>6, <1>7, <1>8 DEF ConsoleInv

LEMMA ConsoleStepInv == ConsoleInv /\ [ConsoleNext]_consoleVars => ConsoleInv'
<1> SUFFICES ASSUME ConsoleInv, [ConsoleNext]_consoleVars
             PROVE  ConsoleInv'
  OBVIOUS
<1>1. ASSUME NEW t \in Tabs, UserStep(t)
      PROVE  ConsoleInv'
  BY <1>1, UserPageOK, UserCallOK, SendResetOK DEF UserStep
<1>2. ASSUME NEW t \in Tabs, NEW k \in Calls,
             Poll(t, k) \/ Serve(t, k) \/ Receive(t, k) \/ CallLost(t, k)
      PROVE  ConsoleInv'
  BY <1>2, UserCallOK, ServeOK, ServeResetOK, ReceiveOK DEF Serve
<1>3. CASE UNCHANGED consoleVars
  <2>1. UNCHANGED <<vars, flight, clicks, losses, epoch, cached, shown, active, dialog>>
    BY <1>3 DEF consoleVars, vars
  <2>2. TabsTyped'
    BY <2>1 DEF ConsoleInv, TabsTyped
  <2> QED
    BY <2>1, <2>2, PageStep DEF ConsoleInv, CardsOK
<1> QED
  BY <1>1, <1>2, <1>3, DriverSubmitsOK DEF ConsoleNext

\* What every list and card still says, for any number of tabs and calls.
THEOREM ConsoleInvariant == ConsoleSpec => []ConsoleInv
BY ConsoleInitInv, ConsoleStepInv, PTL DEF ConsoleSpec

\* Tables, views, dialogs and calls are well typed, and resets stay in bounds.
THEOREM ConsoleTypeCorrect == ConsoleSpec => []ConsoleTypeOK
<1>1. ConsoleInv => ConsoleTypeOK
  BY SnapshotIs DEF ConsoleInv, TabsTyped, FlightTyped, ConsoleTypeOK, IInv
<1> QED
  BY <1>1, ConsoleInvariant, PTL

\* A card without buttons is about a decided request, in whatever order answers
\* arrive, and however many tabs and calls there are.
THEOREM ScreenIsTrue == ConsoleSpec => []DecidedOnScreenIsDecided
<1>1. ConsoleInv => DecidedOnScreenIsDecided
  BY DEF ConsoleInv, ListsOK, Faithful, DecidedOnScreenIsDecided
<1> QED
  BY <1>1, ConsoleInvariant, PTL

\* A decision under way is about the request that was on its card.
THEOREM CardsAreHit == ConsoleSpec => []DecisionsHitTheirCard
<1>1. ConsoleInv => DecisionsHitTheirCard
  BY DEF ConsoleInv, CardsOK, Addressed, DecisionsHitTheirCard
<1> QED
  BY <1>1, ConsoleInvariant, PTL
=============================================================================
