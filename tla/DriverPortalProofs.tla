-------------------------- MODULE DriverPortalProofs --------------------------
(***************************************************************************)
(* A driver page with any number of calls under way.  The argument is that *)
(* the disabled button lets at most one submission, or the load after it,  *)
(* be under way, and that a form is refilled only when it has been cleared *)
(* by the answer to its submission.                                        *)
(***************************************************************************)
EXTENDS DriverPortal, RequestServiceProofs

NoteLists == UNION {[keys -> BOOLEAN] : keys \in SUBSET NotificationIds}

RequestLists ==
    UNION {[keys -> {"PENDING"} \cup Verdicts] : keys \in SUBSET RequestIds}

Call ==
    {Free}
    \cup [kind : {"load"}, did : Drivers, by : {"select", "submit"}, notes : SUBSET NoteLists]
    \cup [kind : {"load2"}, did : Drivers, by : {"select", "submit"}, mine : SUBSET RequestLists]
    \cup [kind : {"poll"}, did : Drivers, notes : SUBSET NoteLists, mine : SUBSET RequestLists]
    \cup [kind : {"submit"}, did : Drivers, state : {"sent", "answered"}]
    \cup [kind : {"read"}, id : NotificationIds, state : {"sent", "answered"}]

\* A submission under way, or the load that follows it.
Submitting(call) ==
    call.kind = "submit" \/ (call.kind \in {"load", "load2"} /\ call.by = "submit")

Done(call) == call.kind = "submit" /\ call.state = "answered"

\* Kinds of calls that are made for the selected driver.
OfDriver(call) == call.kind \in {"load", "load2", "poll", "submit"}

PageTyped ==
    /\ selected \in Drivers \cup {None} /\ timer \in BOOLEAN
    /\ form \in {"empty", "filled"} /\ button \in {"ready", "busy"}
    /\ notes \in NoteLists /\ mine \in RequestLists
    /\ made \in Nat /\ lost \in Nat

CallsTyped == flight \in [Calls -> Call]

DriverChosen ==
    /\ timer => selected # None
    /\ \A k \in Calls : OfDriver(flight[k]) => selected # None

OneSubmission ==
    /\ \A k \in Calls : Submitting(flight[k]) => button = "busy"
    /\ \A j, k \in Calls : Submitting(flight[j]) /\ Submitting(flight[k]) => j = k
    /\ \A k \in Calls : flight[k].kind = "submit" => form = "filled"

\* The form has produced as many requests as submissions of it have failed,
\* and one more once the last submission is answered.
FormCounted ==
    /\ made <= lost + 1
    /\ form = "filled" /\ (\A k \in Calls : ~Done(flight[k])) => made <= lost

PortalInv ==
    IInv /\ PageTyped /\ CallsTyped /\ DriverChosen /\ OneSubmission /\ FormCounted

-----------------------------------------------------------------------------
(* Answers and calls *)

LEMMA AnswersTyped ==
    ASSUME IInv, NEW d
    PROVE  NotesOf(d) \in NoteLists /\ RequestsOf(d) \in RequestLists
<1>1. /\ DOMAIN notifications \in SUBSET NotificationIds
      /\ notifications \in [DOMAIN notifications -> Notification]
      /\ DOMAIN requests \in SUBSET RequestIds
      /\ requests \in [DOMAIN requests -> Request]
  BY DEF IInv, TypeOK
<1>2. NotesOf(d) \in NoteLists
  <2> DEFINE keys == {n \in DOMAIN notifications : notifications[n].driver = d}
  <2>1. keys \in SUBSET NotificationIds
    BY <1>1
  <2>2. NotesOf(d) \in [keys -> BOOLEAN]
    BY <1>1 DEF NotesOf, Notification
  <2> HIDE DEF keys
  <2> QED
    BY <2>1, <2>2 DEF NoteLists
<1>3. RequestsOf(d) \in RequestLists
  <2> DEFINE keys == {r \in DOMAIN requests : requests[r].driver = d}
  <2>1. keys \in SUBSET RequestIds
    BY <1>1
  <2>2. RequestsOf(d) \in [keys -> {"PENDING"} \cup Verdicts]
    BY <1>1 DEF RequestsOf, Request
  <2> HIDE DEF keys
  <2> QED
    BY <2>1, <2>2 DEF RequestLists
<1> QED
  BY <1>2, <1>3

LEMMA ValueIn ==
    ASSUME NEW S, NEW answer \in SUBSET S, answer # Waiting
    PROVE  Value(answer) \in S
BY DEF Value, Waiting

LEMMA KeysOf ==
    /\ \A list \in NoteLists : /\ DOMAIN list \subseteq NotificationIds
                               /\ \A n \in DOMAIN list : list[n] \in BOOLEAN
    /\ \A list \in RequestLists : DOMAIN list \subseteq RequestIds
BY DEF NoteLists, RequestLists

LEMMA EmptyLists == Empty \in NoteLists /\ Empty \in RequestLists
<1>1. Empty \in [{} -> BOOLEAN] /\ Empty \in [{} -> {"PENDING"} \cup Verdicts]
  BY DEF Empty
<1>2. {} \in SUBSET NotificationIds /\ {} \in SUBSET RequestIds
  OBVIOUS
<1> QED
  BY <1>1, <1>2 DEF NoteLists, RequestLists

LEMMA CallKinds ==
    ASSUME NEW call \in Call
    PROVE  /\ call.kind \in {"free", "load", "load2", "poll", "submit", "read"}
           /\ call.kind = "free" => call = Free
           /\ call.kind = "load" => call \in
                [kind : {"load"}, did : Drivers, by : {"select", "submit"}, notes : SUBSET NoteLists]
           /\ call.kind = "load2" => call \in
                [kind : {"load2"}, did : Drivers, by : {"select", "submit"}, mine : SUBSET RequestLists]
           /\ call.kind = "poll" => call \in
                [kind : {"poll"}, did : Drivers, notes : SUBSET NoteLists, mine : SUBSET RequestLists]
           /\ call.kind = "submit" => call \in
                [kind : {"submit"}, did : Drivers, state : {"sent", "answered"}]
           /\ call.kind = "read" => call \in
                [kind : {"read"}, id : NotificationIds, state : {"sent", "answered"}]
BY DEF Call, Free

\* Only call k changes, to `call`.
Becomes(k, call) == flight' = [flight EXCEPT ![k] = call]

LEMMA CallsStep ==
    ASSUME CallsTyped, NEW k \in Calls, NEW call \in Call, Becomes(k, call)
    PROVE  /\ CallsTyped'
           /\ flight'[k] = call
           /\ \A j \in Calls : j # k => flight'[j] = flight[j]
BY DEF CallsTyped, Becomes

LEMMA Unread == IInv /\ UNCHANGED vars => IInv'
BY NextIInv

\* A step that neither starts nor ends a submission.
LEMMA QuietStep ==
    ASSUME PortalInv, IInv', PageTyped', NEW k \in Calls, NEW call \in Call, Becomes(k, call),
           Submitting(call) => Submitting(flight[k]),
           call.kind = "submit" => flight[k].kind = "submit",
           Done(flight[k]) => Done(call),
           OfDriver(call) => selected' # None,
           timer' => selected' # None,
           selected # None => selected' # None,
           UNCHANGED <<button, form, made, lost>>
    PROVE  PortalInv'
<1>1. /\ CallsTyped' /\ flight'[k] = call
      /\ \A j \in Calls : j # k => flight'[j] = flight[j]
  BY CallsStep DEF PortalInv
<1>2. DriverChosen'
  BY <1>1 DEF PortalInv, DriverChosen
<1>3. OneSubmission'
  BY <1>1 DEF PortalInv, OneSubmission
<1>4. FormCounted'
  <2>1. (\A j \in Calls : ~Done(flight'[j])) => \A j \in Calls : ~Done(flight[j])
    BY <1>1
  <2> QED
    BY <2>1 DEF PortalInv, FormCounted
<1> QED
  BY <1>1, <1>2, <1>3, <1>4 DEF PortalInv

-----------------------------------------------------------------------------
(* The driver *)

LEMMA SelectOK ==
    ASSUME PortalInv, NEW d \in Drivers, NEW k \in Calls, SelectDriver(d, k)
    PROVE  PortalInv'
<1>1. LoadCall(d, "select") \in Call /\ Becomes(k, LoadCall(d, "select"))
  BY DEF LoadCall, Waiting, Call, SelectDriver, Becomes
<1>2. ~Submitting(LoadCall(d, "select")) /\ LoadCall(d, "select").kind = "load"
  BY DEF LoadCall, Submitting
<1>3. ~Done(flight[k])
  BY DEF SelectDriver, Free, Done
<1>4. IInv' /\ PageTyped' /\ selected' = d /\ d # None
  BY Unread, PortalAssumption DEF PortalInv, PageTyped, SelectDriver, pageVars, formVars
<1> QED
  BY <1>1, <1>2, <1>3, <1>4, QuietStep DEF SelectDriver, formVars

LEMMA FillOK ==
    ASSUME PortalInv, FillForm
    PROVE  PortalInv'
<1>1. IInv' /\ PageTyped'
  BY Unread DEF PortalInv, PageTyped, FillForm, pageVars
<1>2. CallsTyped' /\ DriverChosen' /\ OneSubmission'
  BY DEF PortalInv, CallsTyped, DriverChosen, OneSubmission, FillForm, pageVars
<1>3. FormCounted'
  BY DEF FormCounted, FillForm
<1> QED
  BY <1>1, <1>2, <1>3 DEF PortalInv

LEMMA SubmitOK ==
    ASSUME PortalInv, NEW k \in Calls, SubmitRequest(k)
    PROVE  PortalInv'
<1> DEFINE call == [kind |-> "submit", did |-> selected, state |-> "sent"]
<1>1. selected \in Drivers /\ call \in Call /\ Becomes(k, call)
  BY DEF PortalInv, PageTyped, Call, SubmitRequest, Becomes
<1>2. /\ CallsTyped' /\ flight'[k] = call
      /\ \A j \in Calls : j # k => flight'[j] = flight[j]
  BY <1>1, CallsStep DEF PortalInv
<1>3. \A j \in Calls : ~Submitting(flight[j])
  BY DEF PortalInv, OneSubmission, SubmitRequest
<1>4. IInv' /\ PageTyped'
  BY Unread DEF PortalInv, PageTyped, SubmitRequest, pageVars
<1>5. DriverChosen'
  BY <1>2 DEF PortalInv, DriverChosen, SubmitRequest, pageVars
<1>6. OneSubmission'
  BY <1>2, <1>3 DEF OneSubmission, SubmitRequest, PortalInv, Submitting
<1>7. FormCounted'
  <2>1. \A j \in Calls : ~Done(flight[j])
    BY <1>3 DEF Submitting, Done
  <2> QED
    BY <2>1 DEF PortalInv, FormCounted, SubmitRequest
<1> QED
  BY <1>2, <1>4, <1>5, <1>6, <1>7 DEF PortalInv

LEMMA ClickOK ==
    ASSUME PortalInv, NEW k \in Calls, NEW n \in DOMAIN notes, MarkNotifRead(n, k)
    PROVE  PortalInv'
<1> DEFINE call == [kind |-> "read", id |-> n, state |-> "sent"]
<1>1. n \in NotificationIds
  BY KeysOf DEF PortalInv, PageTyped
<1>2. call \in Call /\ Becomes(k, call)
  BY <1>1 DEF Call, MarkNotifRead, Becomes
<1>3. ~Submitting(call) /\ ~OfDriver(call) /\ call.kind # "submit" /\ ~Done(flight[k])
  BY DEF Submitting, OfDriver, MarkNotifRead, Done, Free
<1>4. IInv' /\ PageTyped' /\ (timer' => selected' # None)
  BY Unread DEF PortalInv, PageTyped, MarkNotifRead, pageVars, formVars, DriverChosen
<1> QED
  BY <1>2, <1>3, <1>4, QuietStep DEF MarkNotifRead, pageVars, formVars

LEMMA PollOK ==
    ASSUME PortalInv, NEW k \in Calls, PollUpdates(k)
    PROVE  PortalInv'
<1> DEFINE call == [kind |-> "poll", did |-> selected, notes |-> Waiting, mine |-> Waiting]
<1>1. selected \in Drivers /\ selected # None
  BY DEF PortalInv, PageTyped, DriverChosen, PollUpdates
<1>2. call \in Call /\ Becomes(k, call)
  BY <1>1 DEF Call, PollUpdates, Becomes, Waiting
<1>3. ~Submitting(call) /\ call.kind # "submit" /\ ~Done(flight[k])
  BY DEF Submitting, PollUpdates, Done, Free
<1>4. IInv' /\ PageTyped'
  BY Unread DEF PortalInv, PageTyped, PollUpdates, pageVars, formVars
<1> QED
  BY <1>1, <1>2, <1>3, <1>4, QuietStep DEF PollUpdates, pageVars, formVars

-----------------------------------------------------------------------------
(* The server *)

LEMMA ServeListOK ==
    ASSUME PortalInv, NEW k \in Calls, ServeNotes(k) \/ ServeRequests(k)
    PROVE  PortalInv'
<1>1. flight[k] \in Call /\ CallsTyped
  BY DEF PortalInv, CallsTyped
<1>2. NotesOf(flight[k].did) \in NoteLists /\ RequestsOf(flight[k].did) \in RequestLists
  BY AnswersTyped DEF PortalInv
<1>3. PICK call \in Call :
          /\ Becomes(k, call) /\ call.kind = flight[k].kind
          /\ Submitting(call) <=> Submitting(flight[k])
          /\ call.kind # "submit"
  <2>1. CASE ServeNotes(k)
    <3> DEFINE call == [flight[k] EXCEPT !.notes = {NotesOf(flight[k].did)}]
    <3>1. Becomes(k, call)
      BY <2>1 DEF ServeNotes, Becomes
    <3>2. CASE flight[k].kind = "load"
      <4>1. flight[k] \in [kind : {"load"}, did : Drivers, by : {"select", "submit"},
                           notes : SUBSET NoteLists]
        BY <1>1, <3>2, CallKinds
      <4>2. /\ call \in [kind : {"load"}, did : Drivers, by : {"select", "submit"},
                         notes : SUBSET NoteLists]
            /\ call.by = flight[k].by
        BY <1>2, <4>1
      <4> QED
        BY <3>1, <3>2, <4>2 DEF Call, Submitting
    <3>3. CASE flight[k].kind = "poll"
      <4>1. flight[k] \in [kind : {"poll"}, did : Drivers, notes : SUBSET NoteLists,
                           mine : SUBSET RequestLists]
        BY <1>1, <3>3, CallKinds
      <4>2. call \in [kind : {"poll"}, did : Drivers, notes : SUBSET NoteLists,
                      mine : SUBSET RequestLists]
        BY <1>2, <4>1
      <4> QED
        BY <3>1, <3>3, <4>2 DEF Call, Submitting
    <3> QED
      BY <2>1, <3>2, <3>3 DEF ServeNotes
  <2>2. CASE ServeRequests(k)
    <3> DEFINE call == [flight[k] EXCEPT !.mine = {RequestsOf(flight[k].did)}]
    <3>1. Becomes(k, call)
      BY <2>2 DEF ServeRequests, Becomes
    <3>2. CASE flight[k].kind = "load2"
      <4>1. flight[k] \in [kind : {"load2"}, did : Drivers, by : {"select", "submit"},
                           mine : SUBSET RequestLists]
        BY <1>1, <3>2, CallKinds
      <4>2. /\ call \in [kind : {"load2"}, did : Drivers, by : {"select", "submit"},
                         mine : SUBSET RequestLists]
            /\ call.by = flight[k].by
        BY <1>2, <4>1
      <4> QED
        BY <3>1, <3>2, <4>2 DEF Call, Submitting
    <3>3. CASE flight[k].kind = "poll"
      <4>1. flight[k] \in [kind : {"poll"}, did : Drivers, notes : SUBSET NoteLists,
                           mine : SUBSET RequestLists]
        BY <1>1, <3>3, CallKinds
      <4>2. call \in [kind : {"poll"}, did : Drivers, notes : SUBSET NoteLists,
                      mine : SUBSET RequestLists]
        BY <1>2, <4>1
      <4> QED
        BY <3>1, <3>3, <4>2 DEF Call, Submitting
    <3> QED
      BY <2>2, <3>2, <3>3 DEF ServeRequests
  <2> QED
    BY <2>1, <2>2
<1>4. IInv' /\ PageTyped' /\ UNCHANGED <<selected, timer, button, form, made, lost>>
  BY Unread DEF PortalInv, PageTyped, ServeNotes, ServeRequests, pageVars, formVars
<1>5. /\ OfDriver(call) => selected' # None
      /\ timer' => selected' # None
      /\ ~Done(flight[k])
  BY <1>3, <1>4 DEF PortalInv, DriverChosen, OfDriver, Done
<1> QED
  BY <1>3, <1>4, <1>5, QuietStep

LEMMA ServeReadOK ==
    ASSUME PortalInv, NEW k \in Calls, ServeRead(k)
    PROVE  PortalInv'
<1> DEFINE call == [flight[k] EXCEPT !.state = "answered"]
<1>1. flight[k] \in [kind : {"read"}, id : NotificationIds, state : {"sent", "answered"}]
  BY CallKinds DEF PortalInv, CallsTyped, ServeRead
<1>2. call \in [kind : {"read"}, id : NotificationIds, state : {"sent", "answered"}]
  BY <1>1
<1>3. call \in Call /\ Becomes(k, call)
  BY <1>2 DEF Call, ServeRead, Becomes
<1>4. ~Submitting(call) /\ ~OfDriver(call) /\ call.kind # "submit" /\ ~Done(flight[k])
  BY <1>1, <1>2 DEF Submitting, OfDriver, Done
<1>5. IInv'
  BY Unread, MarkReadIInv DEF PortalInv, ServeRead
<1>6. PageTyped' /\ (timer' => selected' # None)
  BY DEF PortalInv, PageTyped, ServeRead, pageVars, formVars, DriverChosen
<1> QED
  BY <1>3, <1>4, <1>5, <1>6, QuietStep DEF ServeRead, pageVars, formVars

LEMMA ServeSubmitOK ==
    ASSUME PortalInv, NEW k \in Calls, ServeSubmit(k)
    PROVE  PortalInv'
<1> DEFINE call == [flight[k] EXCEPT !.state = "answered"]
<1>1. flight[k] \in [kind : {"submit"}, did : Drivers, state : {"sent", "answered"}]
  BY CallKinds DEF PortalInv, CallsTyped, ServeSubmit
<1>2. call \in [kind : {"submit"}, did : Drivers, state : {"sent", "answered"}]
  BY <1>1
<1>3. call \in Call /\ Becomes(k, call)
  BY <1>2 DEF Call, ServeSubmit, Becomes
<1>4. /\ CallsTyped' /\ flight'[k] = call
      /\ \A j \in Calls : j # k => flight'[j] = flight[j]
  BY <1>3, CallsStep DEF PortalInv
<1>5. Submitting(flight[k]) /\ Submitting(call) /\ Done(call)
  BY <1>1, <1>2 DEF Submitting, Done
<1>6. \A j \in Calls : ~Done(flight[j])
  BY <1>5 DEF PortalInv, OneSubmission, Submitting, Done, ServeSubmit
<1>7. IInv'
  BY <1>1, SubmitIInv DEF PortalInv, ServeSubmit
<1>8. PageTyped' /\ DriverChosen'
  BY <1>4, <1>1, <1>2 DEF PortalInv, PageTyped, DriverChosen, ServeSubmit, pageVars, OfDriver
<1>9. OneSubmission'
  BY <1>1, <1>4, <1>5 DEF PortalInv, OneSubmission, ServeSubmit
<1>10. FormCounted'
  <2>1. form = "filled" /\ made <= lost /\ made \in Nat /\ lost \in Nat
    BY <1>1, <1>6 DEF PortalInv, PageTyped, OneSubmission, FormCounted, ServeSubmit
  <2> QED
    BY <1>4, <1>5, <2>1 DEF FormCounted, ServeSubmit
<1> QED
  BY <1>4, <1>7, <1>8, <1>9, <1>10 DEF PortalInv

LEMMA AdminActsOK ==
    ASSUME PortalInv, AdminActs
    PROVE  PortalInv'
<1>1. IInv'
  BY DecideIInv, ResetIInv DEF PortalInv, AdminActs, IInv, TypeOK
<1>2. /\ PageTyped' /\ CallsTyped' /\ DriverChosen' /\ OneSubmission' /\ FormCounted'
  BY DEF PortalInv, PageTyped, CallsTyped, DriverChosen, OneSubmission, FormCounted, AdminActs,
     pageVars, formVars
<1> QED
  BY <1>1, <1>2 DEF PortalInv

-----------------------------------------------------------------------------
(* Continuations *)

LEMMA LoadAnsweredOK ==
    ASSUME PortalInv, NEW k \in Calls, LoadAnswered(k)
    PROVE  PortalInv'
<1> DEFINE call == [kind |-> "load2", did |-> flight[k].did, by |-> flight[k].by,
                    mine |-> Waiting]
<1>1. flight[k] \in [kind : {"load"}, did : Drivers, by : {"select", "submit"},
                     notes : SUBSET NoteLists]
  BY CallKinds DEF PortalInv, CallsTyped, LoadAnswered
<1>2. call \in Call /\ Becomes(k, call)
  BY <1>1 DEF Call, LoadAnswered, Becomes, Waiting
<1>3. /\ Submitting(call) => Submitting(flight[k])
      /\ call.kind # "submit" /\ ~Done(flight[k]) /\ OfDriver(flight[k])
  BY <1>1 DEF Submitting, OfDriver, Done
<1>4. notes' \in NoteLists
  BY <1>1, ValueIn DEF LoadAnswered
<1>5. IInv' /\ PageTyped' /\ selected' # None
  BY <1>3, <1>4, Unread DEF PortalInv, PageTyped, LoadAnswered, formVars, DriverChosen
<1> QED
  BY <1>2, <1>3, <1>5, QuietStep DEF LoadAnswered, formVars

LEMMA PollAnsweredOK ==
    ASSUME PortalInv, NEW k \in Calls, PollAnswered(k)
    PROVE  PortalInv'
<1>1. flight[k] \in [kind : {"poll"}, did : Drivers, notes : SUBSET NoteLists,
                     mine : SUBSET RequestLists]
  BY CallKinds DEF PortalInv, CallsTyped, PollAnswered
<1>2. Free \in Call /\ Becomes(k, Free)
  BY DEF Call, PollAnswered, Becomes
<1>3. ~Submitting(Free) /\ Free.kind # "submit" /\ ~Done(flight[k]) /\ ~OfDriver(Free)
  BY <1>1 DEF Submitting, OfDriver, Done, Free
<1>4. notes' \in NoteLists /\ mine' \in RequestLists
  BY <1>1, ValueIn DEF PollAnswered
<1>5. IInv' /\ PageTyped' /\ (timer' => selected' # None)
  BY <1>4, Unread DEF PortalInv, PageTyped, PollAnswered, formVars, DriverChosen
<1> QED
  BY <1>2, <1>3, <1>5, QuietStep DEF PollAnswered, formVars

LEMMA ReadAnsweredOK ==
    ASSUME PortalInv, NEW k \in Calls, ReadAnswered(k)
    PROVE  PortalInv'
<1>1. flight[k].kind = "read" /\ Free \in Call /\ Becomes(k, Free)
  BY DEF Call, ReadAnswered, Becomes
<1>2. ~Submitting(Free) /\ Free.kind # "submit" /\ ~Done(flight[k]) /\ ~OfDriver(Free)
  BY <1>1 DEF Submitting, OfDriver, Done, Free
<1>3. notes' \in NoteLists
  <2>1. /\ DOMAIN notes \in SUBSET NotificationIds
        /\ \A n \in DOMAIN notes : notes[n] \in BOOLEAN
    BY KeysOf DEF PortalInv, PageTyped
  <2>2. notes' \in [DOMAIN notes -> BOOLEAN]
    BY <2>1 DEF ReadAnswered
  <2> QED
    BY <2>1, <2>2 DEF NoteLists
<1>4. IInv' /\ PageTyped' /\ (timer' => selected' # None)
  BY <1>3, Unread DEF PortalInv, PageTyped, ReadAnswered, formVars, DriverChosen
<1> QED
  BY <1>1, <1>2, <1>4, QuietStep DEF ReadAnswered, formVars

LEMMA SubmitAnsweredOK ==
    ASSUME PortalInv, NEW k \in Calls, SubmitAnswered(k)
    PROVE  PortalInv'
<1> DEFINE call == LoadCall(selected, "submit")
<1>1. flight[k].kind = "submit" /\ Submitting(flight[k]) /\ selected \in Drivers \ {None}
  BY DEF PortalInv, PageTyped, DriverChosen, OfDriver, SubmitAnswered, Submitting
<1>2. call \in Call /\ Becomes(k, call) /\ call.kind = "load" /\ Submitting(call)
  BY <1>1 DEF Call, SubmitAnswered, Becomes, Waiting, LoadCall, Submitting
<1>3. /\ CallsTyped' /\ flight'[k] = call
      /\ \A j \in Calls : j # k => flight'[j] = flight[j]
  BY <1>2, CallsStep DEF PortalInv
<1>4. IInv' /\ PageTyped'
  BY Unread DEF PortalInv, PageTyped, SubmitAnswered, pageVars
<1>5. DriverChosen'
  BY <1>1, <1>3 DEF PortalInv, DriverChosen, SubmitAnswered, pageVars
<1>6. OneSubmission'
  BY <1>1, <1>2, <1>3 DEF PortalInv, OneSubmission, SubmitAnswered, Submitting
<1>7. FormCounted'
  BY DEF PortalInv, FormCounted, SubmitAnswered
<1> QED
  BY <1>3, <1>4, <1>5, <1>6, <1>7 DEF PortalInv

\* A call that ends; if it was a submission or its load, the button is back.
LEMMA EndedOK ==
    ASSUME PortalInv, IInv', PageTyped', NEW k \in Calls, Becomes(k, Free),
           timer' => selected' # None, selected' = selected, form' = form, made' = made,
           button' = button \/ Submitting(flight[k]),
           lost' = lost \/ lost' = lost + 1,
           Done(flight[k]) => lost' = lost + 1
    PROVE  PortalInv'
<1>1. /\ CallsTyped' /\ flight'[k] = Free
      /\ \A j \in Calls : j # k => flight'[j] = flight[j]
  BY CallsStep DEF PortalInv, Call
<1>2. ~Submitting(Free) /\ ~OfDriver(Free) /\ Free.kind # "submit"
  BY DEF Submitting, OfDriver, Free
<1>3. DriverChosen'
  BY <1>1, <1>2 DEF PortalInv, DriverChosen
<1>4. OneSubmission'
  BY <1>1, <1>2 DEF PortalInv, OneSubmission
<1>5. FormCounted'
  <2>1. made \in Nat /\ lost \in Nat /\ made <= lost + 1
    BY DEF PortalInv, PageTyped, FormCounted
  <2>2. CASE Done(flight[k])
    BY <2>1, <2>2 DEF FormCounted
  <2>3. CASE ~Done(flight[k])
    <3>1. (\A j \in Calls : ~Done(flight'[j])) => \A j \in Calls : ~Done(flight[j])
      BY <1>1, <2>3
    <3>2. lost' >= lost /\ lost' \in Nat
      BY <2>1
    <3> QED
      BY <2>1, <3>1, <3>2 DEF PortalInv, FormCounted
  <2> QED
    BY <2>2, <2>3
<1> QED
  BY <1>1, <1>3, <1>4, <1>5 DEF PortalInv

LEMMA FinishIs ==
    ASSUME PortalInv, NEW k \in Calls, flight[k].kind \in {"load", "load2"}, Finish(k)
    PROVE  /\ Becomes(k, Free) /\ ~Done(flight[k])
           /\ timer' \in BOOLEAN /\ button' \in {"ready", "busy"}
           /\ timer' => selected # None
           /\ button' = button \/ Submitting(flight[k])
<1>1. flight[k].by \in {"select", "submit"}
  <2>1. flight[k] \in Call
    BY DEF PortalInv, CallsTyped
  <2> QED
    BY <2>1, CallKinds
<1> QED
  BY <1>1 DEF PortalInv, PageTyped, DriverChosen, OfDriver, Finish, Becomes, Done, Submitting

LEMMA Load2AnsweredOK ==
    ASSUME PortalInv, NEW k \in Calls, Load2Answered(k)
    PROVE  PortalInv'
<1>1. flight[k] \in [kind : {"load2"}, did : Drivers, by : {"select", "submit"},
                     mine : SUBSET RequestLists]
  BY CallKinds DEF PortalInv, CallsTyped, Load2Answered
<1>2. mine' \in RequestLists
  BY <1>1, ValueIn DEF Load2Answered
<1>3. /\ Becomes(k, Free) /\ ~Done(flight[k])
      /\ timer' \in BOOLEAN /\ button' \in {"ready", "busy"}
      /\ timer' => selected # None
      /\ button' = button \/ Submitting(flight[k])
  BY FinishIs DEF Load2Answered
<1>4. IInv' /\ PageTyped'
  BY <1>2, <1>3, Unread DEF PortalInv, PageTyped, Load2Answered
<1> QED
  BY <1>3, <1>4, EndedOK DEF Load2Answered

LEMMA CallLostOK ==
    ASSUME PortalInv, NEW k \in Calls, CallLost(k)
    PROVE  PortalInv'
<1>1. CASE flight[k].kind \in {"load", "load2"}
  <2>1. Finish(k) /\ UNCHANGED lost
    BY <1>1 DEF CallLost
  <2>2. /\ Becomes(k, Free) /\ ~Done(flight[k])
        /\ timer' \in BOOLEAN /\ button' \in {"ready", "busy"}
        /\ timer' => selected # None
        /\ button' = button \/ Submitting(flight[k])
    BY <1>1, <2>1, FinishIs
  <2>3. IInv' /\ PageTyped'
    BY <2>1, <2>2, Unread DEF PortalInv, PageTyped, CallLost
  <2> QED
    BY <2>1, <2>2, <2>3, EndedOK DEF CallLost
<1>2. CASE flight[k].kind = "submit"
  <2>1. /\ Becomes(k, Free) /\ Submitting(flight[k])
        /\ button' = "ready" /\ lost' = lost + 1 /\ timer' = timer
    BY <1>2 DEF CallLost, Becomes, Submitting
  <2>2. IInv' /\ PageTyped' /\ (timer' => selected' # None)
    BY <2>1, Unread DEF PortalInv, PageTyped, CallLost, DriverChosen
  <2> QED
    BY <2>1, <2>2, EndedOK DEF CallLost
<1>3. CASE flight[k].kind \notin {"load", "load2", "submit"}
  <2>1. Becomes(k, Free) /\ UNCHANGED <<timer, button, lost>> /\ ~Done(flight[k])
    BY <1>3 DEF CallLost, Becomes, Done
  <2>2. IInv' /\ PageTyped' /\ (timer' => selected' # None)
    BY <2>1, Unread DEF PortalInv, PageTyped, CallLost, DriverChosen
  <2> QED
    BY <2>1, <2>2, EndedOK DEF CallLost
<1> QED
  BY <1>1, <1>2, <1>3

-----------------------------------------------------------------------------
(* The page *)

LEMMA PortalInitInv == PortalInit => PortalInv
<1> SUFFICES ASSUME PortalInit PROVE PortalInv
  OBVIOUS
<1>1. IInv /\ PageTyped
  BY InitIInv, EmptyLists DEF PortalInit, PageTyped
<1>2. \A k \in Calls : flight[k] = Free
  BY DEF PortalInit
<1>3. CallsTyped
  BY DEF PortalInit, CallsTyped, Call
<1>4. DriverChosen /\ OneSubmission /\ FormCounted
  BY <1>2 DEF PortalInit, DriverChosen, OneSubmission, FormCounted, OfDriver, Submitting, Free
<1> QED
  BY <1>1, <1>3, <1>4 DEF PortalInv

LEMMA PortalStepInv == PortalInv /\ [PortalNext]_portalVars => PortalInv'
<1> SUFFICES ASSUME PortalInv, [PortalNext]_portalVars PROVE PortalInv'
  OBVIOUS
<1>1. CASE DriverStep
  BY <1>1, SelectOK, FillOK, SubmitOK, ClickOK DEF DriverStep
<1>2. CASE AdminActs
  BY <1>2, AdminActsOK
<1>3. CASE \E k \in Calls : PollUpdates(k) \/ Serve(k) \/ Continue(k) \/ CallLost(k)
  <2>1. PICK k \in Calls : PollUpdates(k) \/ Serve(k) \/ Continue(k) \/ CallLost(k)
    BY <1>3
  <2>2. CASE PollUpdates(k)
    BY <2>2, PollOK
  <2>3. CASE Serve(k)
    BY <2>3, ServeListOK, ServeSubmitOK, ServeReadOK DEF Serve
  <2>4. CASE Continue(k)
    BY <2>4, LoadAnsweredOK, Load2AnsweredOK, PollAnsweredOK, SubmitAnsweredOK, ReadAnsweredOK
       DEF Continue
  <2>5. CASE CallLost(k)
    BY <2>5, CallLostOK
  <2> QED
    BY <2>1, <2>2, <2>3, <2>4, <2>5
<1>4. CASE UNCHANGED portalVars
  <2>1. IInv'
    BY <1>4, Unread DEF PortalInv, portalVars, vars
  <2> QED
    BY <1>4, <2>1 DEF portalVars, PortalInv, PageTyped, CallsTyped, DriverChosen, OneSubmission,
       FormCounted
<1> QED
  BY <1>1, <1>2, <1>3, <1>4 DEF PortalNext

\* The inductive invariant of a driver page, for any drivers, seed, number of
\* calls under way, forms, selections, admin decisions and lost calls.
THEOREM PortalInvariant == PortalSpec => []PortalInv
BY PortalInitInv, PortalStepInv, PTL DEF PortalSpec

\* The page is well typed; the timer runs for a selected driver only, and no
\* call is ever made for nobody.
THEOREM PortalTypeCorrect == PortalSpec => []PortalTypeOK
<1>1. PortalInv => PortalTypeOK
  <2> SUFFICES ASSUME PortalInv PROVE PortalTypeOK
    OBVIOUS
  <2>1. TypeOK /\ DOMAIN notes \subseteq NotificationIds /\ DOMAIN mine \subseteq RequestIds
    BY KeysOf DEF PortalInv, IInv, PageTyped
  <2>2. \A k \in Calls : flight[k] \in Call
    BY DEF PortalInv, CallsTyped
  <2> QED
    BY <2>1, <2>2, CallKinds DEF PortalTypeOK, PortalInv, PageTyped, DriverChosen
<1> QED
  BY <1>1, PortalInvariant, PTL

\* A form becomes a second request only by a submission that failed in the
\* driver's eyes (submitRequest of driver.html and its disabled button),
\* however many calls are under way and whichever of them are lost.
THEOREM OneRequest == PortalSpec => []OneRequestPerForm
<1>1. PortalInv => OneRequestPerForm
  BY DEF PortalInv, FormCounted, OneRequestPerForm
<1> QED
  BY <1>1, PortalInvariant, PTL
=============================================================================
