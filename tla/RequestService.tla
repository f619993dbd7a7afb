--------------------------- MODULE RequestService ---------------------------
(***************************************************************************)
(* What the driver-request API promises: every handler is one atomic step  *)
(* over the tables driver_requests and notifications.                      *)
(*                                                                         *)
(* The two tables are partial functions from primary keys to rows; only    *)
(* the columns that decide a later step are kept.  A request identifier    *)
(* is a number: the seeded "REQ00k" is k, the generated                    *)
(* "REQ" + to_string(1000 + count + 1) is IdBase + count + 1.  A           *)
(* notification identifier is its prefix and its number.                   *)
(***************************************************************************)
EXTENDS Naturals, FiniteSets

CONSTANTS
    Drivers,            \* the ids a submitted form may carry
    Replies,            \* the texts an admin may answer with
    SeedRequests,       \* rows of seedDriverRequests
    SeedNotifications,  \* rows of seedNotifications
    MaxRequests         \* bound: requests are submitted while the table is smaller

IdBase == 1000

NoReply == "none"

Verdicts == {"APPROVED", "REJECTED"}

RequestIds == DOMAIN SeedRequests \cup (IdBase + 1 .. IdBase + MaxRequests)

NotificationIds == {"NOTIF", "NOTIF_REQ", "NOTIFAPP_REQ", "NOTIFREJ_REQ"} \X Nat

Request ==
    [driver : Drivers, status : {"PENDING"} \cup Verdicts, reply : Replies \cup {NoReply}]

\* `about` is related_request_id, 0 when the column is empty.
Notification ==
    [driver : Drivers,
     type   : {"REQUEST_PENDING", "REQUEST_APPROVED", "REQUEST_REJECTED", "OTHER"},
     about  : RequestIds \cup {0},
     text   : Replies \cup {NoReply},
     read   : BOOLEAN]

ASSUME SeedAssumption ==
    /\ MaxRequests \in Nat
    /\ NoReply \notin Replies
    /\ IsFiniteSet(DOMAIN SeedRequests)
    /\ DOMAIN SeedRequests \subseteq 1 .. IdBase
    /\ SeedRequests \in [DOMAIN SeedRequests -> Request]
    /\ DOMAIN SeedNotifications \subseteq {"NOTIF"} \X Nat
    /\ SeedNotifications \in [DOMAIN SeedNotifications -> Notification]
    /\ \A n \in DOMAIN SeedNotifications :
          LET note == SeedNotifications[n] IN
          /\ note.about # 0 => /\ note.about \in DOMAIN SeedRequests
                               /\ note.driver = SeedRequests[note.about].driver
          /\ note.type = "REQUEST_PENDING" => note.about # 0
          /\ note.type = "REQUEST_PENDING" /\ ~note.read =>
                SeedRequests[note.about].status = "PENDING"

VARIABLES
    requests,       \* table driver_requests
    notifications   \* table notifications

vars == <<requests, notifications>>

-----------------------------------------------------------------------------
(* Tables *)

\* The table with `row` stored under `key`: INSERT of a new key, INSERT OR
\* REPLACE of any.
Put(table, key, row) ==
    [k \in DOMAIN table \cup {key} |-> IF k = key THEN row ELSE table[k]]

\* Mutants of NextId: the rows counted after the INSERT; only pending rows
\* counted.
NextIdCountedLate == IdBase + Cardinality(DOMAIN requests) + 2

NextIdOfPending ==
    IdBase + Cardinality({r \in DOMAIN requests : requests[r].status = "PENDING"}) + 1

\* The identifier the submit handler builds from SELECT COUNT(*).
NextId == IdBase + Cardinality(DOMAIN requests) + 1

\* UPDATE driver_requests SET status, admin_response WHERE id = r.
WithVerdict(table, r, verdict, reply) ==
    [k \in DOMAIN table |->
        IF k = r THEN [table[k] EXCEPT !.status = verdict, !.reply = reply] ELSE table[k]]

\* Mutant of WithPendingRead: matches the generated notification id only.
WithGeneratedRead(table, r) ==
    [n \in DOMAIN table |->
        IF n = <<"NOTIF_REQ", r>> THEN [table[n] EXCEPT !.read = TRUE] ELSE table[n]]

\* UPDATE notifications SET read_status = 1 WHERE related_request_id = r AND
\* type = 'REQUEST_PENDING'.
WithPendingRead(table, r) ==
    [n \in DOMAIN table |->
        IF table[n].about = r /\ table[n].type = "REQUEST_PENDING"
        THEN [table[n] EXCEPT !.read = TRUE] ELSE table[n]]

PendingId(r) == <<"NOTIF_REQ", r>>

DecisionId(verdict, r) ==
    IF verdict = "APPROVED" THEN <<"NOTIFAPP_REQ", r>> ELSE <<"NOTIFREJ_REQ", r>>

PendingNotice(d, r) ==
    [driver |-> d, type |-> "REQUEST_PENDING", about |-> r, text |-> NoReply, read |-> FALSE]

DecisionNotice(d, r, verdict, reply) ==
    [driver |-> d,
     type   |-> IF verdict = "APPROVED" THEN "REQUEST_APPROVED" ELSE "REQUEST_REJECTED",
     about  |-> r,
     text   |-> reply,
     read   |-> FALSE]

\* The notifications after a decision on request r of driver d.
Announce(table, d, r, verdict, reply) ==
    Put(WithPendingRead(table, r), DecisionId(verdict, r), DecisionNotice(d, r, verdict, reply))

-----------------------------------------------------------------------------
(* Handlers *)

Init ==
    /\ requests = SeedRequests
    /\ notifications = SeedNotifications

Submit(d) ==
    /\ Cardinality(DOMAIN requests) < MaxRequests
    /\ requests' = Put(requests, NextId, [driver |-> d, status |-> "PENDING", reply |-> NoReply])
    /\ notifications' = Put(notifications, PendingId(NextId), PendingNotice(d, NextId))

\* Approve and reject differ in the verdict only; neither looks at the
\* status the request already has, and an unknown id changes nothing.
Decide(r, verdict, reply) ==
    /\ requests' = WithVerdict(requests, r, verdict, reply)
    /\ notifications' = IF r \in DOMAIN requests
                        THEN Announce(notifications, requests[r].driver, r, verdict, reply)
                        ELSE notifications

MarkRead(n) ==
    /\ n \in DOMAIN notifications
    /\ notifications' = [notifications EXCEPT ![n].read = TRUE]
    /\ UNCHANGED requests

Reset ==
    /\ requests' = SeedRequests
    /\ notifications' = SeedNotifications

Next ==
    \/ \E d \in Drivers : Submit(d)
    \/ \E r \in RequestIds, v \in Verdicts, t \in Replies : Decide(r, v, t)
    \/ \E n \in DOMAIN notifications : MarkRead(n)
    \/ Reset

Spec == Init /\ [][Next]_vars

-----------------------------------------------------------------------------
(* Properties *)

\* Both tables hold well-typed rows under well-typed keys.
TypeOK ==
    /\ DOMAIN requests \subseteq RequestIds
    /\ IsFiniteSet(DOMAIN requests)
    /\ requests \in [DOMAIN requests -> Request]
    /\ DOMAIN notifications \subseteq NotificationIds
    /\ notifications \in [DOMAIN notifications -> Notification]

\* The identifiers that handlePostDriverRequest is about to generate from
\* COUNT(*) are free in both tables: neither of its INSERTs can violate a
\* primary key, whatever was submitted, decided or reset before.
FreshIds ==
    /\ NextId \notin DOMAIN requests
    /\ PendingId(NextId) \notin DOMAIN notifications

\* No foreign key ties the tables, yet every notification about a request
\* points at an existing request of the same driver.
NotificationsBacked ==
    \A n \in DOMAIN notifications :
        LET note == notifications[n] IN
        note.about # 0 => /\ note.about \in DOMAIN requests
                          /\ note.driver = requests[note.about].driver

\* The row r still is what seedDriverRequests put there.
Untouched(r) == r \in DOMAIN SeedRequests /\ requests[r] = SeedRequests[r]

\* Some notification tells the driver the verdict and reply request r has.
Announced(r) ==
    LET id == DecisionId(requests[r].status, r) IN
    /\ id \in DOMAIN notifications
    /\ notifications[id].about = r
    /\ notifications[id].text = requests[r].reply

\* No notification is left unread that says request r waits for review.
PendingNoticesRead(r) ==
    \A n \in DOMAIN notifications :
        notifications[n].type = "REQUEST_PENDING" /\ notifications[n].about = r =>
            notifications[n].read

\* Once a handler has decided a request, its driver has a notification with
\* that verdict and that very reply, and no unread notification still tells
\* the driver that the request waits for review.
DecisionsAnnounced ==
    \A r \in DOMAIN requests :
        requests[r].status \in Verdicts =>
            /\ Untouched(r) \/ Announced(r)
            /\ PendingNoticesRead(r)

\* A notification that says APPROVED or REJECTED and was written by a
\* handler is about a request that has been decided, if not that way then,
\* since nothing forbids deciding twice, the other way.
NoPrematureNotice ==
    \A r \in DOMAIN requests, v \in Verdicts :
        DecisionId(v, r) \in DOMAIN notifications => requests[r].status \in Verdicts

-----------------------------------------------------------------------------
(* The inductive invariant behind the properties.                          *)

\* Generated ids never overtake the row count they were taken from.
IdsBelowNext == \A r \in DOMAIN requests \ DOMAIN SeedRequests : r \in IdBase + 1 .. NextId - 1

\* A notification whose key was built from a request id is about that request.
KeysNameRequests ==
    \A n \in DOMAIN notifications :
        n[1] # "NOTIF" => /\ n[2] \in DOMAIN requests
                          /\ notifications[n].about = n[2]

IInv ==
    /\ TypeOK
    /\ IdsBelowNext
    /\ KeysNameRequests
    /\ NotificationsBacked
    /\ DecisionsAnnounced
    /\ NoPrematureNotice
=============================================================================
