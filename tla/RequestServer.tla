---------------------------- MODULE RequestServer ----------------------------
(***************************************************************************)
(* The driver-request API as the process runs it: a handler is a sequence  *)
(* of SQL statements, each its own transaction, executed by one thread.    *)
(*                                                                         *)
(* A crash may fall between any two statements; the process that comes     *)
(* back finds what a file database kept, or nothing (":memory:"), and      *)
(* seeds every table before it listens.  In FaultySpec a statement may     *)
(* also fail: Database::exec throws, the rest of the handler is skipped    *)
(* and what was done stays done.                                           *)
(***************************************************************************)
EXTENDS RequestService

VARIABLES
    job,    \* what the single thread is executing
    torn    \* history: a reset failed after it emptied driver_requests only

serverVars == <<requests, notifications, job, torn>>

Idle == [op |-> "idle"]

Down == [op |-> "down"]

\* A handler between two statements; `at` is the statement it executes next.
SubmitJob == [op : {"submit"}, driver : Drivers, id : RequestIds \cup {0},
              at : {"insert_request", "insert_notification"}]

DecideJob == [op : {"decide"}, id : RequestIds, verdict : Verdicts, reply : Replies,
              at : {"update_status", "mark_read", "insert_decision"}]

\* resetToSeedState deletes all tables first and then calls seedData, which
\* clears and fills them one by one; the constructor calls seedData alone.
SeedJob == [op : {"reset", "boot"},
            at : {"delete_requests", "delete_notifications", "clear_requests",
                  "insert_requests", "clear_notifications", "insert_notifications"}]

Job == {Idle, Down} \cup SubmitJob \cup DecideJob \cup SeedJob

NoRows == [k \in {} |-> {}]

At(op, statement) == job.op = op /\ job.at = statement

GoTo(statement) == job' = [job EXCEPT !.at = statement]

Seeding == job.op \in {"reset", "boot"}

-----------------------------------------------------------------------------
(* Requests the accept loop takes *)

ServerInit ==
    /\ Init
    /\ job = Idle
    /\ torn = FALSE

AcceptSubmit(d) ==
    /\ job = Idle
    /\ Cardinality(DOMAIN requests) < MaxRequests
    /\ job' = [op |-> "submit", driver |-> d, id |-> 0, at |-> "insert_request"]
    /\ UNCHANGED <<requests, notifications, torn>>

AcceptDecide(r, verdict, reply) ==
    /\ job = Idle
    /\ job' = [op |-> "decide", id |-> r, verdict |-> verdict, reply |-> reply,
               at |-> "update_status"]
    /\ UNCHANGED <<requests, notifications, torn>>

AcceptReset ==
    /\ job = Idle
    /\ job' = [op |-> "reset", at |-> "delete_requests"]
    /\ UNCHANGED <<requests, notifications, torn>>

\* handleMarkNotificationRead is a single statement.
HandleMarkRead(n) ==
    /\ job = Idle
    /\ MarkRead(n)
    /\ UNCHANGED <<job, torn>>

-----------------------------------------------------------------------------
(* Statements *)

\* Mutant of InsertRequest: a driver's next form reopens the last request.
InsertRequestReopens ==
    /\ At("submit", "insert_request")
    /\ LET own == {r \in DOMAIN requests : requests[r].driver = job.driver}
           id == IF own = {} THEN NextId ELSE CHOOSE r \in own : TRUE
       IN /\ requests' = Put(requests, id,
                 [driver |-> job.driver, status |-> "PENDING", reply |-> NoReply])
          /\ job' = [job EXCEPT !.id = id, !.at = "insert_notification"]
    /\ UNCHANGED <<notifications, torn>>

\* SELECT COUNT(*) and the INSERT it names.  On a duplicate key the INSERT
\* throws and the handler answers "Invalid request body".
InsertRequest ==
    /\ At("submit", "insert_request")
    /\ IF NextId \in DOMAIN requests
       THEN job' = Idle /\ UNCHANGED requests
       ELSE /\ requests' = Put(requests, NextId,
                  [driver |-> job.driver, status |-> "PENDING", reply |-> NoReply])
            /\ job' = [job EXCEPT !.id = NextId, !.at = "insert_notification"]
    /\ UNCHANGED <<notifications, torn>>

InsertNotification ==
    /\ At("submit", "insert_notification")
    /\ notifications' = IF PendingId(job.id) \in DOMAIN notifications
                        THEN notifications
                        ELSE Put(notifications, PendingId(job.id),
                                 PendingNotice(job.driver, job.id))
    /\ job' = Idle
    /\ UNCHANGED <<requests, torn>>

\* Mutant of UpdateStatus: the pending notices are not marked read.
UpdateStatusOnly ==
    /\ At("decide", "update_status")
    /\ requests' = WithVerdict(requests, job.id, job.verdict, job.reply)
    /\ IF job.id \in DOMAIN requests THEN GoTo("insert_decision") ELSE job' = Idle
    /\ UNCHANGED <<notifications, torn>>

\* UPDATE driver_requests and the SELECT after it; without a row there is no
\* driver to notify and the handler is done.
UpdateStatus ==
    /\ At("decide", "update_status")
    /\ requests' = WithVerdict(requests, job.id, job.verdict, job.reply)
    /\ IF job.id \in DOMAIN requests THEN GoTo("mark_read") ELSE job' = Idle
    /\ UNCHANGED <<notifications, torn>>

MarkPendingRead ==
    /\ At("decide", "mark_read")
    /\ notifications' = WithPendingRead(notifications, job.id)
    /\ GoTo("insert_decision")
    /\ UNCHANGED <<requests, torn>>

InsertDecision ==
    /\ At("decide", "insert_decision")
    /\ notifications' = Put(notifications, DecisionId(job.verdict, job.id),
                            DecisionNotice(requests[job.id].driver, job.id,
                                           job.verdict, job.reply))
    /\ job' = Idle
    /\ UNCHANGED <<requests, torn>>

\* Mutant of DeleteRequests: the list of DELETEs forgets notifications.
DeleteRequestsOnly ==
    /\ At("reset", "delete_requests")
    /\ requests' = NoRows
    /\ GoTo("clear_requests")
    /\ UNCHANGED <<notifications, torn>>

DeleteRequests ==
    /\ At("reset", "delete_requests")
    /\ requests' = NoRows
    /\ GoTo("delete_notifications")
    /\ UNCHANGED <<notifications, torn>>

DeleteNotifications ==
    /\ At("reset", "delete_notifications")
    /\ notifications' = NoRows
    /\ torn' = FALSE
    /\ GoTo("clear_requests")
    /\ UNCHANGED requests

ClearRequests ==
    /\ Seeding /\ job.at = "clear_requests"
    /\ requests' = NoRows
    /\ GoTo("insert_requests")
    /\ UNCHANGED <<notifications, torn>>

InsertSeedRequests ==
    /\ Seeding /\ job.at = "insert_requests"
    /\ requests' = SeedRequests
    /\ GoTo("clear_notifications")
    /\ UNCHANGED <<notifications, torn>>

ClearNotifications ==
    /\ Seeding /\ job.at = "clear_notifications"
    /\ notifications' = NoRows
    /\ torn' = FALSE
    /\ GoTo("insert_notifications")
    /\ UNCHANGED requests

InsertSeedNotifications ==
    /\ Seeding /\ job.at = "insert_notifications"
    /\ notifications' = SeedNotifications
    /\ job' = Idle
    /\ UNCHANGED <<requests, torn>>

Statement ==
    \/ InsertRequest \/ InsertNotification
    \/ UpdateStatus \/ MarkPendingRead \/ InsertDecision
    \/ DeleteRequests \/ DeleteNotifications
    \/ ClearRequests \/ InsertSeedRequests
    \/ ClearNotifications \/ InsertSeedNotifications

-----------------------------------------------------------------------------
(* Crashes and failures *)

Crash ==
    /\ job # Down
    /\ job' = Down
    /\ \/ UNCHANGED <<requests, notifications, torn>>
       \/ requests' = NoRows /\ notifications' = NoRows /\ torn' = FALSE

Boot ==
    /\ job = Down
    /\ job' = [op |-> "boot", at |-> "clear_requests"]
    /\ UNCHANGED <<requests, notifications, torn>>

\* An exception leaves the handler, and during start-up the process.
StatementFails ==
    /\ job \notin {Idle, Down}
    /\ job' = IF job.op = "boot" THEN Down ELSE Idle
    /\ torn' = (torn \/ At("reset", "delete_notifications"))
    /\ UNCHANGED <<requests, notifications>>

ServerNext ==
    \/ \E d \in Drivers : AcceptSubmit(d)
    \/ \E r \in RequestIds, v \in Verdicts, t \in Replies : AcceptDecide(r, v, t)
    \/ AcceptReset
    \/ \E n \in DOMAIN notifications : HandleMarkRead(n)
    \/ Statement
    \/ Crash
    \/ Boot

ServerSpec == ServerInit /\ [][ServerNext]_serverVars

FaultySpec == ServerInit /\ [][ServerNext \/ StatementFails]_serverVars

-----------------------------------------------------------------------------
(* Refinement: the tables a client could observe.  Nobody reads them while *)
(* a handler runs, so the handler takes effect at its first statement.     *)

Reseeding ==
    \/ job.op \in {"down", "boot"}
    \/ job.op = "reset" /\ job.at # "delete_requests"

visibleRequests == IF Reseeding THEN SeedRequests ELSE requests

visibleNotifications ==
    IF Reseeding THEN SeedNotifications
    ELSE IF At("submit", "insert_notification")
         THEN Put(notifications, PendingId(job.id), PendingNotice(job.driver, job.id))
    ELSE IF job.op = "decide" /\ job.at # "update_status"
         THEN Announce(notifications, requests[job.id].driver, job.id, job.verdict, job.reply)
    ELSE notifications

Service == INSTANCE RequestService
    WITH requests <- visibleRequests, notifications <- visibleNotifications

-----------------------------------------------------------------------------
(* Properties *)

\* Table rows and the executing handler are well typed.
ServerTypeOK ==
    /\ requests \in [DOMAIN requests -> Request]
    /\ DOMAIN requests \subseteq RequestIds
    /\ IsFiniteSet(DOMAIN requests)
    /\ notifications \in [DOMAIN notifications -> Notification]
    /\ DOMAIN notifications \subseteq NotificationIds
    /\ job \in Job
    /\ torn \in BOOLEAN

\* Without statement failures the multi-statement handlers are atomic to
\* every client, crashes and restarts included: a crash looks like a reset.
ImplementsService == Service!Spec

\* Between two requests the tables agree: what the driver has been told is
\* what was decided (see DecisionsAnnounced and NotificationsBacked).
TablesAgreeWhenIdle ==
    job = Idle => DecisionsAnnounced /\ NotificationsBacked /\ NoPrematureNotice

\* Even with failing statements, half-done resets and restarts, the id that
\* SELECT COUNT(*) yields never is the key of an existing request.
RequestInsertNeverConflicts ==
    At("submit", "insert_request") => NextId \notin DOMAIN requests

\* The statements are ordered so that a failure can leave a decision that
\* nobody was told of, but never a told decision that was not made; only a
\* reset that failed between its two DELETEs lets old notices speak about
\* new requests.
NoNoticeOfUnmadeDecision ==
    ~torn /\ job.op \in {"idle", "submit", "decide"} => NoPrematureNotice

\* A request that was decided is never seen pending again except by seeding:
\* a decision can be replaced by a decision, not withdrawn.
DecisionsStand ==
    [][\A r \in DOMAIN requests :
          /\ requests[r].status \in Verdicts
          /\ r \in DOMAIN requests'
          /\ requests'[r].status = "PENDING"
          => At("boot", "insert_requests") \/ At("reset", "insert_requests")]_serverVars
=============================================================================
