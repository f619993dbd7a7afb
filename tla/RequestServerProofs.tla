------------------------ MODULE RequestServerProofs ------------------------
(* That the statement-level handlers implement the atomic ones, for every  *)
(* seed, every set of drivers and replies and every bound, crashes and     *)
(* restarts between any two statements included.                           *)
EXTENDS RequestServer, FiniteSetTheorems, TLAPS

\* Handlers that the accept loop started run on the tables clients know.
Live == job.op \in {"idle", "submit", "decide"} \/ At("reset", "delete_requests")

\* Generated request ids are bounded by the number of rows.
GeneratedIds ==
    \A r \in DOMAIN requests \ DOMAIN SeedRequests : r \in IdBase + 1 .. NextId - 1

\* A pending notice is keyed by the id of an existing request.
PendingKeys ==
    \A n \in DOMAIN notifications : n[1] = "NOTIF_REQ" => n[2] \in DOMAIN requests

\* What holds between the statements of one handler.
MidHandler ==
    /\ At("submit", "insert_request") => Cardinality(DOMAIN requests) < MaxRequests
    /\ At("submit", "insert_notification") =>
          job.id \in DOMAIN requests /\ PendingId(job.id) \notin DOMAIN notifications
    /\ job.op = "decide" /\ job.at # "update_status" => job.id \in DOMAIN requests
    /\ At("decide", "insert_decision") => WithPendingRead(notifications, job.id) = notifications
    /\ Seeding /\ job.at \in {"clear_notifications", "insert_notifications"} =>
          requests = SeedRequests

ServerInv ==
    /\ ServerTypeOK
    /\ Live => GeneratedIds /\ PendingKeys
    /\ MidHandler

\* Request ids are numbers.
LEMMA IdsAreNumbers == RequestIds \subseteq Nat
  BY SeedAssumption DEF RequestIds, IdBase

\* The empty table.
LEMMA NoRowsType ==
    /\ DOMAIN NoRows = {} /\ IsFiniteSet(DOMAIN NoRows)
    /\ NoRows \in [DOMAIN NoRows -> Request] /\ NoRows \in [DOMAIN NoRows -> Notification]
  BY FS_EmptySet DEF NoRows

\* The seed satisfies the server's invariant.
LEMMA InitServerInv == ServerInit => ServerInv
  <1> SUFFICES ASSUME ServerInit PROVE ServerInv
    OBVIOUS
  <1> USE SeedAssumption DEF ServerInit, Init
  <1>1. ServerTypeOK
    <2>1. DOMAIN SeedRequests \subseteq RequestIds
      BY DEF RequestIds
    <2>2. DOMAIN SeedNotifications \subseteq NotificationIds
      BY DEF NotificationIds
    <2>3. QED
      BY <2>1, <2>2 DEF ServerTypeOK, Job
  <1>2. GeneratedIds /\ PendingKeys
    BY DEF GeneratedIds, PendingKeys
  <1>3. MidHandler
    BY DEF MidHandler, At, Idle, Seeding
  <1>4. QED
    BY <1>1, <1>2, <1>3 DEF ServerInv

\* Where handlers run on live tables the id from COUNT(*) is fresh.
LEMMA LiveIdIsFresh ==
    ASSUME ServerTypeOK, GeneratedIds, PendingKeys
    PROVE  /\ Cardinality(DOMAIN requests) \in Nat
           /\ NextId \in Nat
           /\ NextId \notin DOMAIN requests
           /\ PendingId(NextId) \notin DOMAIN notifications
  <1>1. Cardinality(DOMAIN requests) \in Nat
    BY FS_CardinalityType DEF ServerTypeOK
  <1>2. NextId \in Nat /\ NextId > IdBase
    BY <1>1 DEF NextId, IdBase
  <1>3. NextId \notin DOMAIN requests
    <2>1. SUFFICES ASSUME NextId \in DOMAIN requests PROVE FALSE
      OBVIOUS
    <2>2. NextId \notin DOMAIN SeedRequests
      BY <1>2, SeedAssumption DEF IdBase
    <2>3. NextId \in IdBase + 1 .. NextId - 1
      BY <2>1, <2>2 DEF GeneratedIds
    <2>4. QED
      BY <1>2, <2>3
  <1>4. QED
    BY <1>1, <1>2, <1>3 DEF PendingKeys, PendingId

----------------------------------------------------------------------------
(* Every step preserves ServerInv. *)

LEMMA JobKinds ==
    ASSUME job \in Job
    PROVE  /\ job.op = "submit" => job \in SubmitJob
           /\ job.op = "decide" => job \in DecideJob
           /\ Seeding => job \in SeedJob
  BY DEF Job, Idle, Down, SubmitJob, DecideJob, SeedJob, Seeding

LEMMA AcceptPreserves ==
    ASSUME ServerInv,
           \/ \E d \in Drivers : AcceptSubmit(d)
           \/ \E r \in RequestIds, v \in Verdicts, t \in Replies : AcceptDecide(r, v, t)
           \/ AcceptReset
    PROVE  ServerInv'
  <1>1. /\ job = Idle
        /\ requests' = requests /\ notifications' = notifications /\ torn' = torn
    BY DEF AcceptSubmit, AcceptDecide, AcceptReset
  <1>2. job' \in Job
    BY DEF AcceptSubmit, AcceptDecide, AcceptReset, Job, SubmitJob, DecideJob, SeedJob
  <1>3. ServerTypeOK'
    BY <1>1, <1>2 DEF ServerInv, ServerTypeOK
  <1>4. GeneratedIds' /\ PendingKeys'
    BY <1>1 DEF ServerInv, Live, Idle, GeneratedIds, PendingKeys, NextId
  <1>5. MidHandler'
    BY <1>1 DEF AcceptSubmit, AcceptDecide, AcceptReset, MidHandler, At, Seeding
  <1>6. QED
    BY <1>3, <1>4, <1>5 DEF ServerInv

LEMMA MarkReadPreserves ==
    ASSUME ServerInv, NEW n \in DOMAIN notifications, HandleMarkRead(n)
    PROVE  ServerInv'
  <1>1. /\ job = Idle /\ job' = Idle /\ requests' = requests /\ torn' = torn
        /\ notifications' = [notifications EXCEPT ![n].read = TRUE]
        /\ notifications \in [DOMAIN notifications -> Notification]
    BY DEF HandleMarkRead, MarkRead, ServerInv, ServerTypeOK
  <1>2. [notifications[n] EXCEPT !.read = TRUE] \in Notification
    BY <1>1 DEF Notification
  <1>3. notifications' \in [DOMAIN notifications -> Notification]
    BY <1>1, <1>2
  <1>4. ServerTypeOK'
    BY <1>1, <1>3 DEF ServerInv, ServerTypeOK
  <1>5. GeneratedIds' /\ PendingKeys'
    BY <1>1, <1>3 DEF ServerInv, Live, Idle, GeneratedIds, PendingKeys, NextId
  <1>6. MidHandler'
    BY <1>1 DEF MidHandler, At, Seeding, Idle
  <1>7. QED
    BY <1>4, <1>5, <1>6 DEF ServerInv

\* The INSERT always finds its key free and keeps generated ids dense enough.
LEMMA InsertRequestPreserves ==
    ASSUME ServerInv, InsertRequest
    PROVE  ServerInv'
  <1> DEFINE row == [driver |-> job.driver, status |-> "PENDING", reply |-> NoReply]
             R == DOMAIN requests
  <1>1. /\ job \in SubmitJob /\ job.op = "submit" /\ job.at = "insert_request"
        /\ ServerTypeOK /\ GeneratedIds /\ PendingKeys
        /\ Cardinality(R) < MaxRequests
    BY JobKinds DEF ServerInv, ServerTypeOK, InsertRequest, At, Live, MidHandler
  <1>2. /\ Cardinality(R) \in Nat
        /\ NextId \in Nat /\ NextId \notin R
        /\ PendingId(NextId) \notin DOMAIN notifications
    BY <1>1, LiveIdIsFresh
  <1>3. NextId \in RequestIds
    BY <1>1, <1>2, SeedAssumption DEF NextId, RequestIds, IdBase
  <1>4. /\ requests' = Put(requests, NextId, row)
        /\ job' = [job EXCEPT !.id = NextId, !.at = "insert_notification"]
        /\ notifications' = notifications /\ torn' = torn
    BY <1>2 DEF InsertRequest
  <1>5. row \in Request
    BY <1>1 DEF SubmitJob, Request
  <1>6. /\ requests' \in [R \cup {NextId} -> Request]
        /\ IsFiniteSet(R \cup {NextId})
        /\ Cardinality(R \cup {NextId}) = Cardinality(R) + 1
    BY <1>1, <1>2, <1>4, <1>5, FS_AddElement DEF Put, ServerTypeOK
  <1>7. /\ job' \in SubmitJob /\ job'.op = "submit"
        /\ job'.at = "insert_notification" /\ job'.id = NextId
    BY <1>1, <1>3, <1>4 DEF SubmitJob
  <1>8. ServerTypeOK'
    BY <1>1, <1>3, <1>4, <1>6, <1>7 DEF ServerTypeOK, Job
  <1>9. NextId' = NextId + 1
    BY <1>2, <1>6 DEF NextId, IdBase
  <1>10. GeneratedIds'
    <2>1. SUFFICES ASSUME NEW r \in (R \cup {NextId}) \ DOMAIN SeedRequests
                   PROVE  r \in IdBase + 1 .. NextId' - 1
      BY <1>6 DEF GeneratedIds
    <2>2. CASE r = NextId
      BY <1>2, <1>9, <2>2 DEF NextId, IdBase
    <2>3. CASE r \in R
      <3>1. r \in IdBase + 1 .. NextId - 1
        BY <1>1, <2>1, <2>3 DEF GeneratedIds
      <3>2. QED
        BY <1>2, <1>9, <3>1 DEF IdBase
    <2>4. QED
      BY <2>1, <2>2, <2>3
  <1>11. PendingKeys'
    BY <1>1, <1>4, <1>6 DEF PendingKeys
  <1>12. MidHandler'
    BY <1>2, <1>4, <1>6, <1>7 DEF MidHandler, At, Seeding
  <1>13. QED
    BY <1>8, <1>10, <1>11, <1>12 DEF ServerInv

LEMMA InsertNotificationPreserves ==
    ASSUME ServerInv, InsertNotification
    PROVE  ServerInv'
  <1> DEFINE note == PendingNotice(job.driver, job.id)
             N == DOMAIN notifications
  <1>1. /\ job \in SubmitJob /\ job.op = "submit" /\ job.at = "insert_notification"
        /\ ServerTypeOK /\ GeneratedIds /\ PendingKeys
        /\ job.id \in DOMAIN requests /\ PendingId(job.id) \notin N
    BY JobKinds DEF ServerInv, ServerTypeOK, InsertNotification, At, Live, MidHandler
  <1>2. /\ job.id \in RequestIds /\ job.id \in Nat
    BY <1>1, IdsAreNumbers DEF ServerTypeOK
  <1>3. /\ notifications' = Put(notifications, PendingId(job.id), note)
        /\ job' = Idle /\ requests' = requests /\ torn' = torn
    BY <1>1 DEF InsertNotification
  <1>4. note \in Notification
    BY <1>1, <1>2 DEF PendingNotice, Notification, SubmitJob
  <1>5. /\ notifications' \in [N \cup {PendingId(job.id)} -> Notification]
        /\ PendingId(job.id) \in NotificationIds
        /\ PendingId(job.id)[2] = job.id
    BY <1>1, <1>2, <1>3, <1>4 DEF Put, ServerTypeOK, PendingId, NotificationIds
  <1>6. ServerTypeOK'
    BY <1>1, <1>3, <1>5 DEF ServerTypeOK, Job
  <1>7. GeneratedIds' /\ PendingKeys'
    BY <1>1, <1>3, <1>5 DEF GeneratedIds, PendingKeys, NextId
  <1>8. MidHandler'
    BY <1>3 DEF MidHandler, At, Seeding, Idle
  <1>9. QED
    BY <1>6, <1>7, <1>8 DEF ServerInv

LEMMA UpdateStatusPreserves ==
    ASSUME ServerInv, UpdateStatus
    PROVE  ServerInv'
  <1>1. /\ job \in DecideJob /\ job.op = "decide" /\ job.at = "update_status"
        /\ ServerTypeOK /\ GeneratedIds /\ PendingKeys
    BY JobKinds DEF ServerInv, ServerTypeOK, UpdateStatus, At, Live
  <1>2. /\ requests' \in [DOMAIN requests -> Request]
        /\ notifications' = notifications /\ torn' = torn
    BY <1>1 DEF UpdateStatus, WithVerdict, ServerTypeOK, DecideJob, Request
  <1>3. \/ job' = Idle
        \/ /\ job.id \in DOMAIN requests
           /\ job' \in DecideJob /\ job'.op = "decide" /\ job'.at = "mark_read"
           /\ job'.id = job.id
    BY <1>1 DEF UpdateStatus, GoTo, DecideJob
  <1>4. ServerTypeOK'
    BY <1>1, <1>2, <1>3 DEF ServerTypeOK, Job
  <1>5. GeneratedIds' /\ PendingKeys'
    BY <1>1, <1>2 DEF GeneratedIds, PendingKeys, NextId
  <1>6. MidHandler'
    BY <1>2, <1>3 DEF MidHandler, At, Seeding, Idle
  <1>7. QED
    BY <1>4, <1>5, <1>6 DEF ServerInv

\* Marking the pending notices read twice is the same as once.
LEMMA MarkingIsIdempotent ==
    ASSUME NEW S, NEW table \in [S -> Notification], NEW r
    PROVE  /\ WithPendingRead(table, r) \in [S -> Notification]
           /\ WithPendingRead(WithPendingRead(table, r), r) = WithPendingRead(table, r)
  BY DEF WithPendingRead, Notification

LEMMA MarkPendingReadPreserves ==
    ASSUME ServerInv, MarkPendingRead
    PROVE  ServerInv'
  <1>1. /\ job \in DecideJob /\ job.op = "decide" /\ job.at = "mark_read"
        /\ ServerTypeOK /\ GeneratedIds /\ PendingKeys /\ job.id \in DOMAIN requests
    BY JobKinds DEF ServerInv, ServerTypeOK, MarkPendingRead, At, Live, MidHandler
  <1>2. /\ notifications' = WithPendingRead(notifications, job.id)
        /\ requests' = requests /\ torn' = torn
        /\ job' \in DecideJob /\ job'.op = "decide" /\ job'.at = "insert_decision"
        /\ job'.id = job.id
    BY <1>1 DEF MarkPendingRead, GoTo, DecideJob
  <1>3. /\ notifications' \in [DOMAIN notifications -> Notification]
        /\ WithPendingRead(notifications', job.id) = notifications'
    BY <1>1, <1>2, MarkingIsIdempotent DEF ServerTypeOK
  <1>4. ServerTypeOK'
    BY <1>1, <1>2, <1>3 DEF ServerTypeOK, Job
  <1>5. GeneratedIds' /\ PendingKeys'
    BY <1>1, <1>2, <1>3 DEF GeneratedIds, PendingKeys, NextId
  <1>6. MidHandler'
    BY <1>1, <1>2, <1>3 DEF MidHandler, At, Seeding
  <1>7. QED
    BY <1>4, <1>5, <1>6 DEF ServerInv

LEMMA InsertDecisionPreserves ==
    ASSUME ServerInv, InsertDecision
    PROVE  ServerInv'
  <1> DEFINE id == DecisionId(job.verdict, job.id)
             note == DecisionNotice(requests[job.id].driver, job.id, job.verdict, job.reply)
             N == DOMAIN notifications
  <1>1. /\ job \in DecideJob /\ job.op = "decide" /\ job.at = "insert_decision"
        /\ ServerTypeOK /\ GeneratedIds /\ PendingKeys /\ job.id \in DOMAIN requests
    BY JobKinds DEF ServerInv, ServerTypeOK, InsertDecision, At, Live, MidHandler
  <1>2. /\ notifications' = Put(notifications, id, note)
        /\ job' = Idle /\ requests' = requests /\ torn' = torn
    BY DEF InsertDecision
  <1>3. job.id \in RequestIds /\ job.id \in Nat
    BY <1>1, IdsAreNumbers DEF ServerTypeOK
  <1>4. note \in Notification
    BY <1>1, <1>3 DEF DecisionNotice, Notification, DecideJob, ServerTypeOK, Request
  <1>5. id \in NotificationIds /\ id[1] # "NOTIF_REQ"
    BY <1>3 DEF DecisionId, NotificationIds
  <1>6. notifications' \in [N \cup {id} -> Notification]
    BY <1>1, <1>2, <1>4 DEF Put, ServerTypeOK
  <1>7. ServerTypeOK'
    BY <1>1, <1>2, <1>5, <1>6 DEF ServerTypeOK, Job
  <1>8. GeneratedIds' /\ PendingKeys'
    BY <1>1, <1>2, <1>5, <1>6 DEF GeneratedIds, PendingKeys, NextId
  <1>9. MidHandler'
    BY <1>2 DEF MidHandler, At, Seeding, Idle
  <1>10. QED
    BY <1>7, <1>8, <1>9 DEF ServerInv

\* Deleting and seeding: the tables hold no row, or exactly the seed.
LEMMA SeedingPreserves ==
    ASSUME ServerInv,
           \/ DeleteRequests \/ DeleteNotifications \/ ClearRequests
           \/ InsertSeedRequests \/ ClearNotifications \/ InsertSeedNotifications
    PROVE  ServerInv'
  <1>1. job \in SeedJob /\ ServerTypeOK /\ Seeding
    BY JobKinds DEF ServerInv, ServerTypeOK, Seeding, At, DeleteRequests, DeleteNotifications,
       ClearRequests, InsertSeedRequests, ClearNotifications, InsertSeedNotifications
  <1>2. /\ requests' \in {requests, NoRows, SeedRequests}
        /\ notifications' \in {notifications, NoRows, SeedNotifications}
        /\ torn' \in {torn, FALSE}
    BY DEF DeleteRequests, DeleteNotifications,
       ClearRequests, InsertSeedRequests, ClearNotifications, InsertSeedNotifications
  <1>3. /\ DOMAIN SeedRequests \subseteq RequestIds
        /\ DOMAIN SeedNotifications \subseteq NotificationIds
    BY SeedAssumption DEF RequestIds, NotificationIds
  <1>4. \/ /\ job' \in SeedJob /\ job'.op = job.op
           /\ job'.at \in {"delete_notifications", "clear_requests", "insert_requests"}
        \/ /\ InsertSeedRequests /\ job' \in SeedJob /\ job'.op = job.op
           /\ job'.at = "clear_notifications" /\ requests' = SeedRequests
        \/ /\ ClearNotifications /\ job' \in SeedJob /\ job'.op = job.op
           /\ job'.at = "insert_notifications" /\ requests' = requests
        \/ /\ InsertSeedNotifications /\ job' = Idle
           /\ requests' = requests /\ notifications' = SeedNotifications
    BY <1>1 DEF DeleteRequests, DeleteNotifications, ClearRequests, InsertSeedRequests,
       ClearNotifications, InsertSeedNotifications, GoTo, SeedJob
  <1>5. job' \in Job
    BY <1>4 DEF Job
  <1>6. ServerTypeOK'
    <2>1. /\ requests' \in [DOMAIN requests' -> Request]
          /\ DOMAIN requests' \subseteq RequestIds
          /\ IsFiniteSet(DOMAIN requests')
      BY <1>1, <1>2, <1>3, NoRowsType, SeedAssumption DEF ServerTypeOK
    <2>2. /\ notifications' \in [DOMAIN notifications' -> Notification]
          /\ DOMAIN notifications' \subseteq NotificationIds
      BY <1>1, <1>2, <1>3, NoRowsType, SeedAssumption DEF ServerTypeOK
    <2>3. torn' \in BOOLEAN
      BY <1>1, <1>2 DEF ServerTypeOK
    <2>4. QED
      BY <1>5, <2>1, <2>2, <2>3 DEF ServerTypeOK
  <1>7. CASE InsertSeedNotifications
    <2>1. requests = SeedRequests
      BY <1>7 DEF InsertSeedNotifications, ServerInv, MidHandler
    <2>2. GeneratedIds' /\ PendingKeys'
      BY <1>4, <1>7, <2>1, SeedAssumption DEF GeneratedIds, PendingKeys, InsertSeedNotifications
    <2>3. MidHandler'
      BY <1>7 DEF InsertSeedNotifications, MidHandler, At, Seeding, Idle
    <2>4. QED
      BY <1>6, <2>2, <2>3 DEF ServerInv
  <1>8. CASE ~InsertSeedNotifications
    <2>1. /\ job' \in SeedJob /\ job'.op = job.op /\ job'.at # "delete_requests"
      BY <1>4, <1>8
    <2>2. job.op \in {"reset", "boot"}
      BY <1>1 DEF Seeding
    <2>3. ~Live'
      BY <2>1, <2>2 DEF Live, At
    <2>4. Seeding' /\ job'.at \in {"clear_notifications", "insert_notifications"} =>
             requests' = SeedRequests
      BY <1>4, <1>8 DEF ServerInv, MidHandler, ClearNotifications
    <2>5. MidHandler'
      BY <2>1, <2>2, <2>4 DEF MidHandler, At, Seeding
    <2>6. QED
      BY <1>6, <2>3, <2>5 DEF ServerInv
  <1>9. QED
    BY <1>7, <1>8

LEMMA CrashPreserves ==
    ASSUME ServerInv, Crash \/ Boot
    PROVE  ServerInv'
  <1>1. /\ requests' \in {requests, NoRows}
        /\ notifications' \in {notifications, NoRows}
        /\ torn' \in {torn, FALSE}
        /\ job' \in {Down, [op |-> "boot", at |-> "clear_requests"]}
    BY DEF Crash, Boot
  <1>2. ServerTypeOK'
    <2>1. /\ requests' \in [DOMAIN requests' -> Request]
          /\ DOMAIN requests' \subseteq RequestIds
          /\ IsFiniteSet(DOMAIN requests')
      BY <1>1, NoRowsType DEF ServerInv, ServerTypeOK
    <2>2. /\ notifications' \in [DOMAIN notifications' -> Notification]
          /\ DOMAIN notifications' \subseteq NotificationIds
      BY <1>1, NoRowsType DEF ServerInv, ServerTypeOK
    <2>3. job' \in Job
      BY <1>1 DEF Job, SeedJob
    <2>4. torn' \in BOOLEAN
      BY <1>1 DEF ServerInv, ServerTypeOK
    <2>5. QED
      BY <2>1, <2>2, <2>3, <2>4 DEF ServerTypeOK
  <1>3. ~Live' /\ MidHandler'
    BY <1>1 DEF Live, MidHandler, At, Seeding, Down
  <1>4. QED
    BY <1>2, <1>3 DEF ServerInv

\* Every step of the server preserves the invariant.
LEMMA ServerNextInv == ServerInv /\ [ServerNext]_serverVars => ServerInv'
  <1> SUFFICES ASSUME ServerInv, [ServerNext]_serverVars PROVE ServerInv'
    OBVIOUS
  <1>1. CASE \/ \E d \in Drivers : AcceptSubmit(d)
             \/ \E r \in RequestIds, v \in Verdicts, t \in Replies : AcceptDecide(r, v, t)
             \/ AcceptReset
    BY <1>1, AcceptPreserves
  <1>2. CASE \E n \in DOMAIN notifications : HandleMarkRead(n)
    BY <1>2, MarkReadPreserves
  <1>3. CASE Statement
    BY <1>3, InsertRequestPreserves, InsertNotificationPreserves, UpdateStatusPreserves,
       MarkPendingReadPreserves, InsertDecisionPreserves, SeedingPreserves DEF Statement
  <1>4. CASE Crash \/ Boot
    BY <1>4, CrashPreserves
  <1>5. CASE UNCHANGED serverVars
    BY <1>5 DEF serverVars, ServerInv, ServerTypeOK, Live, At, GeneratedIds, PendingKeys,
       MidHandler, Seeding, NextId
  <1>6. QED
    BY <1>1, <1>2, <1>3, <1>4, <1>5 DEF ServerNext

THEOREM ServerInvariant == ServerSpec => []ServerInv
  BY InitServerInv, ServerNextInv, PTL DEF ServerSpec

\* Rows, keys and the executing handler are well typed after every statement.
THEOREM ServerTypeCorrect == ServerSpec => []ServerTypeOK
  <1>1. ServerInv => ServerTypeOK
    BY DEF ServerInv
  <1>2. QED
    BY <1>1, ServerInvariant, PTL

----------------------------------------------------------------------------
(* Every step is a step of RequestService, or is invisible. *)

LEMMA InitMaps == ServerInit => Service!Init
  BY DEF ServerInit, Init, Idle, Service!Init, visibleRequests, visibleNotifications,
     Reseeding, At

\* Taking a request from the queue changes nothing a client can see.
LEMMA AcceptMaps ==
    ASSUME ServerInv,
           \/ \E d \in Drivers : AcceptSubmit(d)
           \/ \E r \in RequestIds, v \in Verdicts, t \in Replies : AcceptDecide(r, v, t)
           \/ AcceptReset
    PROVE  UNCHANGED Service!vars
  BY DEF AcceptSubmit, AcceptDecide, AcceptReset, Idle, Service!vars, visibleRequests,
     visibleNotifications, Reseeding, At

LEMMA MarkReadMaps ==
    ASSUME ServerInv, NEW n \in DOMAIN notifications, HandleMarkRead(n)
    PROVE  Service!Next
  <1>1. /\ visibleRequests = requests /\ visibleRequests' = requests'
        /\ visibleNotifications = notifications /\ visibleNotifications' = notifications'
    BY DEF HandleMarkRead, Idle, visibleRequests, visibleNotifications, Reseeding, At
  <1>2. n \in DOMAIN visibleNotifications /\ Service!MarkRead(n)
    BY <1>1 DEF HandleMarkRead, MarkRead, Service!MarkRead
  <1>3. QED
    BY <1>2 DEF Service!Next

\* The instance counts rows as FiniteSets does.
LEMMA SameCardinality ==
    ASSUME NEW S PROVE Service!Cardinality(S) = Cardinality(S)
  BY DEF Cardinality, Service!Cardinality

\* The first INSERT is where a submitted request takes effect.
LEMMA InsertRequestMaps ==
    ASSUME ServerInv, InsertRequest
    PROVE  Service!Next
  <1> DEFINE d == job.driver
             row == [driver |-> d, status |-> "PENDING", reply |-> NoReply]
  <1>1. /\ job \in SubmitJob /\ job.op = "submit" /\ job.at = "insert_request"
        /\ ServerTypeOK /\ GeneratedIds /\ PendingKeys
        /\ Cardinality(DOMAIN requests) < MaxRequests
    BY JobKinds DEF ServerInv, ServerTypeOK, InsertRequest, At, Live, MidHandler
  <1>2. NextId \notin DOMAIN requests
    BY <1>1, LiveIdIsFresh
  <1>3. /\ requests' = Put(requests, NextId, row)
        /\ job' = [job EXCEPT !.id = NextId, !.at = "insert_notification"]
        /\ notifications' = notifications
    BY <1>2 DEF InsertRequest
  <1>4. /\ job'.op = "submit" /\ job'.at = "insert_notification"
        /\ job'.id = NextId /\ job'.driver = d
    BY <1>1, <1>3 DEF SubmitJob
  <1>5. /\ visibleRequests = requests
        /\ visibleNotifications = notifications
        /\ visibleRequests' = requests'
        /\ visibleNotifications' = Put(notifications, PendingId(NextId), PendingNotice(d, NextId))
    BY <1>1, <1>3, <1>4 DEF visibleRequests, visibleNotifications, Reseeding, At
  <1>6. Service!NextId = NextId
    BY <1>5, SameCardinality DEF NextId, Service!NextId, IdBase, Service!IdBase
  <1>7. Service!Submit(d)
    BY <1>1, <1>3, <1>5, <1>6, SameCardinality DEF Service!Submit, Put, Service!Put, NoReply, Service!NoReply,
       PendingId, Service!PendingId, PendingNotice, Service!PendingNotice
  <1>8. QED
    BY <1>1, <1>7 DEF Service!Next, SubmitJob

LEMMA InsertNotificationMaps ==
    ASSUME ServerInv, InsertNotification
    PROVE  UNCHANGED Service!vars
  <1>1. /\ job.op = "submit" /\ job.at = "insert_notification"
        /\ PendingId(job.id) \notin DOMAIN notifications
    BY DEF ServerInv, InsertNotification, At, MidHandler
  <1>2. /\ notifications' = Put(notifications, PendingId(job.id),
                                PendingNotice(job.driver, job.id))
        /\ job' = Idle /\ requests' = requests
    BY <1>1 DEF InsertNotification
  <1>3. QED
    BY <1>1, <1>2 DEF Service!vars, visibleRequests, visibleNotifications, Reseeding, At, Idle

\* The UPDATE is where a decision takes effect; on an unknown id it is all.
LEMMA UpdateStatusMaps ==
    ASSUME ServerInv, UpdateStatus
    PROVE  Service!Next
  <1> DEFINE r == job.id
             v == job.verdict
             t == job.reply
  <1>1. /\ job \in DecideJob /\ job.op = "decide" /\ job.at = "update_status"
    BY JobKinds DEF ServerInv, ServerTypeOK, UpdateStatus, At
  <1>2. /\ visibleRequests = requests /\ visibleNotifications = notifications
    BY <1>1 DEF visibleRequests, visibleNotifications, Reseeding, At
  <1>3. /\ requests' = WithVerdict(requests, r, v, t)
        /\ notifications' = notifications
    BY DEF UpdateStatus
  <1>4. job'.op \in {"idle", "decide"} /\ visibleRequests' = requests'
    BY <1>1 DEF UpdateStatus, GoTo, Idle, DecideJob, visibleRequests, Reseeding
  <1>5. visibleNotifications' = IF r \in DOMAIN requests
                                THEN Announce(notifications, requests[r].driver, r, v, t)
                                ELSE notifications
    <2>1. CASE r \in DOMAIN requests
      <3>1. /\ job'.op = "decide" /\ job'.at = "mark_read" /\ job'.id = r
            /\ job'.verdict = v /\ job'.reply = t
        BY <1>1, <2>1 DEF UpdateStatus, GoTo, DecideJob
      <3>2. requests'[r].driver = requests[r].driver
        BY <1>3, <2>1 DEF WithVerdict, ServerInv, ServerTypeOK, Request
      <3>3. QED
        BY <1>3, <2>1, <3>1, <3>2 DEF visibleNotifications, Reseeding, At
    <2>2. CASE r \notin DOMAIN requests
      BY <1>3, <2>2 DEF UpdateStatus, Idle, visibleNotifications, Reseeding, At
    <2>3. QED
      BY <2>1, <2>2
  <1>6. Service!Decide(r, v, t)
    BY <1>2, <1>3, <1>4, <1>5 DEF Service!Decide, WithVerdict, Service!WithVerdict,
       Announce, Service!Announce, Put, Service!Put, WithPendingRead, Service!WithPendingRead,
       DecisionId, Service!DecisionId, DecisionNotice, Service!DecisionNotice
  <1>7. /\ r \in Service!RequestIds /\ v \in Service!Verdicts /\ t \in Replies
    BY <1>1 DEF DecideJob, RequestIds, Service!RequestIds, IdBase, Service!IdBase,
       Verdicts, Service!Verdicts
  <1>8. QED
    BY <1>6, <1>7 DEF Service!Next

LEMMA MarkPendingReadMaps ==
    ASSUME ServerInv, MarkPendingRead
    PROVE  UNCHANGED Service!vars
  <1>1. /\ job \in DecideJob /\ job.op = "decide" /\ job.at = "mark_read"
        /\ notifications \in [DOMAIN notifications -> Notification]
    BY JobKinds DEF ServerInv, ServerTypeOK, MarkPendingRead, At
  <1>2. /\ notifications' = WithPendingRead(notifications, job.id)
        /\ requests' = requests
        /\ job'.op = "decide" /\ job'.at = "insert_decision" /\ job'.id = job.id
        /\ job'.verdict = job.verdict /\ job'.reply = job.reply
    BY <1>1 DEF MarkPendingRead, GoTo, DecideJob
  <1>3. WithPendingRead(notifications', job.id) = notifications'
    BY <1>1, <1>2, MarkingIsIdempotent
  <1>4. QED
    BY <1>1, <1>2, <1>3 DEF Service!vars, visibleRequests, visibleNotifications, Reseeding, At,
       Announce

LEMMA InsertDecisionMaps ==
    ASSUME ServerInv, InsertDecision
    PROVE  UNCHANGED Service!vars
  <1>1. /\ job.op = "decide" /\ job.at = "insert_decision"
        /\ WithPendingRead(notifications, job.id) = notifications
    BY DEF ServerInv, InsertDecision, At, MidHandler
  <1>2. QED
    BY <1>1 DEF InsertDecision, Service!vars, visibleRequests, visibleNotifications, Reseeding,
       At, Announce, Idle

\* A reset takes effect at its first DELETE, and a crash at once.
LEMMA SeedingMaps ==
    ASSUME ServerInv,
           \/ DeleteRequests \/ DeleteNotifications \/ ClearRequests
           \/ InsertSeedRequests \/ ClearNotifications \/ InsertSeedNotifications
           \/ Crash \/ Boot
    PROVE  [Service!Next]_Service!vars
  <1>1. CASE \/ DeleteRequests \/ DeleteNotifications \/ ClearRequests
             \/ InsertSeedRequests \/ ClearNotifications
    <2>1. /\ job \in SeedJob /\ Seeding
          /\ job' \in SeedJob /\ job'.op = job.op /\ job'.at # "delete_requests"
      BY <1>1, JobKinds DEF DeleteRequests, DeleteNotifications, ClearRequests,
         InsertSeedRequests, ClearNotifications, At, GoTo, Seeding, ServerInv, ServerTypeOK,
         SeedJob
    <2>2. visibleRequests' = SeedRequests /\ visibleNotifications' = SeedNotifications
      BY <2>1 DEF visibleRequests, visibleNotifications, Reseeding, Seeding
    <2>3. QED
      BY <2>2 DEF Service!Next, Service!Reset
  <1>2. CASE InsertSeedNotifications
    <2>1. visibleRequests' = SeedRequests /\ visibleNotifications' = SeedNotifications
      BY <1>2 DEF InsertSeedNotifications, ServerInv, MidHandler, visibleRequests,
         visibleNotifications, Reseeding, At, Idle
    <2>2. QED
      BY <2>1 DEF Service!Next, Service!Reset
  <1>3. CASE Crash \/ Boot
    <2>1. visibleRequests' = SeedRequests /\ visibleNotifications' = SeedNotifications
      BY <1>3 DEF Crash, Boot, Down, visibleRequests, visibleNotifications, Reseeding
    <2>2. QED
      BY <2>1 DEF Service!Next, Service!Reset
  <1>4. QED
    BY <1>1, <1>2, <1>3

LEMMA NextMaps == ServerInv /\ [ServerNext]_serverVars => [Service!Next]_Service!vars
  <1> SUFFICES ASSUME ServerInv, [ServerNext]_serverVars
               PROVE  [Service!Next]_Service!vars
    OBVIOUS
  <1>1. CASE \/ \E d \in Drivers : AcceptSubmit(d)
             \/ \E r \in RequestIds, v \in Verdicts, t \in Replies : AcceptDecide(r, v, t)
             \/ AcceptReset
    BY <1>1, AcceptMaps
  <1>2. CASE \E n \in DOMAIN notifications : HandleMarkRead(n)
    BY <1>2, MarkReadMaps
  <1>3. CASE Statement
    BY <1>3, InsertRequestMaps, InsertNotificationMaps, UpdateStatusMaps,
       MarkPendingReadMaps, InsertDecisionMaps, SeedingMaps DEF Statement
  <1>4. CASE Crash \/ Boot
    BY <1>4, SeedingMaps
  <1>5. CASE UNCHANGED serverVars
    BY <1>5 DEF serverVars, Service!vars, visibleRequests, visibleNotifications, Reseeding, At
  <1>6. QED
    BY <1>1, <1>2, <1>3, <1>4, <1>5 DEF ServerNext

\* The server implements the atomic service: to its clients every handler
\* happens at once, and a crash and restart look like a reset.
THEOREM ServerImplementsService == ServerSpec => ImplementsService
  <1>1. ServerSpec => []ServerInv
    BY ServerInvariant
  <1>2. QED
    BY <1>1, InitMaps, NextMaps, PTL DEF ServerSpec, ImplementsService, Service!Spec

----------------------------------------------------------------------------
(* What RequestServiceProofs shows of the service holds of the server. *)

Proved == INSTANCE RequestServiceProofs
    WITH requests <- visibleRequests, notifications <- visibleNotifications

LEMMA SameService ==
    /\ Service!Init => Proved!Init
    /\ [Service!Next]_Service!vars => [Proved!Next]_Proved!vars
  <1>1. Service!Init => Proved!Init
    BY DEF Service!Init, Proved!Init
  <1>2. ASSUME NEW S PROVE Service!Cardinality(S) = Proved!Cardinality(S)
    BY DEF Service!Cardinality, Proved!Cardinality
  <1>3. Service!NextId = Proved!NextId
    BY <1>2 DEF Service!NextId, Proved!NextId, Service!IdBase, Proved!IdBase
  <1>4. \A d \in Drivers : Service!Submit(d) => Proved!Submit(d)
    BY <1>2, <1>3 DEF Service!Submit, Proved!Submit, Service!Put, Proved!Put, Service!NoReply,
       Proved!NoReply, Service!PendingId, Proved!PendingId, Service!PendingNotice,
       Proved!PendingNotice
  <1>5. \A r \in RequestIds, v \in Verdicts, t \in Replies :
           Service!Decide(r, v, t) => Proved!Decide(r, v, t)
    BY DEF Service!Decide, Proved!Decide, Service!WithVerdict, Proved!WithVerdict,
       Service!Announce, Proved!Announce, Service!Put, Proved!Put, Service!WithPendingRead,
       Proved!WithPendingRead, Service!DecisionId, Proved!DecisionId, Service!DecisionNotice,
       Proved!DecisionNotice
  <1>6. /\ Service!RequestIds = RequestIds /\ Proved!RequestIds = RequestIds
        /\ Service!Verdicts = Verdicts /\ Proved!Verdicts = Verdicts
    BY DEF Service!RequestIds, RequestIds, Proved!RequestIds, Service!Verdicts, Verdicts,
       Proved!Verdicts, Service!IdBase, Proved!IdBase, IdBase
  <1>7. \A n \in DOMAIN visibleNotifications : Service!MarkRead(n) => Proved!MarkRead(n)
    BY DEF Service!MarkRead, Proved!MarkRead
  <1>8. Service!Reset => Proved!Reset
    BY DEF Service!Reset, Proved!Reset
  <1>9. Service!Next => Proved!Next
    BY <1>4, <1>5, <1>6, <1>7, <1>8 DEF Service!Next, Proved!Next
  <1>10. QED
    BY <1>1, <1>9 DEF Service!vars, Proved!vars

\* Whenever no handler runs, decisions and notifications agree, after any
\* number of handlers, crashes and restarts.
THEOREM TablesAgree == ServerSpec => []TablesAgreeWhenIdle
  <1>1. ServerSpec => Proved!Spec
    BY ServerImplementsService, SameService, PTL DEF ImplementsService, Service!Spec, Proved!Spec
  <1>2. Proved!IInv => TablesAgreeWhenIdle
    <2> SUFFICES ASSUME Proved!IInv, job = Idle
                 PROVE  DecisionsAnnounced /\ NotificationsBacked /\ NoPrematureNotice
      BY DEF TablesAgreeWhenIdle
    <2>1. visibleRequests = requests /\ visibleNotifications = notifications
      BY DEF Idle, visibleRequests, visibleNotifications, Reseeding, At
    <2>2. NotificationsBacked
      BY <2>1 DEF Proved!IInv, Proved!NotificationsBacked, NotificationsBacked
    <2>3. NoPrematureNotice
      BY <2>1 DEF Proved!IInv, Proved!NoPrematureNotice, NoPrematureNotice, Proved!Verdicts,
         Verdicts, Proved!DecisionId, DecisionId
    <2>4. DecisionsAnnounced
      BY <2>1 DEF Proved!IInv, Proved!DecisionsAnnounced, DecisionsAnnounced, Proved!Verdicts,
         Verdicts, Proved!DecisionId, DecisionId, Proved!Untouched, Untouched,
         Proved!Announced, Announced, Proved!PendingNoticesRead, PendingNoticesRead
    <2>5. QED
      BY <2>2, <2>3, <2>4
  <1>3. Proved!SeedAssumption
    BY SeedAssumption DEF Proved!IsFiniteSet, IsFiniteSet, Proved!Request, Request,
       Proved!Notification, Notification, Proved!IdBase, IdBase, Proved!NoReply, NoReply,
       Proved!Verdicts, Verdicts, Proved!RequestIds, RequestIds
  <1>4. QED
    BY <1>1, <1>2, <1>3, Proved!Invariant, PTL

----------------------------------------------------------------------------
(* With failing statements. *)

CountedIds == IsFiniteSet(DOMAIN requests) /\ GeneratedIds

LEMMA CountedIdIsFresh ==
    ASSUME CountedIds
    PROVE  /\ Cardinality(DOMAIN requests) \in Nat
           /\ NextId \in Nat /\ NextId > IdBase
           /\ NextId \notin DOMAIN requests
  <1>1. Cardinality(DOMAIN requests) \in Nat
    BY FS_CardinalityType DEF CountedIds
  <1>2. NextId \in Nat /\ NextId > IdBase
    BY <1>1 DEF NextId, IdBase
  <1>3. SUFFICES ASSUME NextId \in DOMAIN requests PROVE FALSE
    BY <1>1, <1>2
  <1>4. NextId \notin DOMAIN SeedRequests
    BY <1>2, SeedAssumption DEF IdBase
  <1>5. NextId \in IdBase + 1 .. NextId - 1
    BY <1>3, <1>4 DEF CountedIds, GeneratedIds
  <1>6. QED
    BY <1>2, <1>5

\* Every way a statement, a failure or a crash leaves the requests table.
LEMMA TableSteps ==
    ASSUME [ServerNext \/ StatementFails]_serverVars
    PROVE  \/ requests' \in {requests, NoRows, SeedRequests}
           \/ DOMAIN requests' = DOMAIN requests
           \/ DOMAIN requests' = DOMAIN requests \cup {NextId}
  <1>1. CASE Statement
    BY <1>1 DEF Statement, InsertRequest, InsertNotification, UpdateStatus, MarkPendingRead,
       InsertDecision, DeleteRequests, DeleteNotifications, ClearRequests, InsertSeedRequests,
       ClearNotifications, InsertSeedNotifications, Put, WithVerdict
  <1>2. CASE ~Statement
    BY <1>2 DEF ServerNext, AcceptSubmit, AcceptDecide, AcceptReset, HandleMarkRead, MarkRead,
       Crash, Boot, StatementFails, serverVars
  <1>3. QED
    BY <1>1, <1>2

LEMMA CountedIdsStep ==
    ASSUME CountedIds, [ServerNext \/ StatementFails]_serverVars
    PROVE  CountedIds'
  <1> DEFINE R == DOMAIN requests
  <1>1. CASE requests' = NoRows
    BY <1>1, NoRowsType DEF CountedIds, GeneratedIds
  <1>2. CASE requests' = SeedRequests
    BY <1>2, SeedAssumption DEF CountedIds, GeneratedIds
  <1>3. CASE DOMAIN requests' = R
    BY <1>3 DEF CountedIds, GeneratedIds, NextId
  <1>4. CASE DOMAIN requests' = R \cup {NextId}
    <2>1. /\ Cardinality(R) \in Nat /\ NextId \in Nat
          /\ NextId > IdBase /\ NextId \notin R
      BY CountedIdIsFresh
    <2>2. IsFiniteSet(R \cup {NextId}) /\ Cardinality(R \cup {NextId}) = Cardinality(R) + 1
      BY <2>1, FS_AddElement DEF CountedIds
    <2>3. NextId' = NextId + 1
      BY <1>4, <2>1, <2>2 DEF NextId, IdBase
    <2>4. SUFFICES ASSUME NEW r \in (R \cup {NextId}) \ DOMAIN SeedRequests
                   PROVE  r \in IdBase + 1 .. NextId' - 1
      BY <1>4, <2>2 DEF CountedIds, GeneratedIds
    <2>5. CASE r = NextId
      BY <2>1, <2>3, <2>5 DEF IdBase
    <2>6. CASE r \in R
      <3>1. r \in IdBase + 1 .. NextId - 1
        BY <2>4, <2>6 DEF CountedIds, GeneratedIds
      <3>2. QED
        BY <2>1, <2>3, <3>1 DEF IdBase
    <2>7. QED
      BY <2>4, <2>5, <2>6
  <1>5. QED
    BY <1>1, <1>2, <1>3, <1>4, TableSteps

\* Whatever fails, crashes or is reset half-way, the INSERT of a submitted
\* request never finds its key taken.
THEOREM InsertNeverConflicts == FaultySpec => []RequestInsertNeverConflicts
  <1>1. ServerInit => CountedIds
    BY SeedAssumption DEF ServerInit, Init, CountedIds, GeneratedIds
  <1>2. CountedIds /\ [ServerNext \/ StatementFails]_serverVars => CountedIds'
    BY CountedIdsStep
  <1>3. CountedIds => RequestInsertNeverConflicts
    BY CountedIdIsFresh DEF RequestInsertNeverConflicts
  <1>4. QED
    BY <1>1, <1>2, <1>3, PTL DEF FaultySpec

\* A notice of a decision is about a request in the table that is decided.
NoticesBacked ==
    \A r, v : v \in Verdicts /\ DecisionId(v, r) \in DOMAIN notifications =>
                  r \in DOMAIN requests /\ requests[r].status \in Verdicts

\* The running handler, whatever has failed before it.
JobShape ==
    /\ job.op \in {"idle", "submit", "decide", "reset", "boot", "down"}
    /\ job.op = "down" => job = Down
    /\ job.op = "submit" => job \in [op : {"submit"}, driver : Drivers, id : Nat,
                                     at : {"insert_request", "insert_notification"}]
    /\ job.op = "decide" => job \in DecideJob
    /\ Seeding => job \in SeedJob

\* What is left when the running statement fails.
FaultInv ==
    /\ CountedIds /\ JobShape /\ requests \in [DOMAIN requests -> Request]
    /\ Live /\ ~torn => NoticesBacked
    /\ job.op = "decide" /\ job.at # "update_status" =>
           job.id \in DOMAIN requests /\ requests[job.id].status \in Verdicts
    /\ job.op = "reset" /\ job.at \notin {"delete_requests", "delete_notifications"} =>
           notifications = NoRows
    /\ Seeding /\ job.at = "insert_notifications" => notifications = NoRows

LEMMA DecisionKeysDiffer ==
    ASSUME NEW r, NEW q, NEW v \in Verdicts, NEW w \in Verdicts
    PROVE  /\ DecisionId(v, r) # PendingId(q)
           /\ DecisionId(v, r) = DecisionId(w, q) => r = q
           /\ DecisionId(v, r) \notin DOMAIN SeedNotifications
           /\ DecisionId(v, r) \notin DOMAIN NoRows
BY SeedAssumption, NoRowsType DEF DecisionId, PendingId

LEMMA FaultInitInv == ServerInit => FaultInv
BY SeedAssumption, DecisionKeysDiffer
   DEF ServerInit, Init, FaultInv, CountedIds, GeneratedIds, JobShape, NoticesBacked, Idle, Seeding

\* Handlers that decide, mark or submit add no notice before its decision.
LEMMA HandlersKeepNotices ==
    ASSUME FaultInv, ~torn, NoticesBacked,
           \/ InsertRequest \/ InsertNotification
           \/ UpdateStatus \/ MarkPendingRead \/ InsertDecision
           \/ \E n \in DOMAIN notifications : HandleMarkRead(n)
    PROVE  NoticesBacked'
<1>1. requests \in [DOMAIN requests -> Request] /\ JobShape
  BY DEF FaultInv
<1>2. CASE InsertRequest
  <2>1. NextId \notin DOMAIN requests
    BY CountedIdIsFresh DEF FaultInv
  <2>2. /\ notifications' = notifications
        /\ \A r \in DOMAIN requests : r \in DOMAIN requests' /\ requests'[r] = requests[r]
    BY <1>2, <2>1 DEF InsertRequest, Put
  <2> QED
    BY <2>2 DEF NoticesBacked
<1>3. CASE InsertNotification
  <2>1. /\ requests' = requests
        /\ DOMAIN notifications' \subseteq DOMAIN notifications \cup {PendingId(job.id)}
    BY <1>3 DEF InsertNotification, Put
  <2> QED
    BY <2>1, DecisionKeysDiffer DEF NoticesBacked
<1>4. CASE UpdateStatus
  <2>1. job.op = "decide" /\ job.verdict \in Verdicts /\ job.reply \in Replies
    BY <1>1, <1>4 DEF UpdateStatus, At, JobShape, DecideJob
  <2>2. /\ notifications' = notifications /\ DOMAIN requests' = DOMAIN requests
        /\ \A r \in DOMAIN requests :
               requests'[r].status \in {requests[r].status, job.verdict}
    BY <1>1, <1>4, <2>1 DEF UpdateStatus, WithVerdict, Request
  <2> QED
    BY <2>1, <2>2 DEF NoticesBacked
<1>5. CASE MarkPendingRead \/ \E n \in DOMAIN notifications : HandleMarkRead(n)
  <2>1. requests' = requests /\ DOMAIN notifications' = DOMAIN notifications
    BY <1>5 DEF MarkPendingRead, HandleMarkRead, MarkRead, WithPendingRead
  <2> QED
    BY <2>1 DEF NoticesBacked
<1>6. CASE InsertDecision
  <2>1. /\ job.id \in DOMAIN requests /\ requests[job.id].status \in Verdicts
        /\ job.verdict \in Verdicts
    BY <1>1, <1>6 DEF InsertDecision, At, FaultInv, JobShape, DecideJob
  <2>2. /\ requests' = requests
        /\ DOMAIN notifications' = DOMAIN notifications \cup {DecisionId(job.verdict, job.id)}
    BY <1>6 DEF InsertDecision, Put
  <2> QED
    BY <2>1, <2>2, DecisionKeysDiffer DEF NoticesBacked
<1> QED
  BY <1>2, <1>3, <1>4, <1>5, <1>6

LEMMA FaultRows ==
    ASSUME FaultInv, [ServerNext \/ StatementFails]_serverVars
    PROVE  CountedIds' /\ JobShape' /\ requests' \in [DOMAIN requests' -> Request]
<1>1. CountedIds'
  BY CountedIdsStep DEF FaultInv
<1>2. JobShape'
  <2>1. CASE Statement
    <3>1. CASE InsertRequest
      <4>1. NextId \in Nat
        BY CountedIdIsFresh DEF FaultInv
      <4>2. job \in [op : {"submit"}, driver : Drivers, id : Nat,
                     at : {"insert_request", "insert_notification"}]
        BY <3>1 DEF FaultInv, JobShape, InsertRequest, At
      <4>3. \/ job' = Idle
            \/ job' = [job EXCEPT !.id = NextId, !.at = "insert_notification"]
        BY <3>1 DEF InsertRequest
      <4>4. CASE job' = Idle
        BY <4>4 DEF JobShape, Seeding, Idle
      <4>5. CASE job' = [job EXCEPT !.id = NextId, !.at = "insert_notification"]
        <5>1. job' \in [op : {"submit"}, driver : Drivers, id : Nat,
                        at : {"insert_request", "insert_notification"}]
          BY <4>1, <4>2, <4>5
        <5> QED
          BY <5>1 DEF JobShape, Seeding
      <4> QED
        BY <4>3, <4>4, <4>5
    <3>2. CASE UpdateStatus \/ MarkPendingRead
      BY <3>2 DEF FaultInv, JobShape, UpdateStatus, MarkPendingRead, At, GoTo, Seeding, Idle,
         DecideJob
    <3>3. CASE DeleteRequests \/ DeleteNotifications \/ ClearRequests \/ InsertSeedRequests
               \/ ClearNotifications
      <4>1. Seeding /\ job \in SeedJob
        BY <3>3 DEF FaultInv, JobShape, DeleteRequests, DeleteNotifications, ClearRequests,
           InsertSeedRequests, ClearNotifications, At, Seeding
      <4>2. job' \in SeedJob
        BY <3>3, <4>1 DEF DeleteRequests, DeleteNotifications, ClearRequests,
           InsertSeedRequests, ClearNotifications, GoTo, SeedJob
      <4> QED
        BY <4>2 DEF SeedJob, JobShape
    <3>4. CASE InsertNotification \/ InsertDecision \/ InsertSeedNotifications
      BY <3>4 DEF JobShape, InsertNotification, InsertDecision, InsertSeedNotifications,
         Seeding, Idle
    <3> QED
      BY <2>1, <3>1, <3>2, <3>3, <3>4 DEF Statement
  <2>2. CASE ~Statement
    BY <2>2 DEF FaultInv, JobShape, ServerNext, AcceptSubmit, AcceptDecide, AcceptReset,
       HandleMarkRead, Crash, Boot, StatementFails, serverVars, Seeding, Idle, Down,
       DecideJob, SeedJob
  <2> QED
    BY <2>1, <2>2
<1>3. requests' \in [DOMAIN requests' -> Request]
  <2>1. requests \in [DOMAIN requests -> Request] /\ JobShape
    BY DEF FaultInv
  <2>2. CASE InsertRequest
    <3>1. [driver |-> job.driver, status |-> "PENDING", reply |-> NoReply] \in Request
      BY <2>1, <2>2 DEF InsertRequest, At, JobShape, Request
    <3> QED
      BY <2>1, <2>2, <3>1 DEF InsertRequest, Put
  <2>3. CASE UpdateStatus
    <3>1. job.verdict \in Verdicts /\ job.reply \in Replies
      BY <2>1, <2>3 DEF UpdateStatus, At, JobShape, DecideJob
    <3>2. \A k \in DOMAIN requests :
              [requests[k] EXCEPT !.status = job.verdict, !.reply = job.reply] \in Request
      BY <2>1, <3>1 DEF Request
    <3>3. requests' = WithVerdict(requests, job.id, job.verdict, job.reply)
      BY <2>3 DEF UpdateStatus
    <3> QED
      BY <2>1, <3>2, <3>3 DEF WithVerdict
  <2>4. CASE ~InsertRequest /\ ~UpdateStatus
    <3>1. requests' \in {requests, NoRows, SeedRequests}
      BY <2>4 DEF ServerNext, Statement, InsertNotification, MarkPendingRead, InsertDecision,
         DeleteRequests, DeleteNotifications, ClearRequests, InsertSeedRequests,
         ClearNotifications, InsertSeedNotifications, AcceptSubmit, AcceptDecide, AcceptReset,
         HandleMarkRead, MarkRead, Crash, Boot, StatementFails, serverVars
    <3> QED
      BY <2>1, <3>1, NoRowsType, SeedAssumption
  <2> QED
    BY <2>2, <2>3, <2>4
<1> QED
  BY <1>1, <1>2, <1>3

LEMMA FaultStep ==
    ASSUME FaultInv, [ServerNext \/ StatementFails]_serverVars
    PROVE  FaultInv'
<1> DEFINE Told == Live /\ ~torn => NoticesBacked
           Decided == job.op = "decide" /\ job.at # "update_status" =>
                          job.id \in DOMAIN requests /\ requests[job.id].status \in Verdicts
           Emptied == job.op = "reset" /\ job.at \notin {"delete_requests", "delete_notifications"} =>
                          notifications = NoRows
           Filled == Seeding /\ job.at = "insert_notifications" => notifications = NoRows
<1>1. CountedIds' /\ JobShape' /\ requests' \in [DOMAIN requests' -> Request]
  BY FaultRows
<1>2. JobShape /\ Told /\ Decided /\ Emptied /\ Filled
  BY DEF FaultInv
<1>3. ASSUME Told', Decided', Emptied', Filled'
      PROVE  FaultInv'
  BY <1>1, <1>3 DEF FaultInv
<1>4. CASE InsertRequest \/ InsertNotification \/ InsertDecision
  <2>1. job.op \in {"submit", "decide"} /\ torn' = torn
    BY <1>4 DEF InsertRequest, InsertNotification, InsertDecision, At
  <2>2. job'.op \in {"idle", "submit"}
    <3>1. job' = Idle \/ job' = [job EXCEPT !.id = NextId, !.at = "insert_notification"]
      BY <1>4 DEF InsertRequest, InsertNotification, InsertDecision
    <3>2. CASE job' = Idle
      BY <3>2 DEF Idle
    <3>3. CASE InsertRequest
      <4>1. job \in [op : {"submit"}, driver : Drivers, id : Nat,
                     at : {"insert_request", "insert_notification"}]
        BY <1>2, <3>3 DEF JobShape, InsertRequest, At
      <4>2. CASE job' = [job EXCEPT !.id = NextId, !.at = "insert_notification"]
        BY <4>1, <4>2
      <4> QED
        BY <3>1, <3>2, <4>2
    <3> QED
      BY <1>4, <3>2, <3>3 DEF InsertNotification, InsertDecision
  <2> QED
    <3>1. Told'
      BY <1>2, <1>4, <2>1, HandlersKeepNotices DEF Live
    <3> QED
      BY <1>3, <2>2, <3>1 DEF Seeding
<1>5. CASE UpdateStatus \/ MarkPendingRead
  <2>1. job \in DecideJob /\ job.op = "decide" /\ torn' = torn
    BY <1>2, <1>5 DEF UpdateStatus, MarkPendingRead, At, JobShape
  <2>2. /\ job'.op \in {"idle", "decide"}
        /\ job'.op = "decide" => /\ job'.id = job.id /\ job.id \in DOMAIN requests
                                 /\ MarkPendingRead => job.at # "update_status"
    BY <1>2, <1>5, <2>1 DEF UpdateStatus, MarkPendingRead, At, GoTo, Idle, DecideJob
  <2>3. Decided'
    <3>1. CASE UpdateStatus
      BY <2>1, <2>2, <3>1 DEF UpdateStatus, WithVerdict, FaultInv, Request, DecideJob
    <3>2. CASE MarkPendingRead
      BY <1>2, <2>1, <2>2, <3>2 DEF MarkPendingRead
    <3> QED
      BY <1>5, <3>1, <3>2
  <2> QED
    BY <1>2, <1>3, <1>5, <2>1, <2>2, <2>3, HandlersKeepNotices DEF Live, Seeding
<1>6. CASE DeleteRequests \/ DeleteNotifications \/ ClearRequests \/ InsertSeedRequests
           \/ ClearNotifications
  <2>1. /\ Seeding /\ job \in SeedJob /\ job' \in SeedJob /\ job'.op = job.op
        /\ job'.at # "delete_requests"
    BY <1>2, <1>6 DEF JobShape, DeleteRequests, DeleteNotifications, ClearRequests,
       InsertSeedRequests, ClearNotifications, At, Seeding, GoTo, SeedJob
  <2>2. Told' /\ Decided'
    BY <2>1 DEF Live, At, Seeding
  <2>3. Emptied' /\ Filled'
    BY <1>2, <1>6, <2>1 DEF DeleteRequests, DeleteNotifications, ClearRequests,
       InsertSeedRequests, ClearNotifications, GoTo, SeedJob, At, Seeding
  <2> QED
    BY <1>3, <2>2, <2>3
<1>7. CASE InsertSeedNotifications
  <2>1. job' = Idle /\ notifications' = SeedNotifications
    BY <1>7 DEF InsertSeedNotifications
  <2>2. NoticesBacked'
    BY <2>1, DecisionKeysDiffer DEF NoticesBacked
  <2> QED
    BY <1>3, <2>1, <2>2 DEF Idle, Seeding
<1>8. CASE (\E d \in Drivers : AcceptSubmit(d)) \/ AcceptReset
           \/ \E r \in RequestIds, v \in Verdicts, t \in Replies : AcceptDecide(r, v, t)
  <2>1. /\ job = Idle /\ UNCHANGED <<requests, notifications, torn>>
        /\ \/ job'.op = "submit"
           \/ job'.op = "decide" /\ job'.at = "update_status"
           \/ job'.op = "reset" /\ job'.at = "delete_requests"
    BY <1>8 DEF AcceptSubmit, AcceptDecide, AcceptReset
  <2>2. Told'
    BY <1>2, <2>1 DEF Live, Idle, NoticesBacked
  <2> QED
    BY <1>3, <2>1, <2>2 DEF Seeding
<1>9. CASE \E n \in DOMAIN notifications : HandleMarkRead(n)
  <2>1. job = Idle /\ job' = Idle /\ torn' = torn
    BY <1>9 DEF HandleMarkRead
  <2> QED
    BY <1>2, <1>3, <1>9, <2>1, HandlersKeepNotices DEF Live, Idle, Seeding
<1>10. CASE Crash \/ Boot
  <2>1. job'.op = "down" \/ (job'.op = "boot" /\ job'.at = "clear_requests")
    BY <1>10 DEF Crash, Boot, Down
  <2> QED
    BY <1>3, <2>1 DEF Live, At, Seeding
<1>11. CASE StatementFails
  <2>1. /\ UNCHANGED <<requests, notifications>> /\ job'.op \in {"idle", "down"}
        /\ job.op = "boot" => job'.op = "down"
        /\ torn' = (torn \/ At("reset", "delete_notifications"))
        /\ job # Down
    BY <1>11 DEF StatementFails, Idle, Down
  <2>2. NoticesBacked => NoticesBacked'
    BY <2>1 DEF NoticesBacked
  <2>3. Told'
    <3>1. CASE Live
      BY <1>2, <2>1, <2>2, <3>1
    <3>2. CASE job.op = "reset" /\ ~Live
      <4>1. ~torn' => notifications = NoRows
        BY <1>2, <2>1, <3>2 DEF Live, At
      <4>2. notifications = NoRows => NoticesBacked
        BY DecisionKeysDiffer DEF NoticesBacked
      <4> QED
        BY <2>2, <4>1, <4>2
    <3>3. CASE job.op = "boot"
      BY <2>1, <3>3 DEF Live, At
    <3> QED
      BY <1>2, <2>1, <3>1, <3>2, <3>3 DEF Live, JobShape
  <2> QED
    BY <1>3, <2>1, <2>3 DEF Seeding
<1>12. CASE UNCHANGED serverVars
  BY <1>2, <1>3, <1>12 DEF serverVars, Live, At, NoticesBacked, Seeding
<1> QED
  BY <1>4, <1>5, <1>6, <1>7, <1>8, <1>9, <1>10, <1>11, <1>12 DEF ServerNext, Statement

\* Whatever fails, crashes or is reset half-way (a reset torn between its two
\* DELETEs apart), no driver reads of a decision that was not made.
THEOREM NothingUnmadeIsTold == FaultySpec => []NoNoticeOfUnmadeDecision
  <1>1. ServerInit => FaultInv
    BY FaultInitInv
  <1>2. FaultInv /\ [ServerNext \/ StatementFails]_serverVars => FaultInv'
    BY FaultStep
  <1>3. FaultInv => NoNoticeOfUnmadeDecision
    BY DEF FaultInv, NoNoticeOfUnmadeDecision, NoPrematureNotice, NoticesBacked, Live
  <1>4. QED
    BY <1>1, <1>2, <1>3, PTL DEF FaultySpec

\* Outside seeding no step takes a decision back.
LEMMA DecisionStaysDecided ==
    ASSUME ServerInv, [ServerNext]_serverVars,
           NEW r \in DOMAIN requests, requests[r].status \in Verdicts,
           r \in DOMAIN requests', requests'[r].status = "PENDING"
    PROVE  At("boot", "insert_requests") \/ At("reset", "insert_requests")
<1>1. "PENDING" \notin Verdicts
  BY DEF Verdicts
<1>2. CASE InsertRequest
  <2>1. NextId \notin DOMAIN requests
    BY <1>2, LiveIdIsFresh DEF ServerInv, InsertRequest, At, Live
  <2> QED
    BY <1>1, <1>2, <2>1 DEF InsertRequest, Put
<1>3. CASE UpdateStatus
  <2>1. job.verdict \in Verdicts
    BY <1>3, JobKinds DEF ServerInv, ServerTypeOK, UpdateStatus, At, DecideJob
  <2> QED
    BY <1>1, <1>3, <2>1 DEF UpdateStatus, WithVerdict, ServerInv, ServerTypeOK, Request
<1>4. CASE InsertSeedRequests
  BY <1>4 DEF InsertSeedRequests, Seeding, At
<1>5. CASE ~InsertRequest /\ ~UpdateStatus /\ ~InsertSeedRequests
  <2>1. requests' \in {requests, NoRows}
    BY <1>5 DEF ServerNext, Statement, InsertNotification, MarkPendingRead, InsertDecision,
       DeleteRequests, DeleteNotifications, ClearRequests, ClearNotifications,
       InsertSeedNotifications, AcceptSubmit, AcceptDecide, AcceptReset, HandleMarkRead,
       MarkRead, Crash, Boot, serverVars
  <2> QED
    BY <1>1, <2>1 DEF NoRows
<1> QED
  BY <1>2, <1>3, <1>4, <1>5

\* A decided request is pending again only by the seeding of a reset or a
\* restart, for any number of requests, decisions and crashes.
THEOREM DecisionsAreFinal == ServerSpec => DecisionsStand
  <1>1. ServerInv /\ [ServerNext]_serverVars =>
            [\A r \in DOMAIN requests :
                /\ requests[r].status \in Verdicts
                /\ r \in DOMAIN requests'
                /\ requests'[r].status = "PENDING"
                => At("boot", "insert_requests") \/ At("reset", "insert_requests")]_serverVars
    BY DecisionStaysDecided
  <1>2. QED
    BY <1>1, ServerInvariant, PTL DEF ServerSpec, DecisionsStand
=============================================================================
