------------------------ MODULE RequestServiceProofs ------------------------
(* Proofs about RequestService for every set of drivers and replies, every *)
(* seed that satisfies SeedAssumption and every bound MaxRequests.         *)
EXTENDS RequestService, FiniteSetTheorems, TLAPS

\* What Put returns: the table with one row added or replaced.
LEMMA PutType ==
    ASSUME NEW S, NEW R, NEW table \in [S -> R], NEW key, NEW row \in R
    PROVE  Put(table, key, row) \in [S \cup {key} -> R]
  BY DEF Put

\* The identifier COUNT(*) yields is fresh: the requests table never holds
\* the key that the submit handler is about to insert.
LEMMA NextIdIsFresh ==
    ASSUME TypeOK, IdsBelowNext
    PROVE  /\ Cardinality(DOMAIN requests) \in Nat
           /\ NextId \in Nat
           /\ NextId \notin DOMAIN requests
  <1>1. Cardinality(DOMAIN requests) \in Nat
    BY FS_CardinalityType DEF TypeOK
  <1>2. NextId \in Nat /\ NextId > IdBase
    BY <1>1 DEF NextId, IdBase
  <1>3. ASSUME NextId \in DOMAIN requests
        PROVE  FALSE
    <2>1. NextId \notin DOMAIN SeedRequests
      BY <1>2, SeedAssumption DEF IdBase
    <2>2. NextId \in IdBase + 1 .. NextId - 1
      BY <1>3, <2>1 DEF IdsBelowNext
    <2>3. QED
      BY <1>2, <2>2
  <1>4. QED
    BY <1>1, <1>2, <1>3

----------------------------------------------------------------------------

\* The seed satisfies the inductive invariant.
LEMMA InitIInv == Init => IInv
  <1> SUFFICES ASSUME Init PROVE IInv
    OBVIOUS
  <1> USE SeedAssumption DEF Init
  <1>1. TypeOK
    <2>1. DOMAIN SeedRequests \subseteq RequestIds
      BY DEF RequestIds
    <2>2. DOMAIN SeedNotifications \subseteq NotificationIds
      BY DEF NotificationIds
    <2>3. QED
      BY <2>1, <2>2 DEF TypeOK
  <1>2. IdsBelowNext
    BY DEF IdsBelowNext
  <1>3. KeysNameRequests
    BY DEF KeysNameRequests
  <1>4. NotificationsBacked
    BY DEF NotificationsBacked
  <1>5. DecisionsAnnounced
    <2> SUFFICES ASSUME NEW r \in DOMAIN requests, requests[r].status \in Verdicts,
                        NEW n \in DOMAIN notifications,
                        notifications[n].type = "REQUEST_PENDING",
                        notifications[n].about = r
                 PROVE  notifications[n].read
      BY DEF DecisionsAnnounced, Untouched, PendingNoticesRead
    <2>1. requests[r].status # "PENDING"
      BY DEF Verdicts
    <2>2. ~ ~notifications[n].read
      BY <2>1
    <2>3. QED
      BY <2>2
  <1>6. NoPrematureNotice
    <2>1. ASSUME NEW v \in Verdicts, NEW r PROVE DecisionId(v, r)[1] # "NOTIF"
      BY DEF DecisionId, Verdicts
    <2>2. QED
      BY <2>1 DEF NoPrematureNotice
  <1>7. QED
    BY <1>1, <1>2, <1>3, <1>4, <1>5, <1>6 DEF IInv

\* The keys of different requests, verdicts and prefixes differ.
LEMMA KeysDiffer ==
    ASSUME NEW r \in Nat, NEW s \in Nat, NEW v \in Verdicts, NEW w \in Verdicts
    PROVE  /\ PendingId(r) \in NotificationIds
           /\ DecisionId(v, r) \in NotificationIds
           /\ PendingId(r)[1] = "NOTIF_REQ" /\ PendingId(r)[2] = r
           /\ DecisionId(v, r)[1] \in {"NOTIFAPP_REQ", "NOTIFREJ_REQ"}
           /\ DecisionId(v, r)[2] = r
           /\ PendingId(r) # DecisionId(w, s)
           /\ DecisionId(v, r) = DecisionId(w, s) => r = s /\ v = w
  BY DEF PendingId, DecisionId, NotificationIds, Verdicts

\* A submitted request brings its own pending notice under fresh keys and
\* leaves every other row alone.
LEMMA SubmitIInv ==
    ASSUME IInv, NEW d \in Drivers, Submit(d)
    PROVE  IInv'
  <1> DEFINE row == [driver |-> d, status |-> "PENDING", reply |-> NoReply]
             note == PendingNotice(d, NextId)
             R == DOMAIN requests
             N == DOMAIN notifications
  <1> USE DEF IInv
  <1>1. /\ NextId \in Nat /\ NextId \notin R /\ Cardinality(R) \in Nat
    BY NextIdIsFresh
  <1>2. /\ NextId \in RequestIds /\ NextId # 0
    BY <1>1, SeedAssumption DEF Submit, NextId, RequestIds, IdBase
  <1>3. /\ row \in Request
        /\ note \in Notification
        /\ note.driver = d /\ note.about = NextId /\ ~note.read
        /\ note.type = "REQUEST_PENDING"
    BY <1>2 DEF Request, Notification, PendingNotice
  <1>4. /\ requests' \in [R \cup {NextId} -> Request]
        /\ requests'[NextId] = row
        /\ \A r \in R : requests'[r] = requests[r]
    <2>1. requests \in [R -> Request]
      BY DEF TypeOK
    <2>2. requests' = Put(requests, NextId, row)
      BY DEF Submit
    <2>3. \A r \in R : r # NextId
      BY <1>1
    <2>4. requests' \in [R \cup {NextId} -> Request]
      BY <1>3, <2>1, <2>2, PutType
    <2>5. QED
      BY <2>2, <2>3, <2>4 DEF Put
  <1>5. /\ notifications' \in [N \cup {PendingId(NextId)} -> Notification]
        /\ notifications'[PendingId(NextId)] = note
        /\ \A n \in N : n # PendingId(NextId) => notifications'[n] = notifications[n]
    <2>1. notifications \in [N -> Notification]
      BY DEF TypeOK
    <2>2. notifications' = Put(notifications, PendingId(NextId), note)
      BY DEF Submit
    <2>3. notifications' \in [N \cup {PendingId(NextId)} -> Notification]
      BY <1>3, <2>1, <2>2, PutType
    <2>4. QED
      BY <2>2, <2>3 DEF Put
  <1>6. PendingId(NextId) \notin N
    BY <1>1 DEF KeysNameRequests, PendingId
  <1>7. TypeOK'
    <2>1. IsFiniteSet(R \cup {NextId})
      BY FS_AddElement DEF TypeOK
    <2>2. PendingId(NextId) \in NotificationIds
      BY <1>1 DEF PendingId, NotificationIds
    <2>3. QED
      BY <1>2, <1>4, <1>5, <2>1, <2>2 DEF TypeOK
  <1>8. IdsBelowNext'
    <2>1. Cardinality(R \cup {NextId}) = Cardinality(R) + 1
      BY <1>1, FS_AddElement DEF TypeOK
    <2>2. NextId' = NextId + 1
      BY <1>1, <1>4, <2>1 DEF NextId, IdBase
    <2>3. NextId >= IdBase + 1
      BY <1>1 DEF NextId, IdBase
    <2>4. /\ DOMAIN requests' = R \cup {NextId}
          /\ \A r \in R \ DOMAIN SeedRequests : r \in IdBase + 1 .. NextId - 1
      BY <1>4 DEF IdsBelowNext
    <2>5. SUFFICES ASSUME NEW r \in (R \cup {NextId}) \ DOMAIN SeedRequests
                   PROVE  r \in IdBase + 1 .. NextId' - 1
      BY <2>4 DEF IdsBelowNext
    <2>6. CASE r = NextId
      BY <1>1, <2>2, <2>3, <2>6 DEF IdBase
    <2>7. CASE r \in R
      <3>1. r \in IdBase + 1 .. NextId - 1
        BY <2>4, <2>5, <2>7
      <3>2. QED
        BY <1>1, <2>2, <3>1 DEF IdBase
    <2>8. QED
      BY <2>5, <2>6, <2>7
  <1>9. KeysNameRequests'
    BY <1>1, <1>3, <1>4, <1>5, <1>6 DEF KeysNameRequests, PendingId
  <1>10. NotificationsBacked'
    BY <1>3, <1>4, <1>5, <1>6 DEF NotificationsBacked
  <1>11. DecisionsAnnounced'
    <2> SUFFICES ASSUME NEW r \in DOMAIN requests', requests'[r].status \in Verdicts
                 PROVE  /\ Untouched(r)' \/ Announced(r)'
                        /\ PendingNoticesRead(r)'
      BY DEF DecisionsAnnounced
    <2>1. r \in R /\ r # NextId /\ requests'[r] = requests[r]
      BY <1>1, <1>4 DEF Verdicts
    <2>5. PendingNoticesRead(r)'
      BY <1>3, <1>5, <2>1 DEF DecisionsAnnounced, PendingNoticesRead
    <2>2. Untouched(r) \/ Announced(r)
      BY <2>1 DEF DecisionsAnnounced
    <2>3. CASE Untouched(r)
      <3>1. Untouched(r)'
        BY <2>1, <2>3 DEF Untouched
      <3>2. QED
        BY <2>5, <3>1
    <2>4. CASE Announced(r)
      <3> DEFINE id == DecisionId(requests[r].status, r)
      <3>1. id # PendingId(NextId)
        BY DEF DecisionId, PendingId
      <3>2. id \in N /\ notifications'[id] = notifications[id] /\ id \in DOMAIN notifications'
        BY <1>5, <2>4, <3>1 DEF Announced
      <3>3. DecisionId(requests'[r].status, r) = id
        BY <2>1
      <3>4. Announced(r)'
        BY <2>1, <2>4, <3>2, <3>3 DEF Announced
      <3>5. QED
        BY <2>5, <3>4
    <2>6. QED
      BY <2>2, <2>3, <2>4, <2>5
  <1>12. NoPrematureNotice'
    <2> SUFFICES ASSUME NEW r \in DOMAIN requests', NEW v \in Verdicts,
                        DecisionId(v, r) \in DOMAIN notifications'
                 PROVE  requests'[r].status \in Verdicts
      BY DEF NoPrematureNotice
    <2>1. DecisionId(v, r) \in N
      BY <1>1, <1>5 DEF DecisionId, PendingId, Verdicts
    <2>2. r \in R
      BY <1>1, <1>4, <2>1 DEF KeysNameRequests, DecisionId, Verdicts
    <2>3. QED
      BY <1>4, <2>1, <2>2 DEF NoPrematureNotice
  <1>13. QED
    BY <1>7, <1>8, <1>9, <1>10, <1>11, <1>12

\* A step that keeps every request but may mark notifications read.
LEMMA ReadingIInv ==
    ASSUME IInv, requests' = requests,
           notifications' \in [DOMAIN notifications -> Notification],
           \A n \in DOMAIN notifications :
              /\ notifications'[n].driver = notifications[n].driver
              /\ notifications'[n].type = notifications[n].type
              /\ notifications'[n].about = notifications[n].about
              /\ notifications'[n].text = notifications[n].text
              /\ notifications[n].read => notifications'[n].read
    PROVE  IInv'
  <1> USE DEF IInv
  <1>1. TypeOK'
    BY DEF TypeOK
  <1>2. IdsBelowNext'
    BY DEF IdsBelowNext, NextId
  <1>3. KeysNameRequests'
    BY DEF KeysNameRequests
  <1>4. NotificationsBacked'
    BY DEF NotificationsBacked
  <1>5. DecisionsAnnounced'
    BY DEF DecisionsAnnounced, Untouched, Announced, PendingNoticesRead
  <1>6. NoPrematureNotice'
    BY DEF NoPrematureNotice
  <1>7. QED
    BY <1>1, <1>2, <1>3, <1>4, <1>5, <1>6

LEMMA MarkReadIInv ==
    ASSUME IInv, NEW n \in DOMAIN notifications, MarkRead(n)
    PROVE  IInv'
  <1>1. notifications \in [DOMAIN notifications -> Notification]
    BY DEF IInv, TypeOK
  <1>2. [notifications[n] EXCEPT !.read = TRUE] \in Notification
    BY <1>1 DEF Notification
  <1>3. notifications' \in [DOMAIN notifications -> Notification]
    BY <1>1, <1>2 DEF MarkRead
  <1>4. \A m \in DOMAIN notifications :
              /\ notifications'[m].driver = notifications[m].driver
              /\ notifications'[m].type = notifications[m].type
              /\ notifications'[m].about = notifications[m].about
              /\ notifications'[m].text = notifications[m].text
              /\ notifications[m].read => notifications'[m].read
    BY <1>1 DEF MarkRead, Notification
  <1>5. QED
    BY <1>3, <1>4, ReadingIInv DEF MarkRead

\* A decision on an existing request writes its verdict, reads its pending
\* notices and leaves one notification with the same verdict and reply.
LEMMA DecideIInv ==
    ASSUME IInv, NEW r \in RequestIds, NEW v \in Verdicts, NEW t \in Replies, Decide(r, v, t)
    PROVE  IInv'
  <1> DEFINE R == DOMAIN requests
             N == DOMAIN notifications
             id == DecisionId(v, r)
             note == DecisionNotice(requests[r].driver, r, v, t)
  <1> USE DEF IInv
  <1>1. CASE r \notin R
    <2>1. requests' = requests
      BY <1>1 DEF Decide, WithVerdict, TypeOK
    <2>2. notifications' = notifications
      BY <1>1 DEF Decide
    <2>3. notifications \in [N -> Notification]
      BY DEF TypeOK
    <2>4. QED
      BY <2>1, <2>2, <2>3, ReadingIInv
  <1>2. CASE r \in R
    <2>1. /\ requests' \in [R -> Request]
          /\ requests'[r].status = v /\ requests'[r].reply = t
          /\ requests'[r].driver = requests[r].driver
          /\ \A s \in R : s # r => requests'[s] = requests[s]
          /\ \A s \in R : requests'[s].driver = requests[s].driver
      BY <1>2 DEF Decide, WithVerdict, TypeOK, Request
    <2>2. /\ note \in Notification
          /\ note.driver = requests[r].driver /\ note.about = r /\ note.text = t
          /\ note.type # "REQUEST_PENDING"
      BY <1>2 DEF DecisionNotice, Notification, TypeOK, Request, Verdicts
    <2>3. PICK marked : marked = WithPendingRead(notifications, r)
      OBVIOUS
    <2>4. /\ marked \in [N -> Notification]
           /\ \A n \in N :
                 /\ marked[n].driver = notifications[n].driver
                 /\ marked[n].type = notifications[n].type
                 /\ marked[n].about = notifications[n].about
                 /\ marked[n].text = notifications[n].text
                 /\ notifications[n].read => marked[n].read
                 /\ marked[n].type = "REQUEST_PENDING" /\ marked[n].about = r =>
                       marked[n].read
      BY <2>3 DEF WithPendingRead, TypeOK, Notification
    <2>5. notifications' = Put(marked, id, note)
      BY <1>2, <2>3 DEF Decide, Announce
    <2> HIDE DEF note, id
    <2>6. /\ notifications' \in [N \cup {id} -> Notification]
          /\ notifications'[id] = note
          /\ \A n \in N : n # id => notifications'[n] = marked[n]
      BY <2>2, <2>4, <2>5 DEF Put
    <2>7. /\ R \subseteq Nat
          /\ id[2] = r /\ id[1] # "NOTIF" /\ id \in NotificationIds
      <3>1. RequestIds \subseteq Nat
        BY SeedAssumption DEF RequestIds, IdBase
      <3>2. R \subseteq Nat /\ r \in Nat
        BY <1>2, <3>1 DEF TypeOK
      <3>3. QED
        BY <3>2 DEF id, DecisionId, NotificationIds
    <2>8. ASSUME NEW n \in N, n # id
           PROVE  /\ n \in DOMAIN notifications'
                  /\ notifications'[n].driver = notifications[n].driver
                  /\ notifications'[n].type = notifications[n].type
                  /\ notifications'[n].about = notifications[n].about
                  /\ notifications'[n].text = notifications[n].text
                  /\ notifications[n].read => notifications'[n].read
                  /\ notifications'[n].type = "REQUEST_PENDING" /\ notifications'[n].about = r =>
                        notifications'[n].read
      BY <2>6, <2>8, <2>4
    <2>9. TypeOK'
      BY <2>1, <2>6, <2>7 DEF TypeOK
    <2>10. IdsBelowNext'
      BY <2>1 DEF IdsBelowNext, NextId
    <2>11. KeysNameRequests'
      BY <1>2, <2>1, <2>2, <2>6, <2>7, <2>8 DEF KeysNameRequests
    <2>12. NotificationsBacked'
      BY <1>2, <2>1, <2>2, <2>6, <2>8 DEF NotificationsBacked
    <2>13. DecisionsAnnounced'
      <3> SUFFICES ASSUME NEW s \in R, requests'[s].status \in Verdicts
                   PROVE  /\ Untouched(s)' \/ Announced(s)'
                          /\ PendingNoticesRead(s)'
        BY <2>1 DEF DecisionsAnnounced
      <3>1. CASE s = r
        <4>1. Announced(r)'
          BY <1>2, <2>1, <2>2, <2>6 DEF Announced, id
        <4>2. PendingNoticesRead(r)'
          BY <2>2, <2>6, <2>8 DEF PendingNoticesRead
        <4>3. QED
          BY <3>1, <4>1, <4>2
      <3>2. CASE s # r
        <4>1. requests'[s] = requests[s]
          BY <2>1, <3>2
        <4>2. PendingNoticesRead(s)'
          BY <2>2, <2>6, <2>8, <4>1 DEF DecisionsAnnounced, PendingNoticesRead
        <4>3. CASE Untouched(s)
          <5>1. Untouched(s)'
            BY <4>1, <4>3 DEF Untouched
          <5>2. QED
            BY <4>2, <5>1
        <4>4. CASE Announced(s)
          <5> DEFINE other == DecisionId(requests[s].status, s)
          <5>1. other # id
            BY <2>7, <3>2 DEF DecisionId, id
          <5>2. /\ other \in N
                /\ notifications[other].about = s
                /\ notifications[other].text = requests[s].reply
            BY <4>4 DEF Announced
          <5> HIDE DEF other
          <5>3. /\ other \in DOMAIN notifications'
                /\ notifications'[other].about = s
                /\ notifications'[other].text = requests'[s].reply
            BY <2>8, <4>1, <5>1, <5>2
          <5>4. DecisionId(requests'[s].status, s) = other
            BY <4>1 DEF other
          <5>5. Announced(s)'
            BY <5>3, <5>4 DEF Announced
          <5>6. QED
            BY <4>2, <5>5
        <4>5. QED
          BY <4>1, <4>3, <4>4 DEF DecisionsAnnounced
      <3>3. QED
        BY <3>1, <3>2
    <2>14. NoPrematureNotice'
      <3> SUFFICES ASSUME NEW s \in R, NEW w \in Verdicts,
                          DecisionId(w, s) \in DOMAIN notifications'
                   PROVE  requests'[s].status \in Verdicts
        BY <2>1 DEF NoPrematureNotice
      <3>1. CASE s = r
        BY <2>1, <3>1
      <3>2. CASE s # r
        <4>1. DecisionId(w, s) # id
          BY <2>7, <3>2 DEF DecisionId, id
        <4>2. QED
          BY <2>1, <2>6, <3>2, <4>1 DEF NoPrematureNotice
      <3>3. QED
        BY <3>1, <3>2
    <2>15. QED
      BY <2>9, <2>10, <2>11, <2>12, <2>13, <2>14
  <1>3. QED
    BY <1>1, <1>2

\* A reset re-establishes the initial state, and with it the invariant.
LEMMA ResetIInv == Reset => IInv'
  <1>1. Reset => Init'
    BY DEF Reset, Init
  <1>2. QED
    BY <1>1, InitIInv, PTL

----------------------------------------------------------------------------

\* Every step of every handler preserves the invariant.
LEMMA NextIInv == IInv /\ [Next]_vars => IInv'
  <1> SUFFICES ASSUME IInv, [Next]_vars PROVE IInv'
    OBVIOUS
  <1>1. ASSUME NEW d \in Drivers, Submit(d) PROVE IInv'
    BY <1>1, SubmitIInv
  <1>2. ASSUME NEW r \in RequestIds, NEW v \in Verdicts, NEW t \in Replies, Decide(r, v, t)
        PROVE  IInv'
    BY <1>2, DecideIInv
  <1>3. ASSUME NEW n \in DOMAIN notifications, MarkRead(n) PROVE IInv'
    BY <1>3, MarkReadIInv
  <1>4. CASE Reset
    BY <1>4, ResetIInv
  <1>5. CASE UNCHANGED vars
    <2>1. /\ requests' = requests
          /\ notifications' = notifications
          /\ notifications \in [DOMAIN notifications -> Notification]
      BY <1>5 DEF vars, IInv, TypeOK
    <2>2. QED
      BY <2>1, ReadingIInv
  <1>6. QED
    BY <1>1, <1>2, <1>3, <1>4, <1>5 DEF Next

THEOREM Invariant == Spec => []IInv
  BY InitIInv, NextIInv, PTL DEF Spec

\* Type correctness of both tables, whatever is submitted and decided.
THEOREM TypeCorrect == Spec => []TypeOK
  <1>1. IInv => TypeOK
    BY DEF IInv
  <1>2. QED
    BY <1>1, Invariant, PTL

\* The id that the submit handler derives from COUNT(*) is always free, in
\* driver_requests and, with its prefix, in notifications.
THEOREM SubmitIsFresh == Spec => []FreshIds
  <1>1. IInv => FreshIds
    BY NextIdIsFresh DEF IInv, FreshIds, KeysNameRequests, PendingId
  <1>2. QED
    BY <1>1, Invariant, PTL

\* Every notification about a request has its request, of the same driver.
THEOREM NoDanglingNotice == Spec => []NotificationsBacked
  <1>1. IInv => NotificationsBacked
    BY DEF IInv
  <1>2. QED
    BY <1>1, Invariant, PTL

\* Every decision has been announced with its verdict and reply.
THEOREM EveryDecisionAnnounced == Spec => []DecisionsAnnounced
  <1>1. IInv => DecisionsAnnounced
    BY DEF IInv
  <1>2. QED
    BY <1>1, Invariant, PTL

\* No approval or rejection is announced for a request still pending.
THEOREM NoNoticeBeforeDecision == Spec => []NoPrematureNotice
  <1>1. IInv => NoPrematureNotice
    BY DEF IInv
  <1>2. QED
    BY <1>1, Invariant, PTL
=============================================================================
