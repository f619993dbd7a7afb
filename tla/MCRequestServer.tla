--------------------------- MODULE MCRequestServer ---------------------------
(* A small instance of RequestServer.  The seed holds a decided request    *)
(* that never had a notice (REQ003) and, when WithPendingSeed, a pending   *)
(* one with its unread notice (REQ006, NOTIF006).                          *)
EXTENDS RequestServer

CONSTANTS d1, d2, text, WithPendingSeed

MCDrivers == {d1, d2}

MCOneDriver == {d1}

MCReplies == {text}

MCSeedRequests ==
    [r \in {3} \cup (IF WithPendingSeed THEN {6} ELSE {}) |->
        IF r = 3 THEN [driver |-> d1, status |-> "APPROVED", reply |-> text]
                 ELSE [driver |-> d2, status |-> "PENDING", reply |-> NoReply]]

MCSeedNotifications ==
    [n \in {<<"NOTIF", r>> : r \in {6} \cap DOMAIN MCSeedRequests} |-> PendingNotice(d2, n[2])]
=============================================================================
