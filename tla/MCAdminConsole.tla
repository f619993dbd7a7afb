--------------------------- MODULE MCAdminConsole ---------------------------
(* Small instances of AdminConsole: one seeded pending request and one that *)
(* a driver may submit.                                                     *)
EXTENDS AdminConsole

CONSTANTS d1, d2, text

MCDrivers == {d1, d2}

MCOneDriver == {d1}

MCReplies == {text}

MCSeedRequests == [r \in {6} |-> [driver |-> d1, status |-> "PENDING", reply |-> NoReply]]

MCSeedNotifications == [n \in {<<"NOTIF", 6>>} |-> PendingNotice(d1, 6)]
=============================================================================
