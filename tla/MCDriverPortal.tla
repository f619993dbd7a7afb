--------------------------- MODULE MCDriverPortal ---------------------------
(* A small instance of DriverPortal: a seeded request that waits for a     *)
(* decision, of one of two drivers.                                        *)
EXTENDS DriverPortal

CONSTANTS d1, d2, text

MCDrivers == {d1, d2}

MCOneDriver == {d1}

MCReplies == {text}

MCSeedRequests == [r \in {6} |-> [driver |-> d1, status |-> "PENDING", reply |-> NoReply]]

MCSeedNotifications == [n \in {<<"NOTIF", 6>>} |-> PendingNotice(d1, 6)]
=============================================================================
