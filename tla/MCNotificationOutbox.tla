----------------------- MODULE MCNotificationOutbox -------------------------
(* Two notifications, two dispatchers and one bid.                           *)
EXTENDS NotificationOutbox

CONSTANTS n1, n2, w1, w2, b1

MCMaxRetries == [n \in Notifications |-> IF n = n1 THEN 1 ELSE 0]
=============================================================================
