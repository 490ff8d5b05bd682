--------------------------- MODULE MCSmsDelivery ---------------------------
(* Instances of SmsDelivery for TLC: r1, r2 are requests, h1, h2 handlers,   *)
(* a1 an alert and t1 a test notification.                                   *)
EXTENDS SmsDelivery, TLC

\* Requests and handlers are interchangeable (not used where liveness is checked).
Interchangeable == Permutations(Requests) \cup Permutations(Handlers)
=============================================================================
