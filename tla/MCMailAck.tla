----------------------------- MODULE MCMailAck -----------------------------
(* An instance of MailAck for TLC: two jobs, and mail that is all of one     *)
(* complaint.                                                                *)
EXTENDS MailAck

CONSTANT c1

OneCase == [m \in Messages |-> c1]
=============================================================================
