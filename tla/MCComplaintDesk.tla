-------------------------- MODULE MCComplaintDesk --------------------------
(* An instance of ComplaintDesk for TLC: one request and the job.           *)
EXTENDS ComplaintDesk
=============================================================================
