---------------------------- MODULE MCMailSupply ----------------------------
(* An instance of MailSupply for TLC: two requests, which are alike; three   *)
(* messages, one to a page, two pages to a run; the last two are the         *)
(* pilot's.                                                                  *)
EXTENDS MailSupply, TLC

MCPair == [initial |-> 2, followUp |-> 3]
Interchangeable == Permutations(Requests)
=============================================================================
