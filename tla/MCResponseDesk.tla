--------------------------- MODULE MCResponseDesk ---------------------------
(* An instance of ResponseDesk for TLC: two people, two rows, one review     *)
(* item, and a table that takes the values the code writes.                  *)
EXTENDS ResponseDesk

CodeStates == States \cup {"SEND_BLOCKED"}
CodeKinds == {"ACKNOWLEDGMENT", "SUBSTANTIVE_RESPONSE"}
CodeContents == {"draft-body"}
=============================================================================
