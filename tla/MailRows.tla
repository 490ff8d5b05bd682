------------------------------ MODULE MailRows ------------------------------
(***************************************************************************)
(* What the acknowledgment of a complaint can see of the mail intake: that *)
(* the complaint of a case exists, and that the gmail_messages row of a    *)
(* message names its complaint, with is_follow_up 0 or 1.  A complaint may *)
(* be there before a row names it, a row that named it as its initial      *)
(* message may turn into a follow-up (a retry finds its own complaint),    *)
(* and nothing is ever taken back.                                         *)
(*                                                                         *)
(* MailIntake implements this specification; the jobs of MailAck run       *)
(* beside any number of its steps.                                         *)
(***************************************************************************)
CONSTANTS
  Messages,   \* mail that shows a case id
  Cases,
  CaseOf      \* the case of each message

VARIABLES
  known,      \* [Cases -> BOOLEAN]: there is a complaint of the case
  source      \* [Messages -> "NONE", "INITIAL" or "FOLLOW_UP"]

vars == <<known, source>>

Init ==
  /\ known = [c \in Cases |-> FALSE]
  /\ source = [m \in Messages |-> "NONE"]

\* persistState with the complaint of a new case.
Open(m) ==
  /\ ~known[CaseOf[m]]
  /\ known' = [known EXCEPT ![CaseOf[m]] = TRUE]
  /\ UNCHANGED source

\* The row of a message names its complaint, is_follow_up=0.
Name(m) ==
  /\ known[CaseOf[m]]
  /\ source[m] = "NONE"
  /\ source' = [source EXCEPT ![m] = "INITIAL"]
  /\ UNCHANGED known

\* The batch of a follow-up: is_follow_up=1.
Follow(m) ==
  /\ known[CaseOf[m]]
  /\ source' = [source EXCEPT ![m] = "FOLLOW_UP"]
  /\ UNCHANGED known

Step(m) == Open(m) \/ Name(m) \/ Follow(m)

Next == \E m \in Messages : Step(m)

Spec == Init /\ [][Next]_vars
=============================================================================
