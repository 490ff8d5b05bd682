----------------------------- MODULE MailSource -----------------------------
(***************************************************************************)
(* What the mail intake promises about one provider message, whatever      *)
(* number of Worker invocations receive it, crash on it or outlive their   *)
(* lease: attempts are numbered without reuse, at most one canonical event *)
(* is ever recorded for the message, the message settles only in the state *)
(* that event calls for, and it stays there.  MailIntake implements this   *)
(* specification; the states are the processing_state column of            *)
(* mail_source_messages, the event types those of canonical_mail_events.   *)
(***************************************************************************)
EXTENDS Naturals

CONSTANT Messages       \* provider messages (Graph message ids)

VARIABLES
  state,                \* [Messages -> processing state, "ABSENT" before discovery]
  attempts,             \* [Messages -> number of processing attempts begun]
  event                 \* [Messages -> type of the canonical event, "NONE" before it]

vars == <<state, attempts, event>>

CaseEvents == {"NEW_CASE", "FOLLOW_UP"}
EventTypes == CaseEvents \cup {"NON_ACTIONABLE", "REVIEW_REQUIRED"}

SettledStates == {"COMPLETED", "NON_ACTIONABLE", "REVIEW_REQUIRED"}
OpenStates    == {"DISCOVERED", "PROCESSING", "RETRY_WAIT"}

\* The settled state a recorded event calls for.
SettledAs(type) == IF type \in CaseEvents THEN "COMPLETED" ELSE type

TypeOK ==
  /\ state \in [Messages -> {"ABSENT"} \cup OpenStates \cup SettledStates]
  /\ attempts \in [Messages -> Nat]
  /\ event \in [Messages -> {"NONE"} \cup EventTypes]

Init ==
  /\ state = [m \in Messages |-> "ABSENT"]
  /\ attempts = [m \in Messages |-> 0]
  /\ event = [m \in Messages |-> "NONE"]

Discover(m) ==
  /\ state[m] = "ABSENT"
  /\ state' = [state EXCEPT ![m] = "DISCOVERED"]
  /\ UNCHANGED <<attempts, event>>

\* A new attempt begins, on a fresh message, a failed one or an abandoned one.
Claim(m) ==
  /\ state[m] \in OpenStates
  /\ state' = [state EXCEPT ![m] = "PROCESSING"]
  /\ attempts' = [attempts EXCEPT ![m] = @ + 1]
  /\ UNCHANGED event

\* The one canonical event of the message, by some attempt that has begun.
Record(m, type) ==
  /\ attempts[m] > 0
  /\ state[m] \in OpenStates
  /\ event[m] = "NONE"
  /\ event' = [event EXCEPT ![m] = type]
  /\ UNCHANGED <<state, attempts>>

Retry(m) ==
  /\ state[m] = "PROCESSING"
  /\ state' = [state EXCEPT ![m] = "RETRY_WAIT"]
  /\ UNCHANGED <<attempts, event>>

Settle(m) ==
  /\ state[m] = "PROCESSING"
  /\ event[m] # "NONE"
  /\ state' = [state EXCEPT ![m] = SettledAs(event[m])]
  /\ UNCHANGED <<attempts, event>>

Next ==
  \E m \in Messages :
    \/ Discover(m)
    \/ Claim(m)
    \/ \E type \in EventTypes : Record(m, type)
    \/ Retry(m)
    \/ Settle(m)

Spec == Init /\ [][Next]_vars
=============================================================================
