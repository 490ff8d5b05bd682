------------------------------ MODULE MailAck ------------------------------
(***************************************************************************)
(* The scheduled job and the one neutral reply: the OPERATIONS lock of     *)
(* runScheduledOperations (worker/operations.ts), pollEmail and            *)
(* acknowledgeComplaint (worker/ingestion.ts).  Every awaited call of an   *)
(* acknowledgment is one action; any of them may throw, and a job may die  *)
(* or outlive its lock.                                                    *)
(*                                                                         *)
(* What intake does to the mailbox are steps of MailRows, which MailIntake *)
(* implements: they go on beside the jobs, and an ingestEmailMessage of a  *)
(* job that succeeds is one action.  Deadlines, dispatch and               *)
(* reconciliation are one action too (see ComplaintDesk and SmsDelivery).  *)
(* Only mail that names a case is modelled; both mail switches are on.     *)
(* Left out: rows nobody acts on (background_job_runs,                     *)
(* integration_events).                                                    *)
(***************************************************************************)
EXTENDS Naturals, FiniteSets

CONSTANTS
  Jobs,         \* invocations of the scheduled job
  NoJob,        \* the owner of a lock nobody ever had
  Cases,        \* complaints, by their external case
  NumMessages,  \* mail is numbered in the order of receivedDateTime
  CaseOf,       \* the case of each message
  PageSize,     \* listMessageIds asks for one page, the oldest mail first
  MaxOverruns,  \* bound: jobs that outlive their lock
  MaxFaults     \* bound: calls that throw and jobs that die

Messages == 1..NumMessages

ASSUME MailAckAssumption ==
  /\ IsFiniteSet(Jobs)
  /\ NoJob \notin Jobs
  /\ NumMessages \in Nat
  /\ CaseOf \in [Messages -> Cases]
  /\ PageSize \in Nat

VARIABLES
  arrived,   \* messages 1..arrived are in the inbox
  \* D1 tables
  lock,      \* background_job_locks: locked_until is ahead, and owner_run_id
  known,     \* complaints that exist
  source,    \* gmail_messages: what the row of a message says it is
  ack,       \* email_acknowledgments: the status of the complaint's row
  proof,     \* complaint_events: DUNKIN_ACKNOWLEDGED rows
  \* the provider
  replies,   \* replies accepted for a complaint
  \* locals of a job
  pc, todo, case,
  \* bounds
  overruns, faults

\* known and source are those of MailRows.
Rows == INSTANCE MailRows

mailbox == <<known, source>>
acks == <<ack, proof, replies>>
locals == <<pc, todo, case>>
vars == <<arrived, lock, mailbox, acks, locals, overruns, faults>>

Labels == {"idle", "prepare", "list", "ingest", "source", "insert", "read", "claim",
           "send", "record", "event", "fail", "unlock"}
AckStatus == {"NONE", "PENDING", "IN_FLIGHT", "SENT", "FAILED"}

Init ==
  /\ arrived = 0
  /\ lock = [held |-> FALSE, owner |-> NoJob]
  /\ Rows!Init
  /\ ack = [c \in Cases |-> "NONE"]
  /\ proof = [c \in Cases |-> 0]
  /\ replies = [c \in Cases |-> 0]
  /\ pc = [j \in Jobs |-> "idle"]
  /\ todo = [j \in Jobs |-> {}]
  /\ case \in [Jobs -> Cases]
  /\ overruns = 0
  /\ faults = 0

-----------------------------------------------------------------------------
Goto(j, label) == pc' = [pc EXCEPT ![j] = label]

\* A call of this job throws.
Fault == faults < MaxFaults /\ faults' = faults + 1

Arrive ==
  /\ arrived < NumMessages
  /\ arrived' = arrived + 1
  /\ UNCHANGED <<lock, mailbox, acks, locals, overruns, faults>>

-----------------------------------------------------------------------------
\* The lock

\* Variant with a fault: the lock is taken whether or not it is held.
TakableAlways(j) == TRUE

\* UPDATE background_job_locks ... WHERE locked_until <= startedAt.
Takable(j) == ~lock.held

\* The cron trigger: a job that changes no row returns.
Claim(j) ==
  /\ pc[j] = "idle"
  /\ Takable(j)
  /\ lock' = [held |-> TRUE, owner |-> j]
  /\ Goto(j, "prepare")
  /\ UNCHANGED <<arrived, mailbox, acks, todo, case, overruns, faults>>

\* Deadlines, escalations, dispatch, reconciliation; a throw ends the job.
Prepare(j) ==
  /\ pc[j] = "prepare"
  /\ \/ Goto(j, "list") /\ UNCHANGED faults
     \/ Goto(j, "unlock") /\ Fault
  /\ UNCHANGED <<arrived, lock, mailbox, acks, todo, case, overruns>>

\* The finally block: only a lock that is still its own.
Unlock(j) ==
  /\ pc[j] = "unlock"
  /\ lock' = IF lock.owner = j THEN [lock EXCEPT !.held = FALSE] ELSE lock
  /\ Goto(j, "idle")
  /\ todo' = [todo EXCEPT ![j] = {}]
  /\ UNCHANGED <<arrived, mailbox, acks, case, overruns, faults>>

\* Four minutes pass.  A job that is still at work goes on without the lock.
LockExpires ==
  /\ lock.held
  /\ lock' = [lock EXCEPT !.held = FALSE]
  /\ IF \E j \in Jobs : j = lock.owner /\ pc[j] # "idle"
     THEN overruns < MaxOverruns /\ overruns' = overruns + 1
     ELSE UNCHANGED overruns
  /\ UNCHANGED <<arrived, mailbox, acks, locals, faults>>

-----------------------------------------------------------------------------
\* pollEmail

\* Variant with a fault: the search stops before the message that came last.
ListedShort == {m \in 1..(arrived - 1) : m <= PageSize}

\* Variant with a fault: positions are counted from zero.
ListedFromZero == {m \in 0..arrived : m < PageSize}

\* receivedDateTime asc, one page.
Listed == {m \in 1..arrived : m <= PageSize}

List(j) ==
  /\ pc[j] = "list"
  /\ \/ todo' = [todo EXCEPT ![j] = Listed] /\ Goto(j, "ingest") /\ UNCHANGED faults
     \/ Fault /\ Goto(j, "unlock") /\ UNCHANGED todo
  /\ UNCHANGED <<arrived, lock, mailbox, acks, case, overruns>>

\* ids.reverse(): the newest first.
Newest(j, m) == m \in todo[j] /\ \A n \in todo[j] : n <= m

\* ingestEmailMessage from start to end: a settled message is a DUPLICATE, mail
\* of a known case a FOLLOW_UP, the rest makes the complaint and names it.
Settle(m) ==
  LET c == CaseOf[m] IN
  /\ source' = IF source[m] # "NONE" THEN source
               ELSE [source EXCEPT ![m] = IF known[c] THEN "FOLLOW_UP" ELSE "INITIAL"]
  /\ known' = [known EXCEPT ![c] = TRUE]

\* Next message of the list.  A throw is counted and the next one is taken; what
\* it had written by then are steps of Intake.  The same goes for IN_PROGRESS: an
\* invocation of another job, or elsewhere (a fault), holds the message's lease.
Ingest(j, m) ==
  /\ pc[j] = "ingest"
  /\ Newest(j, m)
  /\ todo' = [todo EXCEPT ![j] = @ \ {m}]
  /\ \/ /\ Settle(m)
        /\ case' = [case EXCEPT ![j] = CaseOf[m]]
        /\ Goto(j, "source")
        /\ UNCHANGED faults
     \/ /\ Fault \/ (UNCHANGED faults /\ \E i \in Jobs \ {j} : pc[i] # "idle")
        /\ UNCHANGED <<mailbox, pc, case>>
  /\ UNCHANGED <<arrived, lock, acks, overruns>>

\* The list is done.
EndPoll(j) ==
  /\ pc[j] = "ingest"
  /\ todo[j] = {}
  /\ Goto(j, "unlock")
  /\ UNCHANGED <<arrived, lock, mailbox, acks, todo, case, overruns, faults>>

\* A step of an intake that did not get to its end, or of discovery and the pilot
\* routes, which ingest the same mail and never reply.
Intake(m) ==
  /\ m <= arrived
  /\ Rows!Step(m)
  /\ UNCHANGED <<arrived, lock, acks, locals, overruns, faults>>

-----------------------------------------------------------------------------
\* acknowledgeComplaint

\* A throw outside its try block is caught by pollEmail: on to the next message.
Throws(j) ==
  /\ pc[j] \in {"source", "insert", "read", "claim"}
  /\ Fault
  /\ Goto(j, "ingest")
  /\ UNCHANGED <<arrived, lock, mailbox, acks, todo, case, overruns>>

\* The first message of the complaint that is no follow-up.
HasSource(c) == \E m \in Messages : CaseOf[m] = c /\ source[m] = "INITIAL"

ReadSource(j) ==
  /\ pc[j] = "source"
  /\ Goto(j, IF HasSource(case[j]) THEN "insert" ELSE "ingest")
  /\ UNCHANGED <<arrived, lock, mailbox, acks, todo, case, overruns, faults>>

\* Variant with a fault: INSERT OR REPLACE.
InsertedFresh(status) == "PENDING"

\* INSERT OR IGNORE: one row for a complaint.
Inserted(status) == IF status = "NONE" THEN "PENDING" ELSE status

InsertAck(j) ==
  /\ pc[j] = "insert"
  /\ ack' = [ack EXCEPT ![case[j]] = Inserted(@)]
  /\ Goto(j, "read")
  /\ UNCHANGED <<arrived, lock, mailbox, proof, replies, todo, case, overruns, faults>>

\* ALREADY_HANDLED, or go on.
ReadAck(j) ==
  /\ pc[j] = "read"
  /\ Goto(j, IF ack[case[j]] = "PENDING" THEN "claim" ELSE "ingest")
  /\ UNCHANGED <<arrived, lock, mailbox, acks, todo, case, overruns, faults>>

\* Variant with a fault: the row says SENT before the reply is sent.
ClaimedEarly(status) == IF status = "PENDING" THEN "SENT" ELSE status

\* UPDATE ... WHERE status='PENDING'; the changes are not counted.
Claimed(status) == IF status = "PENDING" THEN "IN_FLIGHT" ELSE status

ClaimAck(j) ==
  /\ pc[j] = "claim"
  /\ ack' = [ack EXCEPT ![case[j]] = Claimed(@)]
  /\ Goto(j, "send")
  /\ UNCHANGED <<arrived, lock, mailbox, proof, replies, todo, case, overruns, faults>>

\* The reply is accepted and the answer arrives, or it does not; or it is refused.
SendAck(j) ==
  /\ pc[j] = "send"
  /\ \/ /\ replies' = [replies EXCEPT ![case[j]] = @ + 1]
        /\ \/ Goto(j, "record") /\ UNCHANGED faults
           \/ Goto(j, "fail") /\ Fault
     \/ /\ UNCHANGED replies
        /\ Goto(j, "fail") /\ Fault
  /\ UNCHANGED <<arrived, lock, mailbox, ack, proof, todo, case, overruns>>

\* One batch: SENT if it is still IN_FLIGHT, and the complaint's event.
RecordAck(j) ==
  /\ pc[j] = "record"
  /\ \/ /\ ack' = [ack EXCEPT ![case[j]] = IF @ = "IN_FLIGHT" THEN "SENT" ELSE @]
        /\ proof' = [proof EXCEPT ![case[j]] = @ + 1]
        /\ Goto(j, "event")
        /\ UNCHANGED faults
     \/ Fault /\ Goto(j, "fail") /\ UNCHANGED <<ack, proof>>
  /\ UNCHANGED <<arrived, lock, mailbox, replies, todo, case, overruns>>

\* recordIntegrationEvent, still inside the try block.
RecordEvent(j) ==
  /\ pc[j] = "event"
  /\ \/ Goto(j, "ingest") /\ UNCHANGED faults
     \/ Goto(j, "fail") /\ Fault
  /\ UNCHANGED <<arrived, lock, mailbox, acks, todo, case, overruns>>

\* The catch block: FAILED, whatever the row says by now.
FailAck(j) ==
  /\ pc[j] = "fail"
  /\ \/ ack' = [ack EXCEPT ![case[j]] = "FAILED"] /\ UNCHANGED faults
     \/ Fault /\ UNCHANGED ack
  /\ Goto(j, "ingest")
  /\ UNCHANGED <<arrived, lock, mailbox, proof, replies, todo, case, overruns>>

\* The Worker is gone; the lock stays until it expires.
Dies(j) ==
  /\ pc[j] # "idle"
  /\ Fault
  /\ Goto(j, "idle")
  /\ todo' = [todo EXCEPT ![j] = {}]
  /\ UNCHANGED <<arrived, lock, mailbox, acks, case, overruns>>

-----------------------------------------------------------------------------
Acknowledge(j) ==
  \/ ReadSource(j) \/ InsertAck(j) \/ ReadAck(j) \/ ClaimAck(j)
  \/ SendAck(j) \/ RecordAck(j) \/ RecordEvent(j) \/ FailAck(j)

Work(j) ==
  \/ Prepare(j) \/ List(j) \/ EndPoll(j) \/ Unlock(j) \/ Acknowledge(j)
  \/ \E m \in Messages : Ingest(j, m)

Next ==
  \/ Arrive
  \/ LockExpires
  \/ \E m \in Messages : Intake(m)
  \/ \E j \in Jobs : Claim(j) \/ Work(j) \/ Throws(j) \/ Dies(j)

Spec == Init /\ [][Next]_vars

\* Fairness: the trigger fires every five minutes, a running job makes its next
\* call, and time passes.
Fairness ==
  /\ WF_vars(\E j \in Jobs : Claim(j))
  /\ WF_vars(LockExpires)
  /\ \A j \in Jobs : WF_vars(Work(j))

FairSpec == Spec /\ Fairness

-----------------------------------------------------------------------------
\* Properties

\* Types of all variables.
TypeOK ==
  /\ arrived \in 0..NumMessages
  /\ lock \in [held : BOOLEAN, owner : Jobs \cup {NoJob}]
  /\ known \in [Cases -> BOOLEAN]
  /\ source \in [Messages -> {"NONE", "INITIAL", "FOLLOW_UP"}]
  /\ ack \in [Cases -> AckStatus]
  /\ proof \in [Cases -> Nat]
  /\ replies \in [Cases -> Nat]
  /\ pc \in [Jobs -> Labels]
  /\ todo \in [Jobs -> SUBSET Messages]
  /\ case \in [Jobs -> Cases]
  /\ overruns \in Nat
  /\ faults \in Nat

\* A complaint gets one neutral reply (OPERATIONS.md: "permits one neutral reply"),
\* whatever calls throw, jobs die or jobs outlive their lock.
OneReply == \A c \in Cases : replies[c] <= 1

\* While every job ends within its lock, a complaint gets at most one reply, whatever
\* calls throw, jobs die and jobs follow each other.
OneReplyInLock == overruns = 0 => OneReply

\* SENT is only said of a complaint that was answered, and its event is there.
SentIsProven ==
  \A c \in Cases : ack[c] = "SENT" => replies[c] > 0 /\ proof[c] > 0

\* What may have been sent never becomes PENDING again (ARCHITECTURE.md: an
\* ambiguous interrupted send remains non-retryable).
AmbiguousStays ==
  [][\A c \in Cases :
       ack[c] \in {"IN_FLIGHT", "SENT", "FAILED"} => ack'[c] \in {"IN_FLIGHT", "SENT", "FAILED"}]_vars

\* A complaint whose row names no message but follow-ups.
Orphaned(c) == known[c] /\ ~HasSource(c)

\* Mail on the first page leads to a reply, or to a row an operator must look
\* at; unless the complaint ends up without a message to answer, which a failed
\* intake and its retry can do.  Mail beyond the page waits until older mail
\* leaves the look-back window.
MailIsAnswered ==
  \A m \in Messages :
    \/ arrived >= m /\ m <= PageSize ~> ack[CaseOf[m]] \in {"IN_FLIGHT", "SENT", "FAILED"}
    \/ <>[]Orphaned(CaseOf[m])
=============================================================================
