----------------------------- MODULE MailIntake -----------------------------
(***************************************************************************)
(* ingestEmailMessage (worker/ingestion.ts) run by several Worker          *)
(* invocations against one D1 database.  Every awaited D1 call of the      *)
(* handler - a statement, or a db.batch, which D1 runs as one transaction  *)
(* - is one action, so invocations interleave between any two of them, a   *)
(* call can fail, and an invocation can die.  What a JavaScript local      *)
(* holds across an await is a variable here, because that is what can be   *)
(* stale when it is used.                                                  *)
(*                                                                         *)
(* Left out: the text of messages (a message is its case reference, its    *)
(* conversation and whether it is a complaint at all), the routing of a    *)
(* complaint to a store, integration_events rows, the interpretation       *)
(* record and the escalation hook (they write nothing the others read),    *)
(* and the chunking of persistState into batches of 50 statements: a       *)
(* snapshot is assumed to fit one batch.  All messages are assumed to be   *)
(* of one calendar year, so that an SR-<year>-<n> id is its number n.      *)
(***************************************************************************)
EXTENDS Naturals, Sequences, FiniteSets

CONSTANTS
  Workers,      \* concurrent invocations of ingestEmailMessage
  Messages,     \* Graph message ids
  NoMessage,    \* the message of an idle worker
  Cases,        \* external (Dunkin) case ids
  NoCase,       \* what extraction yields when a message shows no case id
  CaseOf,       \* [Messages -> Cases \cup {NoCase}]: extraction.externalCaseId
  ThreadOf,     \* [Messages -> conversation id]
  Complaints,   \* the messages extraction classifies as complaints
  MaxAttempts,  \* bound: a message this often claimed is not delivered again
  MaxFaults     \* bound: failures, deaths and overrun leases in a behavior

ASSUME MessagesAssumption ==
  /\ NoMessage \notin Messages
  /\ NoCase \notin Cases
  /\ CaseOf \in [Messages -> Cases \cup {NoCase}]
  /\ Complaints \subseteq Messages

VARIABLES
  \* D1 tables
  sources,      \* mail_source_messages: processing state, lease, attempt_count
  legacy,       \* gmail_messages: processing_status, complaint_id, is_follow_up
  runs,         \* mail_processing_runs
  events,       \* canonical_mail_events, at most one per message and version
  links,        \* complaint_sources, at most one per message
  reviews,      \* mail_review_items: the runs whose event has an OPEN item
  complaints,   \* complaints, in the order of their SR-<year>-<n> ids
  \* the locals of each invocation
  pc,           \* the call it makes next
  msg,          \* the message it was given
  deadRun,      \* the attempt whose lease is over at its `now`, 0 for none
  run,          \* lease.runNumber
  target,       \* the complaint its identity resolved to, 0 for none
  read,         \* the follow_ups it selected
  snapshot,     \* the complaints of the AppState it loaded
  outcome,      \* how it will finish: an event type, or FAILED
  faults        \* failures so far (bound only)

tables == <<sources, legacy, runs, events, links, reviews, complaints>>
locals == <<pc, msg, deadRun, run, target, read, snapshot, outcome>>
vars == <<tables, locals, faults>>

-----------------------------------------------------------------------------
\* Rows and their values

CaseEvents == {"NEW_CASE", "FOLLOW_UP"}
Outcomes == CaseEvents \cup {"NON_ACTIONABLE", "REVIEW_REQUIRED"}
Settled == {"COMPLETED", "NON_ACTIONABLE", "REVIEW_REQUIRED"}

\* The lease columns of a source row: no lease, one that ends after the
\* present, one that has ended.  The owner is always the string 'mail-intake'.
Leases == {"NONE", "LIVE", "EXPIRED"}

SourceRow == [state    : {"ABSENT", "DISCOVERED", "PROCESSING", "RETRY_WAIT"} \cup Settled,
              lease    : Leases,
              attempts : Nat]

LegacyStatus == {"ABSENT", "PROCESSING", "IGNORED", "FOLLOW_UP", "PROCESSED",
                 "REVIEW_REQUIRED", "FAILED_PERSISTENCE"}
LegacyRow == [status : LegacyStatus, complaint : Nat, followUp : BOOLEAN]

RunRow == [msg : Messages, number : Nat,
           status : {"PROCESSING", "RETRY_WAIT"} \cup Settled]

\* An event row is known by the run that wrote it: each run commits one.
EventRow == [type : {"NONE"} \cup Outcomes, run : Nat, complaint : Nat]
LinkRow == [complaint : Nat, role : {"NONE", "INITIAL", "FOLLOW_UP"}]

\* follow_ups as a bag of the messages it quotes.
FollowUps == [Messages -> Nat]
NoFollowUps == [m \in Messages |-> 0]
Appended(followUps, m) == [followUps EXCEPT ![m] = @ + 1]

ComplaintRow == [case : Cases, followUps : FollowUps]

Init ==
  /\ sources = [m \in Messages |-> [state |-> "ABSENT", lease |-> "NONE", attempts |-> 0]]
  /\ legacy = [m \in Messages |-> [status |-> "ABSENT", complaint |-> 0, followUp |-> FALSE]]
  /\ runs = {}
  /\ events = [m \in Messages |-> [type |-> "NONE", run |-> 0, complaint |-> 0]]
  /\ links = [m \in Messages |-> [complaint |-> 0, role |-> "NONE"]]
  /\ reviews = [m \in Messages |-> {}]
  /\ complaints = <<>>
  /\ pc = [w \in Workers |-> "idle"]
  /\ msg = [w \in Workers |-> NoMessage]
  /\ deadRun = [w \in Workers |-> 0]
  /\ run = [w \in Workers |-> 0]
  /\ target = [w \in Workers |-> 0]
  /\ read = [w \in Workers |-> NoFollowUps]
  /\ snapshot = [w \in Workers |-> <<>>]
  /\ outcome = [w \in Workers |-> "NONE"]
  /\ faults = 0

-----------------------------------------------------------------------------
\* Program control

Goto(w, label) == pc' = [pc EXCEPT ![w] = label]

\* ingestEmailMessage returns or throws: its locals are gone.
Return(w) ==
  /\ Goto(w, "idle")
  /\ msg' = [msg EXCEPT ![w] = NoMessage]
  /\ deadRun' = [deadRun EXCEPT ![w] = 0]
  /\ run' = [run EXCEPT ![w] = 0]
  /\ target' = [target EXCEPT ![w] = 0]
  /\ read' = [read EXCEPT ![w] = NoFollowUps]
  /\ snapshot' = [snapshot EXCEPT ![w] = <<>>]
  /\ outcome' = [outcome EXCEPT ![w] = "NONE"]

\* Where the invocation holds an attempt of its own: from the claim on.
Holding == {"insertRun", "normalize", "readFollowUps", "attachFollowUp", "loadState",
            "persistCase", "markCase", "markReview", "commitEvent", "markFailed", "finish"}

\* The calls inside the try block.
Guarded == Holding \ {"insertRun", "markFailed"}

-----------------------------------------------------------------------------
\* Stage 1: the source row, and what an invocation does when it is not new

\* pollEmail or runMailboxDiscovery hands a message to an invocation, which
\* takes the time and runs persistDiscovered's INSERT OR IGNORE.
Deliver(w, m) ==
  /\ pc[w] = "idle"
  /\ sources[m].attempts < MaxAttempts
  /\ msg' = [msg EXCEPT ![w] = m]
  /\ deadRun' = [deadRun EXCEPT ![w] =
                   IF sources[m].lease = "EXPIRED" THEN sources[m].attempts ELSE 0]
  /\ \/ /\ sources[m].state = "ABSENT"
        /\ sources' = [sources EXCEPT ![m].state = "DISCOVERED"]
        /\ Goto(w, "readLegacy")
     \/ /\ sources[m].state # "ABSENT"
        /\ Goto(w, "inspect")
        /\ UNCHANGED sources
  /\ UNCHANGED <<legacy, runs, events, links, reviews, complaints,
                 run, target, read, snapshot, outcome, faults>>

\* lease_expires_at <= now, where `now` is the time the invocation began: a
\* lease that ends later still looks live to it.
LooksExpired(w) ==
  /\ sources[msg[w]].lease = "EXPIRED"
  /\ sources[msg[w]].attempts = deadRun[w]

\* Variant with a fault: abandoned PROCESSING rows are never taken up again.
ResumableIfReleased(w) == sources[msg[w]].state \in {"DISCOVERED", "RETRY_WAIT"}

\* Neither settled nor under a lease that looks live.
Resumable(w) ==
  \/ sources[msg[w]].state \in {"DISCOVERED", "RETRY_WAIT"}
  \/ sources[msg[w]].state = "PROCESSING" /\ LooksExpired(w)

\* IN_PROGRESS under a lease that looks live, DUPLICATE of a settled message;
\* otherwise the message is resumed.
Inspect(w) ==
  /\ pc[w] = "inspect"
  /\ \/ /\ Resumable(w)
        /\ Goto(w, "readLegacy")
        /\ UNCHANGED <<msg, deadRun, run, target, read, snapshot, outcome>>
     \/ /\ ~Resumable(w)
        /\ Return(w)
  /\ UNCHANGED <<tables, faults>>

\* SELECT of the gmail_messages row, then INSERT or UPDATE by what it said.
ReadLegacy(w) ==
  /\ pc[w] = "readLegacy"
  /\ Goto(w, IF legacy[msg[w]].status = "ABSENT" THEN "insertLegacy" ELSE "updateLegacy")
  /\ UNCHANGED <<tables, msg, deadRun, run, target, read, snapshot, outcome, faults>>

InsertLegacy(w) ==
  /\ pc[w] = "insertLegacy"
  /\ \/ /\ legacy[msg[w]].status = "ABSENT"
        /\ legacy' = [legacy EXCEPT ![msg[w]].status = "PROCESSING"]
        /\ Goto(w, "readAttempts")
        /\ UNCHANGED <<msg, deadRun, run, target, read, snapshot, outcome>>
     \/ /\ legacy[msg[w]].status # "ABSENT"     \* primary key: the INSERT throws
        /\ Return(w)
        /\ UNCHANGED legacy
  /\ UNCHANGED <<sources, runs, events, links, reviews, complaints, faults>>

\* Variant with a fault: the row is replaced, and forgets its complaint.
UpdateLegacyAfresh(w) ==
  /\ pc[w] = "updateLegacy"
  /\ legacy' = [legacy EXCEPT ![msg[w]] =
                  [status |-> "PROCESSING", complaint |-> 0, followUp |-> FALSE]]
  /\ Goto(w, "readAttempts")
  /\ UNCHANGED <<sources, runs, events, links, reviews, complaints,
                 msg, deadRun, run, target, read, snapshot, outcome, faults>>

UpdateLegacy(w) ==
  /\ pc[w] = "updateLegacy"
  /\ legacy' = [legacy EXCEPT ![msg[w]].status = "PROCESSING"]
  /\ Goto(w, "readAttempts")
  /\ UNCHANGED <<sources, runs, events, links, reviews, complaints,
                 msg, deadRun, run, target, read, snapshot, outcome, faults>>

-----------------------------------------------------------------------------
\* Stage 2: acquireProcessingLease

ReadAttempts(w) ==
  /\ pc[w] = "readAttempts"
  /\ run' = [run EXCEPT ![w] = sources[msg[w]].attempts + 1]
  /\ Goto(w, "claimLease")
  /\ UNCHANGED <<tables, msg, deadRun, target, read, snapshot, outcome, faults>>

\* Variant with a fault: the claim does not compare attempt_count.
ClaimableUncompared(w) == Resumable(w)

\* The WHERE clause of the claim: a compare-and-set on attempt_count.
Claimable(w) ==
  /\ sources[msg[w]].attempts + 1 = run[w]
  /\ Resumable(w)

ClaimLease(w) ==
  /\ pc[w] = "claimLease"
  /\ \/ /\ Claimable(w)
        /\ sources' = [sources EXCEPT ![msg[w]] =
                         [state |-> "PROCESSING", lease |-> "LIVE", attempts |-> run[w]]]
        /\ Goto(w, "insertRun")
        /\ UNCHANGED <<msg, deadRun, run, target, read, snapshot, outcome>>
     \/ /\ ~Claimable(w)
        /\ Return(w)
        /\ UNCHANGED sources
  /\ UNCHANGED <<legacy, runs, events, links, reviews, complaints, faults>>

\* UNIQUE(source_message_id, run_number) is never in the way: ExclusiveRuns.
InsertRun(w) ==
  /\ pc[w] = "insertRun"
  /\ runs' = runs \cup {[msg |-> msg[w], number |-> run[w], status |-> "PROCESSING"]}
  /\ Goto(w, "normalize")
  /\ UNCHANGED <<sources, legacy, events, links, reviews, complaints,
                 msg, deadRun, run, target, read, snapshot, outcome, faults>>

-----------------------------------------------------------------------------
\* Stages 3 and 4: normalization and identity

MarkIgnored(w) ==
  /\ pc[w] = "normalize"
  /\ msg[w] \notin Complaints
  /\ legacy' = [legacy EXCEPT ![msg[w]].status = "IGNORED"]
  /\ outcome' = [outcome EXCEPT ![w] = "NON_ACTIONABLE"]
  /\ Goto(w, "commitEvent")
  /\ UNCHANGED <<sources, runs, events, links, reviews, complaints,
                 msg, deadRun, run, target, read, snapshot, faults>>

\* SELECT id FROM complaints WHERE external_case_id is the message's.
CaseMatches(rows, m) == {c \in DOMAIN rows : rows[c].case = CaseOf[m]}

\* The complaints linked from the message's conversation.  The query takes the
\* oldest by linked_at, which is when the linking invocation began and so says
\* nothing of the order the links were written in: any of them may be it.
ConversationHints(m) ==
  {links[x].complaint : x \in {y \in Messages : ThreadOf[y] = ThreadOf[m] /\ links[y].role # "NONE"}}

\* Variant with a fault: a conversation hint is taken before the case id.
KnownByHintFirst(m, c) ==
  \/ c \in ConversationHints(m)
  \/ ConversationHints(m) = {} /\ c \in CaseMatches(complaints, m)

\* EXACT_CASE_ID or CONVERSATION_HINT: the message follows up complaint c.
KnownComplaint(m, c) ==
  \/ CaseOf[m] # NoCase /\ c \in CaseMatches(complaints, m)
  \/ CaseOf[m] = NoCase /\ c \in ConversationHints(m)

\* resolveComplaintIdentity: follow-up, NEW_CASE_ID, or NO_IDENTITY.
ResolveIdentity(w) ==
  /\ pc[w] = "normalize"
  /\ msg[w] \in Complaints
  /\ \/ \E c \in DOMAIN complaints :
          /\ KnownComplaint(msg[w], c)
          /\ target' = [target EXCEPT ![w] = c]
          /\ Goto(w, "readFollowUps")
     \/ /\ CaseOf[msg[w]] # NoCase
        /\ CaseMatches(complaints, msg[w]) = {}
        /\ Goto(w, "loadState")
        /\ UNCHANGED target
     \/ /\ CaseOf[msg[w]] = NoCase
        /\ ConversationHints(msg[w]) = {}
        /\ Goto(w, "markReview")
        /\ UNCHANGED target
  /\ UNCHANGED <<tables, msg, deadRun, run, read, snapshot, outcome, faults>>

-----------------------------------------------------------------------------
\* A follow-up: SELECT follow_ups, push, then one batch that writes the array
\* back, marks the legacy row and adds a complaint event.

ReadFollowUps(w) ==
  /\ pc[w] = "readFollowUps"
  /\ read' = [read EXCEPT ![w] = complaints[target[w]].followUps]
  /\ Goto(w, "attachFollowUp")
  /\ UNCHANGED <<tables, msg, deadRun, run, target, snapshot, outcome, faults>>

AttachFollowUp(w) ==
  /\ pc[w] = "attachFollowUp"
  /\ complaints' = [complaints EXCEPT ![target[w]].followUps = Appended(read[w], msg[w])]
  /\ legacy' = [legacy EXCEPT ![msg[w]] =
                  [status |-> "FOLLOW_UP", complaint |-> target[w], followUp |-> TRUE]]
  /\ read' = [read EXCEPT ![w] = NoFollowUps]
  /\ outcome' = [outcome EXCEPT ![w] = "FOLLOW_UP"]
  /\ Goto(w, "commitEvent")
  /\ UNCHANGED <<sources, runs, events, links, reviews,
                 msg, deadRun, run, target, snapshot, faults>>

-----------------------------------------------------------------------------
\* A new case: loadState, createComplaint on the copy, persistState of all of it

LoadState(w) ==
  /\ pc[w] = "loadState"
  /\ snapshot' = [snapshot EXCEPT ![w] = complaints]
  /\ Goto(w, "persistCase")
  /\ UNCHANGED <<tables, msg, deadRun, run, target, read, outcome, faults>>

\* The complaint createComplaint returns, by its place in the list: the one
\* that has the case, or a new one with the id SR-<year>-<length + 1>.
CreatedId(rows, m) ==
  IF CaseMatches(rows, m) # {} THEN CHOOSE c \in CaseMatches(rows, m) : TRUE ELSE Len(rows) + 1

\* Variant with a fault: no lookup of the case in the loaded state.
CreatedAnew(rows, m) == Append(rows, [case |-> CaseOf[m], followUps |-> NoFollowUps])

\* The list it returns: a follow-up on the existing complaint, or a new row.
Created(rows, m) ==
  IF CaseMatches(rows, m) # {}
  THEN [rows EXCEPT ![CreatedId(rows, m)].followUps = Appended(@, m)]
  ELSE Append(rows, [case |-> CaseOf[m], followUps |-> NoFollowUps])

\* Variant with a fault: the snapshot carries no follow_ups.
UpsertedBare(stored, rows) ==
  [c \in 1..(IF Len(stored) > Len(rows) THEN Len(stored) ELSE Len(rows)) |->
     IF c > Len(stored) THEN rows[c]
     ELSE IF c > Len(rows) THEN stored[c]
     ELSE [stored[c] EXCEPT !.followUps = NoFollowUps]]

\* persistState's INSERT ... ON CONFLICT(id) DO UPDATE of every complaint: a row
\* that exists keeps its external_case_id and takes the snapshot's follow_ups.
Upserted(stored, rows) ==
  [c \in 1..(IF Len(stored) > Len(rows) THEN Len(stored) ELSE Len(rows)) |->
     IF c > Len(stored) THEN rows[c]
     ELSE IF c > Len(rows) THEN stored[c]
     ELSE [stored[c] EXCEPT !.followUps = rows[c].followUps]]

\* UNIQUE(external_case_id) is never in the way: OneComplaintPerCase.
PersistCase(w) ==
  /\ pc[w] = "persistCase"
  /\ complaints' = Upserted(complaints, Created(snapshot[w], msg[w]))
  /\ target' = [target EXCEPT ![w] = CreatedId(snapshot[w], msg[w])]
  /\ snapshot' = [snapshot EXCEPT ![w] = <<>>]
  /\ Goto(w, "markCase")
  /\ UNCHANGED <<sources, legacy, runs, events, links, reviews,
                 msg, deadRun, run, read, outcome, faults>>

\* processing_status PROCESSED stands for ROUTING_REVIEW too.
MarkCase(w) ==
  /\ pc[w] = "markCase"
  /\ legacy' = [legacy EXCEPT ![msg[w]].status = "PROCESSED", ![msg[w]].complaint = target[w]]
  /\ outcome' = [outcome EXCEPT ![w] = "NEW_CASE"]
  /\ Goto(w, "commitEvent")
  /\ UNCHANGED <<sources, runs, events, links, reviews, complaints,
                 msg, deadRun, run, target, read, snapshot, faults>>

-----------------------------------------------------------------------------
\* No identity: an OPEN review item and no complaint

MarkReview(w) ==
  /\ pc[w] = "markReview"
  /\ legacy' = [legacy EXCEPT ![msg[w]].status = "REVIEW_REQUIRED"]
  /\ outcome' = [outcome EXCEPT ![w] = "REVIEW_REQUIRED"]
  /\ Goto(w, "commitEvent")
  /\ UNCHANGED <<sources, runs, events, links, reviews, complaints,
                 msg, deadRun, run, target, read, snapshot, faults>>

-----------------------------------------------------------------------------
\* commitCanonicalEvent: one batch of INSERT OR IGNORE statements

\* Variant with a fault: foreign keys are not enforced.
CommitAccepted(w) == FALSE

\* The event is ignored when the message has one; a link or review item then
\* names an event that was not stored.  OR IGNORE covers the UNIQUE message of
\* a link, not a foreign key: the batch is rolled back and throws.
CommitRejected(w) ==
  /\ events[msg[w]].type # "NONE"
  /\ \/ outcome[w] \in CaseEvents /\ links[msg[w]].role = "NONE"
     \/ outcome[w] = "REVIEW_REQUIRED"

EventStored(w) ==
  IF events[msg[w]].type # "NONE" THEN events[msg[w]]
  ELSE [type |-> outcome[w], run |-> run[w], complaint |-> target[w]]

LinkStored(w) ==
  IF outcome[w] \notin CaseEvents \/ links[msg[w]].role # "NONE" THEN links[msg[w]]
  ELSE [complaint |-> target[w],
        role |-> IF outcome[w] = "NEW_CASE" THEN "INITIAL" ELSE "FOLLOW_UP"]

CommitEvent(w) ==
  /\ pc[w] = "commitEvent"
  /\ \/ /\ ~CommitRejected(w)
        /\ events' = [events EXCEPT ![msg[w]] = EventStored(w)]
        /\ links' = [links EXCEPT ![msg[w]] = LinkStored(w)]
        /\ reviews' = IF outcome[w] = "REVIEW_REQUIRED"
                      THEN [reviews EXCEPT ![msg[w]] = @ \cup {run[w]}]
                      ELSE reviews
        /\ Goto(w, "finish")
     \/ /\ CommitRejected(w)
        /\ Goto(w, "markFailed")
        /\ UNCHANGED <<events, links, reviews>>
  /\ UNCHANGED <<sources, legacy, runs, complaints,
                 msg, deadRun, run, target, read, snapshot, outcome, faults>>

-----------------------------------------------------------------------------
\* finishProcessing, after success or in the catch block

\* Variant with a fault: the catch block finishes as the try block would have.
MarkFailedSilently(w) ==
  /\ pc[w] = "markFailed"
  /\ legacy' = [legacy EXCEPT ![msg[w]].status = "FAILED_PERSISTENCE"]
  /\ Goto(w, "finish")
  /\ UNCHANGED <<sources, runs, events, links, reviews, complaints,
                 msg, deadRun, run, target, read, snapshot, outcome, faults>>

MarkFailed(w) ==
  /\ pc[w] = "markFailed"
  /\ legacy' = [legacy EXCEPT ![msg[w]].status = "FAILED_PERSISTENCE"]
  /\ outcome' = [outcome EXCEPT ![w] = "FAILED"]
  /\ Goto(w, "finish")
  /\ UNCHANGED <<sources, runs, events, links, reviews, complaints,
                 msg, deadRun, run, target, read, snapshot, faults>>

\* Variant with a fault: a failure is written as it is named.
FinalStateAsNamed(result) == IF result \in CaseEvents THEN "COMPLETED" ELSE result

FinalState(result) ==
  CASE result \in CaseEvents -> "COMPLETED"
    [] result = "FAILED"     -> "RETRY_WAIT"
    [] OTHER                 -> result

\* Variant with a fault: no WHERE clause on the state and the lease.
FinishableAlways(w) == TRUE

\* WHERE processing_state='PROCESSING' AND lease_owner='mail-intake': the owner
\* is the same for every invocation, so this is any attempt's lease.
Finishable(w) == sources[msg[w]].state = "PROCESSING"

FinishedRuns(w) ==
  {r \in runs : ~(r.msg = msg[w] /\ r.number = run[w])} \cup
  {[msg |-> msg[w], number |-> run[w], status |-> FinalState(outcome[w])]}

Finish(w) ==
  /\ pc[w] = "finish"
  /\ sources' = IF Finishable(w)
                THEN [sources EXCEPT ![msg[w]].state = FinalState(outcome[w]),
                                     ![msg[w]].lease = "NONE"]
                ELSE sources
  /\ runs' = FinishedRuns(w)
  /\ Return(w)
  /\ UNCHANGED <<legacy, events, links, reviews, complaints, faults>>

-----------------------------------------------------------------------------
\* What goes wrong

\* A call inside the try block rejects: the catch block takes over.
StatementFails(w) ==
  /\ faults < MaxFaults
  /\ pc[w] \in Guarded
  /\ outcome[w] # "FAILED"
  /\ Goto(w, "markFailed")
  /\ read' = [read EXCEPT ![w] = NoFollowUps]
  /\ snapshot' = [snapshot EXCEPT ![w] = <<>>]
  /\ faults' = faults + 1
  /\ UNCHANGED <<tables, msg, deadRun, run, target, outcome>>

\* The invocation dies, or a call outside the try block rejects.
Die(w) ==
  /\ faults < MaxFaults
  /\ pc[w] # "idle"
  /\ Return(w)
  /\ faults' = faults + 1
  /\ UNCHANGED tables

\* An invocation that is still at work under the lease the row shows.
AtWork(m) ==
  \E w \in Workers : pc[w] \in Holding /\ msg[w] = m /\ run[w] = sources[m].attempts

\* Five minutes pass.  A lease that runs out under a working invocation, which
\* then goes on, is counted as a fault.
LeaseExpires(m) ==
  /\ sources[m].lease = "LIVE"
  /\ sources' = [sources EXCEPT ![m].lease = "EXPIRED"]
  /\ \/ AtWork(m) /\ faults < MaxFaults /\ faults' = faults + 1
     \/ ~AtWork(m) /\ UNCHANGED faults
  /\ UNCHANGED <<legacy, runs, events, links, reviews, complaints, locals>>

-----------------------------------------------------------------------------
Proceed(w) ==
  \/ Inspect(w) \/ ReadLegacy(w) \/ InsertLegacy(w) \/ UpdateLegacy(w)
  \/ ReadAttempts(w) \/ ClaimLease(w) \/ InsertRun(w)
  \/ MarkIgnored(w) \/ ResolveIdentity(w)
  \/ ReadFollowUps(w) \/ AttachFollowUp(w)
  \/ LoadState(w) \/ PersistCase(w) \/ MarkCase(w)
  \/ MarkReview(w) \/ CommitEvent(w) \/ MarkFailed(w) \/ Finish(w)

Next ==
  \/ \E w \in Workers :
       \/ \E m \in Messages : Deliver(w, m)
       \/ Proceed(w)
       \/ StatementFails(w)
       \/ Die(w)
  \/ \E m \in Messages : LeaseExpires(m)

Spec == Init /\ [][Next]_vars

-----------------------------------------------------------------------------
\* Fairness: a running invocation goes on (or dies); pollEmail hands every
\* message of the mailbox window over again on every poll; and time passes.
Fairness ==
  /\ \A w \in Workers : WF_vars(Proceed(w))
  /\ \A m \in Messages : SF_vars(\E w \in Workers : Deliver(w, m))
  /\ \A m \in Messages : WF_vars(LeaseExpires(m))

FairSpec == Spec /\ Fairness

-----------------------------------------------------------------------------
\* Behaviors without the two races between a read and its write-back.  What an
\* invocation will write back it holds in `snapshot` or in `read`.

\* No two invocations are between loadState and persistState.
LoadsApart ==
  \A v, w \in Workers : pc[v] = "persistCase" /\ pc[w] = "persistCase" => v = w

LoadsApartSpec == Init /\ [][Next /\ LoadsApart']_vars

\* Nor between the SELECT of follow_ups and their UPDATE, nor one of each.
WritesBack == {"persistCase", "attachFollowUp"}
WindowsApart ==
  \A v, w \in Workers : pc[v] \in WritesBack /\ pc[w] \in WritesBack => v = w

WindowsApartSpec == Init /\ [][Next /\ WindowsApart']_vars

-----------------------------------------------------------------------------
\* Properties

\* Types of the tables and of the invocations' locals; an invocation that is
\* not idle has a message, and the complaint it goes on to write exists.
TypeOK ==
  /\ sources \in [Messages -> SourceRow]
  /\ legacy \in [Messages -> LegacyRow]
  /\ runs \subseteq RunRow
  /\ events \in [Messages -> EventRow]
  /\ links \in [Messages -> LinkRow]
  /\ reviews \in [Messages -> SUBSET Nat]
  /\ complaints \in Seq(ComplaintRow)
  /\ pc \in [Workers -> Holding \cup {"idle", "inspect", "readLegacy", "insertLegacy",
                                      "updateLegacy", "readAttempts", "claimLease"}]
  /\ msg \in [Workers -> Messages \cup {NoMessage}]
  /\ deadRun \in [Workers -> Nat]
  /\ run \in [Workers -> Nat]
  /\ target \in [Workers -> Nat]
  /\ read \in [Workers -> FollowUps]
  /\ snapshot \in [Workers -> Seq(ComplaintRow)]
  /\ outcome \in [Workers -> Outcomes \cup {"NONE", "FAILED"}]
  /\ faults \in Nat

\* acquireProcessingLease hands out every attempt number of a message once: two
\* invocations that both got past the claim hold different runs, however the
\* leases expired or were released, and the run row is still free to insert.
ExclusiveRuns ==
  \A w \in Workers : pc[w] \in Holding =>
    /\ run[w] \in 1..sources[msg[w]].attempts
    /\ \A v \in Workers \ {w} :
         pc[v] \in Holding /\ msg[v] = msg[w] => run[v] # run[w]
    /\ pc[w] = "insertRun" =>
         \A r \in runs : r.msg = msg[w] => r.number # run[w]

\* What the tables hold for a message in its settled state.
Backed(m) ==
  /\ sources[m].state = "COMPLETED" => events[m].type \in CaseEvents /\ links[m].role # "NONE"
  /\ sources[m].state = "REVIEW_REQUIRED" =>
       /\ events[m].type = "REVIEW_REQUIRED"
       /\ reviews[m] = {events[m].run}
       /\ links[m].role = "NONE"
  /\ sources[m].state = "NON_ACTIONABLE" => events[m].type = "NON_ACTIONABLE"
  /\ sources[m].state \in Settled => \E r \in runs : r.msg = m /\ r.status = sources[m].state

\* A settled source row tells the truth about the other tables, although
\* finishProcessing is a later transaction than commitCanonicalEvent, and often
\* another invocation's: COMPLETED mail has its case event and its complaint
\* link, REVIEW_REQUIRED mail has exactly one review item, for its event, and no
\* link, ignored mail has its NON_ACTIONABLE event; and some run ended that way.
SettledStateIsBacked == \A m \in Messages : Backed(m)

\* The ledger commitCanonicalEvent writes agrees with itself at every moment: a
\* complaint link says what the message's one event says, of a complaint that
\* exists, and a review item is only there for a REVIEW_REQUIRED event of the
\* same run, so there is never a second one or one beside a link.
LedgerAgrees ==
  \A m \in Messages :
    /\ links[m].role # "NONE" =>
         /\ events[m].type \in CaseEvents
         /\ links[m].complaint = events[m].complaint
         /\ links[m].complaint \in DOMAIN complaints
    /\ reviews[m] = IF events[m].type = "REVIEW_REQUIRED" THEN {events[m].run} ELSE {}
    /\ events[m].type # "NONE" =>
         \E r \in runs : r.msg = m /\ r.number = events[m].run

\* No two complaints carry the same external case id, with the table's UNIQUE
\* constraint left out of the model: between invocations that all found the case
\* new, createComplaint's own lookup and the reuse of SR ids keep it so, and the
\* constraint never rejects a persistState.
OneComplaintPerCase ==
  \A c, d \in DOMAIN complaints : complaints[c].case = complaints[d].case => c = d

\* Mail that shows a case id is linked to the complaint of that case, and so is
\* its gmail_messages row, by which the acknowledgment finds the message.
CaseIdDecides ==
  \A m \in Messages : CaseOf[m] # NoCase =>
    /\ links[m].role # "NONE" => complaints[links[m].complaint].case = CaseOf[m]
    /\ legacy[m].complaint # 0 => complaints[legacy[m].complaint].case = CaseOf[m]

\* A message linked as a follow-up is quoted by the complaint it is linked to,
\* from then on: no write-back of follow_ups drops it.
FollowUpIsQuoted ==
  \A m \in Messages :
    links[m].role = "FOLLOW_UP" => complaints[links[m].complaint].followUps[m] > 0

\* A message is claimed again only after the lease of its current run ended or
\* that run's invocation did (OPERATIONS.md: "active leases are not stolen").
ActiveLeaseNotStolen ==
  [][\A m \in Messages :
       sources'[m].attempts > sources[m].attempts =>
         sources[m].lease = "EXPIRED" \/ ~AtWork(m)]_vars

\* Intake of each message implements the promise of MailSource.
Source == INSTANCE MailSource WITH
  state    <- [m \in Messages |-> sources[m].state],
  attempts <- [m \in Messages |-> sources[m].attempts],
  event    <- [m \in Messages |-> events[m].type]

SourcePromise == Source!Spec

\* The mail that shows a case id, and what the acknowledgment reads of it: which
\* cases have a complaint, and what a message is to the complaint its row names.
Identified == {m \in Messages : CaseOf[m] # NoCase}
Known == [c \in Cases |-> \E i \in DOMAIN complaints : complaints[i].case = c]
SourceRole ==
  [m \in Identified |-> IF legacy[m].followUp THEN "FOLLOW_UP"
                        ELSE IF legacy[m].complaint # 0 THEN "INITIAL" ELSE "NONE"]

Rows == INSTANCE MailRows WITH
  Messages <- Identified,
  known    <- Known,
  source   <- SourceRole

\* Intake shows the acknowledgment what MailRows promises, which MailAck relies on.
RowsPromise == Rows!Spec

\* A complaint that shows a case id, and mail that is no complaint, is settled
\* sooner or later, whatever fails on the way.
IdentifiedMailSettles ==
  \A m \in Messages :
    CaseOf[m] # NoCase \/ m \notin Complaints =>
      (sources[m].state = "DISCOVERED" ~> sources[m].state \in Settled)
=============================================================================
