--------------------------- MODULE ComplaintDesk ---------------------------
(***************************************************************************)
(* The life of a complaint: createComplaint, updateComplaint and           *)
(* processDeadlines (src/lib/workflow.ts), the API routes and the          *)
(* scheduled job that call them (worker/index.ts, worker/operations.ts),   *)
(* and the repository they share (worker/d1.ts).                           *)
(*                                                                         *)
(* A process loads the whole state, changes its copy, and writes all of    *)
(* it back, in batches; processes that send notifications write it again   *)
(* afterwards.  Nothing checks that a row is still what was loaded.        *)
(*                                                                         *)
(* Left out: texts, names, stores (a complaint is routed to a manager or   *)
(* not), notifications (SmsDelivery), follow-ups (MailIntake) and          *)
(* customer contact, which change no field that is modelled.  Statements   *)
(* that repeat what is stored (users, settings, old events) are not        *)
(* modelled, so a batch may end anywhere between those that are.           *)
(***************************************************************************)
EXTENDS Naturals, FiniteSets

CONSTANTS
  Requests,       \* API requests in flight
  Job,            \* the scheduled job: its lock keeps a second one out
  MaxComplaints,  \* bound
  MaxOps,         \* bound: requests that are started
  MaxFaults       \* bound: calls that throw, invocations that die

Processes == Requests \cup {Job}
Complaints == 1..MaxComplaints                  \* the number in the SR id

ASSUME DeskAssumption ==
  /\ IsFiniteSet(Requests)
  /\ Job \notin Requests
  /\ MaxComplaints \in Nat

VARIABLES
  \* D1 tables
  rows,       \* complaints
  log,        \* complaint_events: the marks whose event is stored
  repeated,   \* complaint_events: lateness that has more than one event
  escalated,  \* escalation_events: (complaint, type), unique
  \* the clock
  time,       \* 0; 1: acknowledgments are due; 2: resolutions too
  \* locals of a process
  pc, seen, next, fresh, done,
  \* history and bounds
  lost,       \* complaints whose flags were overwritten by one who had not read them
  ops, faults

tables == <<rows, log, repeated, escalated>>
locals == <<pc, seen, next, fresh, done>>
bounds == <<ops, faults>>
vars == <<tables, time, locals, lost, bounds>>

-----------------------------------------------------------------------------
\* A complaint

Status == {"ROUTING_REVIEW", "MANAGER_NOTIFIED", "ACKNOWLEDGED", "INVESTIGATING",
           "RESOLUTION_SUBMITTED", "CLOSED"}
Late == {"ackLate", "resLate"}     \* isAckOverdue, isResolutionOverdue

\* managerAcknowledgedAt, resolutionSubmittedAt, closedAt, reopenedAt, and the
\* two flags: those that are set.  Each is set together with an event.
Marks == {"acked", "submitted", "closed", "reopened"} \cup Late

Row == [status : Status, marks : SUBSET Marks, live : BOOLEAN]
Flags(row) == row.marks \cap Late
NoRow == [status |-> "ABSENT", marks |-> {}, live |-> FALSE]
Table == [Complaints -> Row \cup {NoRow}]
Empty == [c \in Complaints |-> NoRow]

Count(table) == Cardinality({c \in Complaints : table[c] # NoRow})

\* createComplaint: routed to a manager by the store's number, or not.
Created(routed, live) ==
  [status |-> IF routed THEN "MANAGER_NOTIFIED" ELSE "ROUTING_REVIEW",
   marks |-> {}, live |-> live]

\* updateComplaint.  Only the assigned manager gets past the first four, and a
\* complaint in ROUTING_REVIEW has none; only an owner past the last two.
Actions == {"ACKNOWLEDGE", "START_INVESTIGATION", "SUBMIT_RESOLUTION", "CLOSE", "REOPEN"}

From == [ACKNOWLEDGE         |-> "MANAGER_NOTIFIED",
         START_INVESTIGATION |-> "ACKNOWLEDGED",
         SUBMIT_RESOLUTION   |-> "INVESTIGATING",
         CLOSE               |-> "RESOLUTION_SUBMITTED",
         REOPEN              |-> "CLOSED"]

To == [ACKNOWLEDGE         |-> "ACKNOWLEDGED",
       START_INVESTIGATION |-> "INVESTIGATING",
       SUBMIT_RESOLUTION   |-> "RESOLUTION_SUBMITTED",
       CLOSE               |-> "CLOSED",
       REOPEN              |-> "INVESTIGATING"]

MarkOf == [ACKNOWLEDGE         |-> {"acked"},
           START_INVESTIGATION |-> {},
           SUBMIT_RESOLUTION   |-> {"submitted"},
           CLOSE               |-> {"closed"},
           REOPEN              |-> {"reopened"}]

\* Variant with a fault: a resolution may be reopened before it is closed.
PermitsReopenEarly(action, row) ==
  \/ row.status = From[action]
  \/ action = "REOPEN" /\ row.status = "RESOLUTION_SUBMITTED"

\* The status checks of updateComplaint.
Permits(action, row) == row.status = From[action]

\* Variant with a fault: reopening leaves closedAt.
AppliedStillClosed(action, row) ==
  [row EXCEPT !.status = To[action], !.marks = @ \cup MarkOf[action]]

Applied(action, row) ==
  [row EXCEPT !.status = To[action],
              !.marks = (@ \ (IF action = "REOPEN" THEN {"closed"} ELSE {})) \cup MarkOf[action]]

\* Variant with a fault: a flag that is set does not stop it from being set again.
LatenessRepeated(row, passed) ==
  IF ~row.live THEN {}
  ELSE {k \in passed : /\ k = "ackLate" => "acked" \notin row.marks
                       /\ k = "resLate" => "submitted" \notin row.marks /\ row.status # "CLOSED"}

\* Variant with a fault: complaints of old mail are not skipped.
LatenessOfAll(row, passed) ==
  {k \in passed \ row.marks :
     /\ k = "ackLate" => "acked" \notin row.marks
     /\ k = "resLate" => "submitted" \notin row.marks /\ row.status # "CLOSED"}

\* Variant with a fault: a complaint without a manager is forgotten.
LatenessOfRouted(row, passed) ==
  IF ~row.live \/ row.status = "ROUTING_REVIEW" THEN {}
  ELSE {k \in passed \ row.marks :
          /\ k = "ackLate" => "acked" \notin row.marks
          /\ k = "resLate" => "submitted" \notin row.marks /\ row.status # "CLOSED"}

\* processDeadlines: the flags it sets, given the deadlines that passed.
Lateness(row, passed) ==
  IF ~row.live THEN {}
  ELSE {k \in passed \ row.marks :
          /\ k = "ackLate" => "acked" \notin row.marks
          /\ k = "resLate" => "submitted" \notin row.marks /\ row.status # "CLOSED"}

\* metrics
AwaitingAck(row) == "acked" \notin row.marks /\ row.status # "CLOSED"
AwaitingResolution(row) == "acked" \in row.marks /\ "submitted" \notin row.marks

-----------------------------------------------------------------------------
\* A complaint that was handled without any disturbance, as far as this status.
Undisturbed ==
  {[status |-> "ABSENT", marks |-> {}, live |-> FALSE],
   [status |-> "MANAGER_NOTIFIED", marks |-> {}, live |-> TRUE],
   [status |-> "INVESTIGATING", marks |-> {"acked"}, live |-> TRUE],
   [status |-> "CLOSED", marks |-> {"acked", "submitted", "closed"}, live |-> TRUE]}

\* The oldest complaint may have a past.
Init ==
  /\ \E row \in Undisturbed : rows = [c \in Complaints |-> IF c = 1 THEN row ELSE NoRow]
  /\ log = [c \in Complaints |-> rows[c].marks]
  /\ repeated = {}
  /\ escalated = {}
  /\ time = 0
  /\ pc = [p \in Processes |-> "idle"]
  /\ seen = [p \in Processes |-> Empty]
  /\ next = [p \in Processes |-> Empty]
  /\ fresh = [p \in Processes |-> [c \in Complaints |-> {}]]
  /\ done = [p \in Processes |-> 0]
  /\ lost = {}
  /\ ops = 0
  /\ faults = 0

\* The deadlines that have passed at time t: that of the resolution is the later.
Passed(t) == {k \in Late : t >= (IF k = "ackLate" THEN 1 ELSE 2)}

\* Deadlines pass.  (A complaint that is created afterwards may be late at once.)
Tick ==
  /\ time < 2
  /\ time' = time + 1
  /\ UNCHANGED <<tables, locals, lost, bounds>>

\* loadState, and the change of the copy, which awaits nothing.
Load(p, label, table, events) ==
  /\ pc[p] = "idle"
  /\ pc' = [pc EXCEPT ![p] = label]
  /\ seen' = [seen EXCEPT ![p] = rows]
  /\ next' = [next EXCEPT ![p] = table]
  /\ fresh' = [fresh EXCEPT ![p] = events]
  /\ done' = [done EXCEPT ![p] = 0]
  /\ UNCHANGED <<tables, time, lost, faults>>

NoEvents == [c \in Complaints |-> {}]
Started == ops < MaxOps /\ ops' = ops + 1

\* POST /api/complaints, and the intake, which also creates complaints of old
\* mail (BACKFILL).  Another request may be at the same id.
Create(r, routed, live) ==
  LET id == Count(rows) + 1 IN
  /\ id \in Complaints
  /\ Load(r, "persist", [rows EXCEPT ![id] = Created(routed, live)], NoEvents)
  /\ Started

\* POST /api/complaints/:id/actions; what updateComplaint refuses is not written.
Act(r, c, action) ==
  /\ rows[c] # NoRow
  /\ Permits(action, rows[c])
  /\ Load(r, "persist", [rows EXCEPT ![c] = Applied(action, @)],
          [NoEvents EXCEPT ![c] = MarkOf[action]])
  /\ Started

\* What processDeadlines makes of the table at time t.
Flagged(t) ==
  [c \in Complaints |-> [rows[c] EXCEPT !.marks = @ \cup Lateness(rows[c], Passed(t))]]
NewlyLate(t) == [c \in Complaints |-> Lateness(rows[c], Passed(t))]

\* POST /api/admin/deadlines; advanceHours is added to the time.
Deadlines(r, t) ==
  /\ t >= time
  /\ Load(r, "persist", Flagged(t), NewlyLate(t))
  /\ Started

\* PUT /api/admin/config and contacts: nothing of a complaint changes.
Save(r) ==
  /\ Load(r, "save", rows, NoEvents)
  /\ Started

\* The cron trigger: deadlines first.
RunJob ==
  /\ Load(Job, "job", Flagged(time), NewlyLate(time))
  /\ UNCHANGED ops

-----------------------------------------------------------------------------
\* persistState: for each complaint, the newest first, its row, then its events.

Size(p) == 2 * Count(next[p])
RowAt(p, c) == 2 * (Count(next[p]) - c) + 1
EventsAt(p, c) == RowAt(p, c) + 1

\* The complaints whose row, or whose events, are among statements done+1..k.
RowsIn(p, k) == {c \in Complaints : next[p][c] # NoRow /\ RowAt(p, c) \in done[p] + 1..k}

\* Variant with a fault: the last statement of a batch is left out.
EventsInShort(p, k) == {c \in Complaints : next[p][c] # NoRow /\ EventsAt(p, c) \in done[p] + 1..k - 1}

EventsIn(p, k) == {c \in Complaints : next[p][c] # NoRow /\ EventsAt(p, c) \in done[p] + 1..k}

\* Rows are upserted whatever they have become; events are ignored if stored.
Commit(p, k) ==
  /\ rows' = [c \in Complaints |-> IF c \in RowsIn(p, k) THEN next[p][c] ELSE rows[c]]
  /\ lost' = lost \cup {c \in RowsIn(p, k) : Flags(rows[c]) # Flags(seen[p][c])}
  /\ log' = [c \in Complaints |->
               IF c \in EventsIn(p, k) THEN log[c] \cup fresh[p][c] ELSE log[c]]
  /\ repeated' = repeated \cup
       {e \in EventsIn(p, k) \X Late : e[2] \in fresh[p][e[1]] \cap log[e[1]]}

Saving == {"persist", "save", "job", "again"}

\* One batch, not the last.
Batch(p) ==
  /\ pc[p] \in Saving
  /\ \E k \in done[p] + 1..Size(p) - 1 :
       /\ Commit(p, k)
       /\ done' = [done EXCEPT ![p] = k]
  /\ UNCHANGED <<escalated, time, pc, seen, next, fresh, bounds>>

\* Where a process goes when its state is written.
After == [persist |-> "again", save |-> "idle", job |-> "escalate", again |-> "idle"]

\* What a process that is done remembers.
Forget(p) ==
  /\ seen' = [seen EXCEPT ![p] = Empty]
  /\ next' = [next EXCEPT ![p] = Empty]
  /\ fresh' = [fresh EXCEPT ![p] = NoEvents]
  /\ done' = [done EXCEPT ![p] = 0]

\* The last batch.
LastBatch(p) ==
  /\ pc[p] \in Saving
  /\ Commit(p, Size(p))
  /\ pc' = [pc EXCEPT ![p] = After[pc[p]]]
  /\ IF After[pc[p]] = "idle" THEN Forget(p)
     ELSE /\ seen' = IF pc[p] = "job" THEN seen ELSE [seen EXCEPT ![p] = next[p]]
          /\ fresh' = [fresh EXCEPT ![p] = NoEvents]
          /\ done' = [done EXCEPT ![p] = 0]
          /\ UNCHANGED next
  /\ UNCHANGED <<escalated, time, bounds>>

\* Variant with a fault: whatever is overdue is escalated, stored or not.
EscalationsOfClock == {e \in Complaints \X Late : e[2] \in Lateness(rows[e[1]], Passed(time))}

\* recordEscalations: the flags that differ between before and after.
Escalations ==
  {e \in Complaints \X Late : e[2] \in next[Job][e[1]].marks \ seen[Job][e[1]].marks}

\* One batch of INSERT OR IGNORE; then dispatchEligible, which persists again.
Escalate ==
  /\ pc[Job] = "escalate"
  /\ escalated' = escalated \cup Escalations
  /\ pc' = [pc EXCEPT ![Job] = "again"]
  /\ seen' = [seen EXCEPT ![Job] = next[Job]]
  /\ UNCHANGED <<rows, log, repeated, time, next, fresh, done, lost, bounds>>

\* A call throws or the invocation dies: what it did not write is gone.
Fail(p) ==
  /\ pc[p] # "idle"
  /\ faults < MaxFaults
  /\ faults' = faults + 1
  /\ pc' = [pc EXCEPT ![p] = "idle"]
  /\ Forget(p)
  /\ UNCHANGED <<tables, time, lost, ops>>

Write(p) == Batch(p) \/ LastBatch(p)

Next ==
  \/ Tick
  \/ \E r \in Requests :
       \/ \E routed, live \in BOOLEAN : Create(r, routed, live)
       \/ \E c \in Complaints, action \in Actions : Act(r, c, action)
       \/ \E t \in 0..2 : Deadlines(r, t)
       \/ Save(r)
  \/ RunJob
  \/ Escalate
  \/ \E p \in Processes : Write(p) \/ Fail(p)

Spec == Init /\ [][Next]_vars

\* Fairness: the trigger fires every five minutes and the job goes on.
FairSpec == Spec /\ WF_vars(RunJob \/ Escalate \/ Write(Job))

-----------------------------------------------------------------------------
\* Properties

\* Types of all variables.
TypeOK ==
  /\ rows \in Table
  /\ log \in [Complaints -> SUBSET Marks]
  /\ repeated \subseteq Complaints \X Late
  /\ escalated \subseteq Complaints \X Late
  /\ time \in 0..2
  /\ pc \in [Processes -> {"idle", "escalate"} \cup Saving]
  /\ seen \in [Processes -> Table]
  /\ next \in [Processes -> Table]
  /\ fresh \in [Processes -> [Complaints -> SUBSET Marks]]
  /\ done \in [Processes -> Nat]
  /\ lost \subseteq Complaints
  /\ ops \in Nat
  /\ faults \in Nat

\* The fields of a row agree, whoever overwrote whom: closedAt is that of a
\* closed complaint, no step was skipped, only live complaints are late, and an
\* open complaint is counted as awaited (metrics) unless it was reopened.
Agrees(row) ==
  /\ "closed" \in row.marks <=> row.status = "CLOSED"
  /\ "acked" \in row.marks <=> row.status \notin {"ROUTING_REVIEW", "MANAGER_NOTIFIED", "ABSENT"}
  /\ row.status \in {"RESOLUTION_SUBMITTED", "CLOSED"} => "submitted" \in row.marks
  /\ row.marks \cap Late # {} => row.live
  /\ row.status \notin {"ABSENT", "CLOSED", "RESOLUTION_SUBMITTED"} =>
       AwaitingAck(row) \/ AwaitingResolution(row) \/ "reopened" \in row.marks

RowsAgree == \A c \in Complaints : Agrees(rows[c])

\* The audit history backs the row (ARCHITECTURE.md: immutable audit history):
\* what a row says happened has its event, unless a batch is still to come or was
\* lost with its invocation.
EventBacksRow ==
  \A c \in Complaints : \A mark \in rows[c].marks :
    mark \in log[c] \/ faults > 0 \/ \E p \in Processes : mark \in fresh[p][c] /\ done[p] > 0

\* An escalation is never recorded before its overdue event, in spite of faults.
EscalationIsBacked == \A e \in escalated : e[2] \in log[e[1]]

\* A status leaves the life cycle only where a row is overwritten by one who did
\* not read its last change; ROUTING_REVIEW is never left otherwise.
LifecycleHolds ==
  [][\A c \in Complaints :
       \/ rows'[c].status = rows[c].status
       \/ rows[c] = NoRow
       \/ \E action \in Actions : rows[c].status = From[action] /\ rows'[c].status = To[action]
       \/ \E p \in Processes : rows[c] # seen[p][c] /\ rows'[c] = next[p][c]]_vars

\* A missed deadline is alerted once (IMPLEMENTATION_PLAN.md: idempotent
\* missed-deadline alerts), unless its flag was overwritten unread.
AlertedOnce == \A e \in repeated : e[1] \in lost

\* A deadline of a live complaint passed unanswered, and the row does not say so.
Missed(c, k) ==
  /\ rows[c].live
  /\ k \in Passed(time) \ rows[c].marks
  /\ IF k = "ackLate" THEN AwaitingAck(rows[c])
     ELSE "submitted" \notin rows[c].marks /\ rows[c].status # "CLOSED"

\* Such a complaint gets flagged, or answered.
LateIsFlagged == \A c \in Complaints, k \in Late : Missed(c, k) ~> ~Missed(c, k)
=============================================================================
