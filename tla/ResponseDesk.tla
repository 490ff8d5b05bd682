---------------------------- MODULE ResponseDesk ----------------------------
(***************************************************************************)
(* What owners and admins do by hand about mail: written responses to a    *)
(* complaint, from draft to approval (worker/response-workflow.ts and its  *)
(* routes), and the review queue (worker/index.ts, /api/review-queue).     *)
(* Each route is a sequence of D1 statements; people work at once.         *)
(*                                                                         *)
(* AdmittedStates, Kinds and Contents are what the CHECKs of the table     *)
(* response_actions accept; the theorems hold for any.  Those of           *)
(* drizzle/0006 refuse every draft: nothing would happen under them, and   *)
(* the instance takes what the code writes, as its tests do.  Complaints,  *)
(* users and templates are there throughout.  Left out: bodies, templates, *)
(* and sendResponseAction, which reads the row and throws in any case.     *)
(***************************************************************************)
EXTENDS Naturals, FiniteSets

CONSTANTS
  People,            \* owners and admins, each with one request under way
  Actions, Items,    \* rows of response_actions and mail_review_items
  Complaints,
  Kinds,             \* response_kind values that are asked for
  AdmittedStates, AdmittedKinds, AdmittedContents,
  None,
  MaxOps,            \* bound: requests
  MaxFaults          \* bound: calls that throw

States == {"DRAFT", "PENDING_APPROVAL", "APPROVED", "REJECTED"}
Decisions == {"APPROVED", "REJECTED"}
Verdicts == {"submit", "approve", "reject"}

ASSUME ResponseDeskAssumption ==
  /\ None \notin People /\ None \notin Complaints /\ None \notin States
  /\ Actions # {}

VARIABLES
  rows,    \* response_actions: complaint_id, response_kind, policy_state, approved_by
  items,   \* mail_review_items: status is OPEN, complaint_id, reviewed_by, resolution_json
  \* locals of a request
  pc, want, seen,
  \* history
  told,    \* the decisions and resolutions that were answered ok
  \* bounds
  ops, faults

vars == <<rows, items, pc, want, seen, told, ops, faults>>

NoRow == [complaint |-> None, kind |-> None, state |-> None, by |-> None]
Row == [complaint : Complaints, kind : Kinds, state : States, by : People \cup {None}]
Resolution == [action : {"link", "dismiss"}, complaint : Complaints \cup {None}, by : People]
Item == [open : BOOLEAN, complaint : Complaints \cup {None}, reviewer : People \cup {None},
         resolution : {<<>>} \cup {<<x>> : x \in Resolution}]
Want == [op : Verdicts, on : Actions]
Judged == [op : {"judge"}, on : Actions, row : Row]
Resolved == [op : {"resolve"}, on : Items, item : Item]

Init ==
  /\ rows = [a \in Actions |-> NoRow]
  /\ items = [i \in Items |->
                [open |-> TRUE, complaint |-> None, reviewer |-> None, resolution |-> <<>>]]
  /\ pc = [p \in People |-> "idle"]
  /\ want = [p \in People |-> [op |-> "submit", on |-> CHOOSE a \in Actions : TRUE]]
  /\ seen = [p \in People |-> "DRAFT"]
  /\ told = {}
  /\ ops = 0
  /\ faults = 0

-----------------------------------------------------------------------------
Goto(p, label) == pc' = [pc EXCEPT ![p] = label]
Fault == faults < MaxFaults /\ faults' = faults + 1
Begin(p) == pc[p] = "idle" /\ ops < MaxOps /\ ops' = ops + 1

\* The answer is given, or the call that would have told it throws.
Answer(t) ==
  \/ told' = told \cup {t} /\ UNCHANGED faults
  \/ Fault /\ UNCHANGED told

Made == {a \in Actions : rows[a] # NoRow}

-----------------------------------------------------------------------------
\* Responses

\* UNIQUE(complaint_id,response_kind,policy_version); there is one policy version.
Clashes(c, k) == \E a \in Made : rows[a].complaint = c /\ rows[a].kind = k

\* The CHECKs of response_actions on a new row.
Admits(k) ==
  "DRAFT" \in AdmittedStates /\ k \in AdmittedKinds /\ "draft-body" \in AdmittedContents

\* POST /api/complaints/:id/response-drafts: the INSERT.  A constraint that refuses
\* the row makes it throw: an error answer, and nothing changes.
Draft(p, a, c, k) ==
  /\ Begin(p)
  /\ a \notin Made
  /\ IF Admits(k) /\ ~Clashes(c, k)
     THEN rows' = [rows EXCEPT ![a] =
                     [complaint |-> c, kind |-> k, state |-> "DRAFT", by |-> None]]
     ELSE UNCHANGED rows
  /\ UNCHANGED <<items, pc, want, seen, told, faults>>

\* Variant with a fault: an approval is stored as blocked, for nothing is sent.
ToBlocked(op) == CASE op = "submit" -> "PENDING_APPROVAL"
                   [] op = "approve" -> "SEND_BLOCKED"
                   [] op = "reject" -> "REJECTED"

\* transitionState(from, to), for the routes submit, approve and reject.
\* It finds the row in From(op) and leaves it in To(op).
From(op) == IF op = "submit" THEN {"DRAFT"} ELSE {"PENDING_APPROVAL"}
To(op) == CASE op = "submit" -> "PENDING_APPROVAL"
            [] op = "approve" -> "APPROVED"
            [] op = "reject" -> "REJECTED"

\* SELECT: from another state it is an INVALID_TRANSITION.
Read(p, op, a) ==
  /\ Begin(p)
  /\ a \in Made
  /\ rows[a].state \in From(op)
  /\ want' = [want EXCEPT ![p] = [op |-> op, on |-> a]]
  /\ seen' = [seen EXCEPT ![p] = rows[a].state]
  /\ Goto(p, "write")
  /\ UNCHANGED <<rows, items, told, faults>>

\* Variant with a fault: the UPDATE has no AND policy_state=?.
HoldsAnyway(p) == TRUE

\* UPDATE ... WHERE id=? AND policy_state=?
Holds(p) == rows[want[p].on].state = seen[p]

\* What the UPDATE sets: the state, and on a decision who took it.
Moved(row, op, p) == [row EXCEPT !.state = To(op), !.by = IF op = "submit" THEN @ ELSE p]

\* The UPDATE; a CHECK may refuse the new state.  Its changes are not counted.
Write(p) ==
  /\ pc[p] = "write"
  /\ LET a == want[p].on
         op == want[p].op
     IN IF ~Holds(p) THEN Goto(p, "reread") /\ UNCHANGED rows
        ELSE IF To(op) \in AdmittedStates
        THEN Goto(p, "reread") /\ rows' = [rows EXCEPT ![a] = Moved(@, op, p)]
        ELSE Goto(p, "idle") /\ UNCHANGED rows
  /\ UNCHANGED <<items, want, seen, told, ops, faults>>

\* Variant with a fault: the answer is what was asked for.
ReadBackOfWant(p) ==
  [rows[want[p].on] EXCEPT !.state = To(want[p].op), !.by = p]

\* The row the answer shows.
ReadBack(p) == rows[want[p].on]

\* The row is read again and is the answer, also when the UPDATE changed nothing.
Reread(p) ==
  /\ pc[p] = "reread"
  /\ Goto(p, "idle")
  /\ Answer([op |-> "judge", on |-> want[p].on, row |-> ReadBack(p)])
  /\ UNCHANGED <<rows, items, want, seen, ops>>

\* A call throws, or the invocation dies.
Throws(p) ==
  /\ pc[p] # "idle"
  /\ Fault
  /\ Goto(p, "idle")
  /\ UNCHANGED <<rows, items, want, seen, told, ops>>

-----------------------------------------------------------------------------
\* The review queue

\* Variant with a fault: the UPDATE has no AND status='OPEN'.
IsOpenAnyway(i) == TRUE

\* UPDATE mail_review_items ... WHERE id=? AND status='OPEN', its changes counted.
IsOpen(i) == items[i].open

\* POST /api/review-queue/:id/resolve.  A link needs a complaint, which is looked up;
\* a dismissal may name one too, and the item joins it all the same.
Resolve(p, i, action, c) ==
  /\ Begin(p)
  /\ action = "link" => c # None
  /\ IsOpen(i)
  /\ LET item == [open |-> FALSE,
                  complaint |-> IF c = None THEN items[i].complaint ELSE c,
                  reviewer |-> p,
                  resolution |-> <<[action |-> action, complaint |-> c, by |-> p]>>]
     IN /\ items' = [items EXCEPT ![i] = item]
        /\ Answer([op |-> "resolve", on |-> i, item |-> item])
  /\ UNCHANGED <<rows, pc, want, seen>>

\* POST /api/review-queue/:id/assign.
Assign(p, i, assignee) ==
  /\ Begin(p)
  /\ IsOpen(i)
  /\ items' = [items EXCEPT ![i] = [@ EXCEPT !.reviewer = assignee]]
  /\ UNCHANGED <<rows, pc, want, seen, told, faults>>

-----------------------------------------------------------------------------
Next ==
  \E p \in People :
    \/ \E a \in Actions, c \in Complaints, k \in Kinds : Draft(p, a, c, k)
    \/ \E a \in Actions, op \in Verdicts : Read(p, op, a)
    \/ Write(p)
    \/ Reread(p)
    \/ Throws(p)
    \/ \E i \in Items, action \in {"link", "dismiss"}, c \in Complaints \cup {None} :
         Resolve(p, i, action, c)
    \/ \E i \in Items, assignee \in People : Assign(p, i, assignee)

Spec == Init /\ [][Next]_vars

-----------------------------------------------------------------------------
\* Properties

\* Types of all variables.
TypeOK ==
  /\ rows \in [Actions -> Row \cup {NoRow}]
  /\ items \in [Items -> Item]
  /\ pc \in [People -> {"idle", "write", "reread"}]
  /\ want \in [People -> Want]
  /\ seen \in [People -> States]
  /\ told \subseteq Judged \cup Resolved
  /\ ops \in Nat
  /\ faults \in Nat

\* A decision on a response, and who took it, is never overwritten: of an approval
\* and a rejection that both found it PENDING_APPROVAL, the first holds.
DecisionStands ==
  [][\A a \in Actions : rows[a].state \in Decisions => rows'[a] = rows[a]]_vars

\* The decision an answer shows is the one on record for good - be it the other's.
AnswerIsFinal ==
  \A t \in told : t.op = "judge" /\ t.row.state \in Decisions => rows[t.on] = t.row

\* A resolution of a review item that was answered ok is the one on record, with its
\* complaint and its reviewer: no second resolution or assignment replaces it.
ResolutionStands == \A t \in told : t.op = "resolve" => items[t.on] = t.item
=============================================================================
