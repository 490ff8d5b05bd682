---------------------------- MODULE SmsDelivery ----------------------------
(***************************************************************************)
(* The life of an SMS: planned with a complaint (worker/index.ts,          *)
(* src/lib/workflow.ts), sent by dispatchEligible through SignalWire       *)
(* (worker/providers.ts), then moved along by webhooks and by              *)
(* reconciliation (worker/callbacks.ts, worker/operations.ts).             *)
(*                                                                         *)
(* Requests - API routes, the scheduled job, the mail intake - load the    *)
(* whole state, work on that snapshot, and persist all of it; handlers -   *)
(* webhooks and reconciliations - read a row and write it two calls later. *)
(* Every awaited call is one action.                                       *)
(*                                                                         *)
(* Left out: the text of messages; which recipients a rollout mode permits *)
(* (Permitted); audit rows nobody reads.  All notifications have one       *)
(* recipient, whose number may change.  The snapshot is assumed to fit one *)
(* batch of persistState, and the provider to be configured.               *)
(***************************************************************************)
EXTENDS Naturals, Sequences, FiniteSets

CONSTANTS
  Requests,    \* API requests and scheduled jobs in flight
  Handlers,    \* webhook requests and reconciliations in flight
  Alerts,      \* notifications of complaints
  Tests,       \* notifications of the test route: they belong to no complaint
  Permitted,   \* the alerts whose recipient the rollout mode lets through
  NoHandled,   \* the notification of an idle handler
  MaxSms,      \* bound: SMS accepted by the provider
  MaxSwitches, \* bound: changes of the switch
  MaxMoves,    \* bound: changes of the phone number
  MaxFaults    \* bound: invocations that die

Notifications == Alerts \cup Tests

ASSUME NotificationsAssumption ==
  /\ Alerts \cap Tests = {}
  /\ Permitted \subseteq Alerts
  /\ NoHandled \notin Notifications
  /\ MaxSms \in Nat

VARIABLES
  \* D1 tables
  rows,         \* notifications: status and provider_message_id
  gate,         \* settings: external_notifications_enabled
  phone,        \* users: the recipient's phone, by the number of its changes
  callbackIds,  \* notification_callbacks: the primary keys
  recentTest,   \* test_notification_rate_limits: sent to in the last five minutes
  \* the provider's log
  sms,
  \* locals of a request
  pc, snap, todo,
  \* locals of a handler
  hpc, kind, sid, fetched, handled, seen,
  \* bounds and history
  switches, moves, faults,
  quiet         \* the switch was turned off and every request that saw it on is over

tables == <<rows, gate, phone, callbackIds, recentTest>>
request == <<pc, snap, todo>>
handler == <<hpc, kind, sid, fetched, handled, seen>>
bounds == <<switches, moves, faults>>
vars == <<tables, sms, request, handler, bounds, quiet>>

-----------------------------------------------------------------------------
\* Values

Terminal == {"DELIVERED", "FAILED", "UNDELIVERED"}
Status == {"ABSENT", "PENDING", "SENT", "SUPPRESSED"} \cup Terminal
Row == [status : Status, sid : Nat]              \* sid 0: provider_message_id is null

\* What the provider says of a message, and the status it stands for
\* ("sending" is as "queued").
ProviderStatus == {"queued", "sent", "delivered", "failed", "undelivered"}

\* Variant with a fault: a message handed to the carrier counts as delivered.
MappedOptimistic(s) ==
  CASE s = "queued"    -> "SENT"
    [] s \in {"sent", "delivered"} -> "DELIVERED"
    [] s = "failed"    -> "FAILED"
    [] OTHER           -> "UNDELIVERED"

\* Variant with a fault: the provider's word is written as it is.
MappedVerbatim(s) == s

Mapped(s) ==
  CASE s \in {"queued", "sent"} -> "SENT"
    [] s = "delivered"          -> "DELIVERED"
    [] s = "failed"             -> "FAILED"
    [] OTHER                    -> "UNDELIVERED"

\* The provider's record of a message: for which notification, to which number.
Sms == [for : Notifications, to : Nat, status : ProviderStatus]

Snapshot == [rows : [Notifications -> Row], gate : BOOLEAN, phone : Nat]
NoRow == [status |-> "ABSENT", sid |-> 0]
NoSnapshot == [rows |-> [n \in Notifications |-> NoRow], gate |-> FALSE, phone |-> 0]

Kinds == {"webhook", "stale", "manual"}

Init ==
  /\ rows = [n \in Notifications |-> NoRow]
  /\ gate \in BOOLEAN
  /\ phone = 0
  /\ callbackIds = {}
  /\ recentTest = FALSE
  /\ sms = <<>>
  /\ pc = [r \in Requests |-> "idle"]
  /\ snap = [r \in Requests |-> NoSnapshot]
  /\ todo = [r \in Requests |-> {}]
  /\ hpc = [h \in Handlers |-> "idle"]
  /\ kind = [h \in Handlers |-> "webhook"]
  /\ sid = [h \in Handlers |-> 0]
  /\ fetched = [h \in Handlers |-> "queued"]
  /\ handled = [h \in Handlers |-> NoHandled]
  /\ seen = [h \in Handlers |-> "ABSENT"]
  /\ switches = 0
  /\ moves = 0
  /\ faults = 0
  /\ quiet = ~gate

-----------------------------------------------------------------------------
\* loadState and persistState, as far as notifications, settings and users go

Goto(r, label) == pc' = [pc EXCEPT ![r] = label]

\* The request is over: its snapshot is gone.
Leave(r) ==
  /\ Goto(r, "idle")
  /\ snap' = [snap EXCEPT ![r] = NoSnapshot]
  /\ todo' = [todo EXCEPT ![r] = {}]

\* INSERT ... ON CONFLICT(id) DO UPDATE of every alert in the snapshot: the
\* status is the snapshot's, a stored provider_message_id outlives a null.
\* Test notifications have no complaint and are not in it.
Upserted(stored, loaded) ==
  [n \in Notifications |->
     IF n \in Tests \/ loaded[n].status = "ABSENT" THEN stored[n]
     ELSE [status |-> loaded[n].status,
           sid    |-> IF loaded[n].sid # 0 THEN loaded[n].sid ELSE stored[n].sid]]

\* persistState writes notifications, settings and users, whatever is in D1.
Persist(state) ==
  /\ rows' = Upserted(rows, state.rows)
  /\ gate' = state.gate
  /\ phone' = state.phone
  /\ UNCHANGED <<callbackIds, recentTest>>

\* Nothing is left that could send, or turn the switch on again.
Quiet == ~gate /\ \A r \in Requests : ~snap[r].gate
Watch == quiet' = (quiet \/ Quiet')

Load(r) ==
  /\ pc[r] = "idle"
  /\ snap' = [snap EXCEPT ![r] = [rows |-> rows, gate |-> gate, phone |-> phone]]
  /\ Goto(r, "loaded")
  /\ UNCHANGED <<tables, sms, todo, handler, bounds>>
  /\ Watch

-----------------------------------------------------------------------------
\* A request that changes complaints, or the job: plan, persist, dispatch, persist

\* What dispatchEligible will look at: PENDING and without a provider id.
Due(loaded) == {n \in Alerts : loaded[n].status = "PENDING" /\ loaded[n].sid = 0}

\* A notification the complaint operations add, if they add one.
Planned(state, n) ==
  [state EXCEPT !.rows[n] =
     [status |-> IF state.gate /\ n \in Permitted THEN "PENDING" ELSE "SUPPRESSED", sid |-> 0]]

\* What createComplaint, updateComplaint or processDeadlines may make of the
\* snapshot.  Notification ids are random: no other request plans the same one.
Changed(r) ==
  {snap[r]} \cup {Planned(snap[r], n) : n \in {a \in Alerts : rows[a].status = "ABSENT"}}

\* A route or the job: persistState, and then the dispatch.
Plan(r) ==
  /\ pc[r] = "loaded"
  /\ \E state \in Changed(r) :
       /\ Persist(state)
       /\ snap' = [snap EXCEPT ![r] = state]
       /\ todo' = [todo EXCEPT ![r] = Due(state.rows)]
  /\ Goto(r, "dispatch")
  /\ UNCHANGED <<sms, handler, bounds>>
  /\ Watch

\* The mail intake: createComplaint and persistState.  What it plans stays PENDING
\* until a later request dispatches it.
TakeIn(r) ==
  /\ pc[r] = "loaded"
  /\ \E state \in Changed(r) : Persist(state)
  /\ Leave(r)
  /\ UNCHANGED <<sms, handler, bounds>>
  /\ Watch

Answered(r, n, row) == snap' = [snap EXCEPT ![r].rows[n] = row]

\* Variant with a fault: what was planned as PENDING is sent whatever the switch.
AllowedOncePlanned(r, n) == n \in Permitted

\* The switch of the snapshot is on, and the rollout mode lets the recipient in.
Allowed(r, n) == snap[r].gate /\ n \in Permitted

Suppress(r, n) ==
  /\ pc[r] = "dispatch"
  /\ n \in todo[r]
  /\ ~Allowed(r, n)
  /\ Answered(r, n, [status |-> "SUPPRESSED", sid |-> snap[r].rows[n].sid])
  /\ todo' = [todo EXCEPT ![r] = @ \ {n}]
  /\ UNCHANGED <<tables, sms, pc, handler, bounds>>
  /\ Watch

\* The provider takes the message, to the number of the snapshot, and then its
\* answer arrives or does not; or it refuses.  Without an answer the row becomes
\* FAILED and has no id.
Accept(r, n) ==
  /\ Len(sms) < MaxSms
  /\ sms' = Append(sms, [for |-> n, to |-> snap[r].phone, status |-> "queued"])
  /\ \/ Answered(r, n, [status |-> "SENT", sid |-> Len(sms) + 1])
     \/ Answered(r, n, [status |-> "FAILED", sid |-> snap[r].rows[n].sid])

Refuse(r, n) ==
  /\ Answered(r, n, [status |-> "FAILED", sid |-> snap[r].rows[n].sid])
  /\ UNCHANGED sms

Send(r, n) ==
  /\ pc[r] = "dispatch"
  /\ n \in todo[r]
  /\ Allowed(r, n)
  /\ Accept(r, n) \/ Refuse(r, n)
  /\ todo' = [todo EXCEPT ![r] = @ \ {n}]
  /\ UNCHANGED <<tables, pc, handler, bounds>>
  /\ Watch

PersistDispatch(r) ==
  /\ pc[r] = "dispatch"
  /\ todo[r] = {}
  /\ Persist(snap[r])
  /\ Leave(r)
  /\ UNCHANGED <<sms, handler, bounds>>
  /\ Watch

-----------------------------------------------------------------------------
\* PUT /api/admin/config and PUT /api/admin/contacts/:id

ChangeGate(r) ==
  /\ pc[r] = "loaded"
  /\ switches < MaxSwitches
  /\ switches' = switches + 1
  /\ Persist([snap[r] EXCEPT !.gate = ~@])
  /\ Leave(r)
  /\ UNCHANGED <<sms, handler, moves, faults>>
  /\ quiet' = IF snap[r].gate THEN quiet \/ Quiet' ELSE FALSE

ChangePhone(r) ==
  /\ pc[r] = "loaded"
  /\ moves < MaxMoves
  /\ moves' = moves + 1
  /\ Persist([snap[r] EXCEPT !.phone = @ + 1])
  /\ Leave(r)
  /\ UNCHANGED <<sms, handler, switches, faults>>
  /\ Watch

-----------------------------------------------------------------------------
\* POST /api/admin/test-notifications: one message of its own, its row inserted
\* after the send, then the rate limit

\* A notification id of its own.
FreeTest(t) ==
  /\ rows[t] = NoRow
  /\ \A r \in Requests : t \notin todo[r]
  /\ \A k \in DOMAIN sms : sms[k].for # t

StartTest(r, t) ==
  /\ pc[r] = "loaded"
  /\ ~recentTest
  /\ FreeTest(t)
  /\ todo' = [todo EXCEPT ![r] = {t}]
  /\ Goto(r, "testSend")
  /\ UNCHANGED <<tables, sms, snap, handler, bounds>>
  /\ Watch

SendTest(r, t) ==
  /\ pc[r] = "testSend"
  /\ t \in todo[r]
  /\ \/ /\ ~snap[r].gate
        /\ Answered(r, t, [status |-> "SUPPRESSED", sid |-> 0])
        /\ UNCHANGED sms
     \/ /\ snap[r].gate
        /\ Accept(r, t) \/ Refuse(r, t)
  /\ Goto(r, "testInsert")
  /\ UNCHANGED <<tables, todo, handler, bounds>>
  /\ Watch

InsertTest(r, t) ==
  /\ pc[r] = "testInsert"
  /\ t \in todo[r]
  /\ rows' = [rows EXCEPT ![t] = snap[r].rows[t]]
  /\ Goto(r, "testLimit")
  /\ UNCHANGED <<gate, phone, callbackIds, recentTest, sms, snap, todo, handler, bounds>>
  /\ Watch

LimitTest(r) ==
  /\ pc[r] = "testLimit"
  /\ recentTest' = TRUE
  /\ Leave(r)
  /\ UNCHANGED <<rows, gate, phone, callbackIds, sms, handler, bounds>>
  /\ Watch

FiveMinutesPass ==
  /\ recentTest
  /\ recentTest' = FALSE
  /\ UNCHANGED <<rows, gate, phone, callbackIds, sms, request, handler, bounds, quiet>>

-----------------------------------------------------------------------------
\* Webhooks and reconciliations: fetch the authoritative record, read the row,
\* decide, write

Hear(h, k, why, label) ==
  /\ hpc' = [hpc EXCEPT ![h] = label]
  /\ kind' = [kind EXCEPT ![h] = why]
  /\ sid' = [sid EXCEPT ![h] = k]
  /\ fetched' = [fetched EXCEPT ![h] = sms[k].status]

Forget(h) ==
  /\ hpc' = [hpc EXCEPT ![h] = "idle"]
  /\ kind' = [kind EXCEPT ![h] = "webhook"]
  /\ sid' = [sid EXCEPT ![h] = 0]
  /\ fetched' = [fetched EXCEPT ![h] = "queued"]
  /\ handled' = [handled EXCEPT ![h] = NoHandled]
  /\ seen' = [seen EXCEPT ![h] = "ABSENT"]

\* A webhook - late, repeated, or for any message - names a message; what it
\* says is not believed: retrieveMessage asks the provider.
Webhook(h, k) ==
  /\ hpc[h] = "idle"
  /\ k \in DOMAIN sms
  /\ Hear(h, k, "webhook", "look")
  /\ UNCHANGED <<tables, sms, request, handled, seen, bounds, quiet>>

\* reconcileStaleSignalWire found the row SENT for long, by its own query.
Reconcile(h, n) ==
  /\ hpc[h] = "idle"
  /\ rows[n].status = "SENT" /\ rows[n].sid # 0
  /\ Hear(h, rows[n].sid, "stale", "look")
  /\ UNCHANGED <<tables, sms, request, handled, seen, bounds, quiet>>

\* The admin route: the switch must be off, and the recipient the test recipient.
ReconcileByHand(h, n) ==
  /\ hpc[h] = "idle"
  /\ n \in Tests
  /\ ~gate
  /\ rows[n].sid # 0
  /\ Hear(h, rows[n].sid, "manual", "look")
  /\ UNCHANGED <<tables, sms, request, handled, seen, bounds, quiet>>

\* The row is the provider's message, and so is its recipient.
Authentic(n, k) == rows[n].sid = k /\ sms[k].to = phone

\* A reconciliation goes on only with a terminal status, for a row that is not.
Settles(h, n) ==
  /\ Mapped(fetched[h]) \in Terminal
  /\ rows[n].status \notin Terminal

\* SELECT ... WHERE provider_message_id: NOT_FOUND, AUTHENTICITY_FAILED,
\* NON_TERMINAL, UNCHANGED - or go on.
Look(h) ==
  /\ hpc[h] = "look"
  /\ \/ \E n \in Notifications :
          /\ Authentic(n, sid[h])
          /\ kind[h] = "webhook" \/ Settles(h, n)
          /\ handled' = [handled EXCEPT ![h] = n]
          /\ seen' = [seen EXCEPT ![h] = rows[n].status]
          /\ hpc' = [hpc EXCEPT ![h] = IF kind[h] = "webhook" THEN "log" ELSE "write"]
          /\ UNCHANGED <<kind, sid, fetched>>
     \/ /\ \A n \in Notifications :
             Authentic(n, sid[h]) => kind[h] # "webhook" /\ ~Settles(h, n)
        /\ Forget(h)
  /\ UNCHANGED <<tables, sms, request, bounds, quiet>>

\* The primary key of notification_callbacks.
CallbackId(h) == <<sid[h], fetched[h]>>

\* Variant with a fault: every callback that is new is applied.
RegressesNever(h) == FALSE

\* terminal.has(notification.status) && notification.status !== status
Regresses(h) == seen[h] \in Terminal /\ seen[h] # Mapped(fetched[h])

\* INSERT OR IGNORE of the callback: DUPLICATE, IGNORED, or go on to the update.
LogCallback(h) ==
  /\ hpc[h] = "log"
  /\ callbackIds' = callbackIds \cup {CallbackId(h)}
  /\ \/ /\ CallbackId(h) \in callbackIds \/ Regresses(h)
        /\ Forget(h)
     \/ /\ CallbackId(h) \notin callbackIds /\ ~Regresses(h)
        /\ hpc' = [hpc EXCEPT ![h] = "write"]
        /\ UNCHANGED <<kind, sid, fetched, handled, seen>>
  /\ UNCHANGED <<rows, gate, phone, recentTest, sms, request, bounds, quiet>>

\* Variant with a fault: the update asks for a row that is still PENDING.
WritablePending(h) == kind[h] # "stale" \/ rows[handled[h]].status = "PENDING"

\* WHERE id=?, and for the scheduled reconciliation AND status='SENT'.
Writable(h) == kind[h] # "stale" \/ rows[handled[h]].status = "SENT"

WriteStatus(h) ==
  /\ hpc[h] = "write"
  /\ rows' = IF Writable(h)
             THEN [rows EXCEPT ![handled[h]].status = Mapped(fetched[h])]
             ELSE rows
  /\ Forget(h)
  /\ UNCHANGED <<gate, phone, callbackIds, recentTest, sms, request, bounds, quiet>>

-----------------------------------------------------------------------------
\* The provider, and what goes wrong

Successors(s) ==
  CASE s = "queued" -> {"sent", "failed"}
    [] s = "sent"   -> {"delivered", "undelivered"}
    [] OTHER        -> {}

Progress(k) ==
  /\ k \in DOMAIN sms
  /\ \E s \in Successors(sms[k].status) : sms' = [sms EXCEPT ![k].status = s]
  /\ UNCHANGED <<tables, request, handler, bounds, quiet>>

RequestDies(r) ==
  /\ faults < MaxFaults
  /\ pc[r] # "idle"
  /\ faults' = faults + 1
  /\ Leave(r)
  /\ UNCHANGED <<tables, sms, handler, switches, moves>>
  /\ Watch

HandlerDies(h) ==
  /\ faults < MaxFaults
  /\ hpc[h] # "idle"
  /\ faults' = faults + 1
  /\ Forget(h)
  /\ UNCHANGED <<tables, sms, request, switches, moves, quiet>>

-----------------------------------------------------------------------------
Work(r) ==
  \/ Plan(r) \/ TakeIn(r) \/ ChangeGate(r) \/ ChangePhone(r) \/ PersistDispatch(r) \/ LimitTest(r)
  \/ \E n \in Alerts : Suppress(r, n) \/ Send(r, n)
  \/ \E t \in Tests : StartTest(r, t) \/ SendTest(r, t) \/ InsertTest(r, t)

Handle(h) == Look(h) \/ LogCallback(h) \/ WriteStatus(h)

Next ==
  \/ \E r \in Requests : Load(r) \/ Work(r) \/ RequestDies(r)
  \/ \E h \in Handlers :
       \/ \E k \in 1..MaxSms : Webhook(h, k)
       \/ \E n \in Notifications : Reconcile(h, n) \/ ReconcileByHand(h, n)
       \/ Handle(h)
       \/ HandlerDies(h)
  \/ \E k \in 1..MaxSms : Progress(k)
  \/ FiveMinutesPass

Spec == Init /\ [][Next]_vars

\* Fairness: an invocation makes its next call or dies, the provider decides on
\* a message sooner or later, and the scheduled job asks for every row that
\* stays SENT, run after run, between whatever webhooks arrive.
Fairness ==
  /\ \A r \in Requests : WF_vars(Work(r))
  /\ \A h \in Handlers : WF_vars(Handle(h))
  /\ \A k \in 1..MaxSms : WF_vars(Progress(k))
  /\ \A n \in Notifications : SF_vars(\E h \in Handlers : Reconcile(h, n))

FairSpec == Spec /\ Fairness

-----------------------------------------------------------------------------
\* Behaviors without the races between a read and its write-back

\* No two requests are between loadState and the last persistState of the
\* snapshot it made.
Persisting == {r \in Requests : pc[r] \in {"loaded", "dispatch"}}
RequestsApart == \A q, r \in Persisting : q = r

RequestsApartSpec == Init /\ [][Next /\ RequestsApart']_vars

\* Nor does a handler write a row between one and the other, nor two handlers
\* between the SELECT and the UPDATE of one of them.
Updating == {h \in Handlers : hpc[h] \in {"log", "write"}}
WritesApart ==
  /\ RequestsApart
  /\ \A g, h \in Updating : g = h
  /\ Persisting = {} \/ Updating = {}

WritesApartSpec == Init /\ [][Next /\ WritesApart']_vars

-----------------------------------------------------------------------------
\* Properties

\* Types of the tables, of the provider's log and of all locals.
TypeOK ==
  /\ rows \in [Notifications -> Row]
  /\ gate \in BOOLEAN
  /\ phone \in Nat
  /\ callbackIds \subseteq Nat \X ProviderStatus
  /\ recentTest \in BOOLEAN
  /\ sms \in Seq(Sms)
  /\ pc \in [Requests -> {"idle", "loaded", "dispatch", "testSend", "testInsert", "testLimit"}]
  /\ snap \in [Requests -> Snapshot]
  /\ todo \in [Requests -> SUBSET Notifications]
  /\ hpc \in [Handlers -> {"idle", "look", "log", "write"}]
  /\ kind \in [Handlers -> Kinds]
  /\ sid \in [Handlers -> Nat]
  /\ fetched \in [Handlers -> ProviderStatus]
  /\ handled \in [Handlers -> Notifications \cup {NoHandled}]
  /\ seen \in [Handlers -> Status]
  /\ switches \in Nat
  /\ moves \in Nat
  /\ faults \in Nat
  /\ quiet \in BOOLEAN

\* A notification says DELIVERED only if a message of that notification was
\* delivered (ARCHITECTURE.md: acceptance means SENT, never DELIVERED), and
\* UNDELIVERED only if one was not - although the row may have been written by
\* a late handler, or over by a stale snapshot, and may name another message.
FinalStatusIsTrue ==
  \A n \in Notifications : rows[n].status \in {"DELIVERED", "UNDELIVERED"} =>
    \E k \in DOMAIN sms : sms[k].for = n /\ Mapped(sms[k].status) = rows[n].status

\* A notification of a complaint is handed to the carrier once (SECURITY.md: sends
\* are not automatically retried after an ambiguous result).  dispatchEligible stores
\* what it has sent in one persist at its end, and loads PENDING rows without a claim.
Sendings(n) == {k \in DOMAIN sms : sms[k].for = n}
SentOnce == \A n \in Alerts : Cardinality(Sendings(n)) <= 1

\* The provider's id of a message that was recorded is never lost again, so no
\* request that loads the state from then on sends that notification; and it
\* is the id of a message of this notification.
SentIsRemembered ==
  [][\A n \in Notifications : rows[n].sid # 0 =>
       rows'[n].sid # 0 /\ rows'[n].sid \in DOMAIN sms' /\ sms'[rows'[n].sid].for = n]_vars

\* Once the switch is off and the requests that saw it on are over, nothing is
\* sent and the switch stays off until an owner turns it on
\* (OPERATIONS.md: master gate for every real SMS call).
KillSwitchHolds == [][quiet => Len(sms') = Len(sms) /\ (gate' => ~quiet')]_vars

\* A terminal status of a notification does not change
\* (ARCHITECTURE.md: terminal states cannot regress).
TerminalStays ==
  [][\A n \in Notifications :
       rows[n].status \in Terminal => rows'[n].status = rows[n].status]_vars

\* A notification does not stay SENT with the id of one message for ever,
\* whatever webhooks are lost or arrive late, as long as its recipient keeps the
\* number the message went to.  (Two requests may swap the ids of two messages
\* of one notification without end.)
SentIsSettled ==
  \A n \in Notifications, k \in 1..MaxSms :
    rows[n] = [status |-> "SENT", sid |-> k] ~>
      rows[n] # [status |-> "SENT", sid |-> k] \/ ~Authentic(n, k)
=============================================================================
