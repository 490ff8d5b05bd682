--------------------------- MODULE SmsApartProofs ---------------------------
(***************************************************************************)
(* What SmsDelivery promises when no request works on a snapshot another   *)
(* one is about to write back: under RequestsApartSpec SentOnce, as long   *)
(* as no invocation dies (sms_resent shows it violated when one does); and *)
(* when no handler writes in between either, TerminalStays under           *)
(* WritesApartSpec; for every set of requests, handlers and notifications  *)
(* and every bound.                                                        *)
(***************************************************************************)
EXTENDS SmsDeliveryProofs, FiniteSetTheorems

-----------------------------------------------------------------------------
\* What a step of a request does to the alerts, in six kinds

Loads(r) ==
  /\ pc[r] = "idle" /\ pc'[r] = "loaded"
  /\ snap'[r].rows = rows
  /\ UNCHANGED <<rows, sms, faults>>

\* An alert of the new snapshot is as before, or planned where no row was.
Plans(r) ==
  /\ pc[r] = "loaded" /\ pc'[r] = "dispatch"
  /\ \A n \in Alerts :
       \/ snap'[r].rows[n] = snap[r].rows[n]
       \/ rows[n].status = "ABSENT" /\ snap'[r].rows[n].status \in {"PENDING", "SUPPRESSED"}
  /\ todo'[r] = Due(snap'[r].rows)
  /\ rows' = Upserted(rows, snap'[r].rows)
  /\ UNCHANGED <<sms, faults>>

\* The mail intake plans, and leaves what it planned to others.
Saves(r) ==
  /\ pc[r] \in {"loaded", "dispatch"} /\ pc'[r] = "idle"
  /\ \E loaded : rows' = Upserted(rows, loaded) /\ \A n \in Alerts :
       \/ loaded[n] = snap[r].rows[n]
       \/ /\ pc[r] = "loaded" /\ rows[n].status = "ABSENT"
          /\ loaded[n].status \in {"PENDING", "SUPPRESSED"}
  /\ UNCHANGED <<sms, faults>>

Answers(r, n) ==
  /\ pc[r] = "dispatch" /\ pc'[r] = "dispatch"
  /\ n \in todo[r] /\ todo'[r] = todo[r] \ {n}
  /\ snap'[r].rows[n].status \in {"SUPPRESSED", "SENT", "FAILED"}
  /\ \A m \in Notifications : m # n => snap'[r].rows[m] = snap[r].rows[m]
  /\ sms' = sms \/ \E m \in Sms : m.for = n /\ sms' = Append(sms, m)
  /\ UNCHANGED <<rows, faults>>

\* The test route: it writes only the row of its own test.
Sidesteps(r) ==
  /\ pc[r] # "dispatch" /\ pc'[r] \in {"idle", "testSend", "testInsert", "testLimit"}
  /\ pc'[r] \in Testing =>
       \/ pc[r] \in Testing /\ todo'[r] = todo[r]
       \/ \A t \in todo'[r] : rows[t] = NoRow
  /\ \/ rows' = rows
     \/ \E t \in Tests : /\ pc[r] = "testInsert" /\ t \in todo[r] /\ pc'[r] = "testLimit"
                         /\ rows' = [rows EXCEPT ![t] = snap[r].rows[t]]
  /\ sms' = sms \/ \E m \in Sms : m.for \in Tests /\ sms' = Append(sms, m)
  /\ UNCHANGED faults

Dies(r) ==
  /\ pc'[r] = "idle"
  /\ faults' = faults + 1
  /\ UNCHANGED <<rows, sms>>

\* A request leaves the locals of the others alone.
LEMMA OtherRequests ==
  ASSUME TypeOK, NEW r \in Requests, Load(r) \/ Work(r) \/ RequestDies(r),
         NEW q \in Requests, q # r
  PROVE  pc'[q] = pc[q] /\ snap'[q] = snap[q] /\ todo'[q] = todo[q]
  <1>1. CASE Load(r) \/ Plan(r) \/ TakeIn(r) \/ ChangeGate(r) \/ ChangePhone(r)
             \/ PersistDispatch(r) \/ LimitTest(r) \/ RequestDies(r)
    BY <1>1 DEF Load, Plan, TakeIn, ChangeGate, ChangePhone, PersistDispatch, LimitTest, RequestDies,
       Leave, Goto, TypeOK
  <1>2. CASE \E n \in Alerts : Suppress(r, n) \/ Send(r, n)
    BY <1>2 DEF Suppress, Send, Accept, Refuse, Answered, TypeOK
  <1>3. CASE \E t \in Tests : StartTest(r, t) \/ SendTest(r, t) \/ InsertTest(r, t)
    BY <1>3 DEF StartTest, SendTest, InsertTest, Accept, Refuse, Answered, Goto, TypeOK
  <1> QED
    BY <1>1, <1>2, <1>3 DEF Work

\* What the complaint operations plan.
LEMMA ChangedRows ==
  ASSUME TypeOK, NEW r \in Requests, NEW state \in Changed(r), NEW n \in Alerts
  PROVE  \/ state.rows[n] = snap[r].rows[n]
         \/ rows[n].status = "ABSENT" /\ state.rows[n].status \in {"PENDING", "SUPPRESSED"}
  <1>1. snap[r] \in Snapshot /\ Alerts \subseteq Notifications
    BY DEF TypeOK, Notifications
  <1>2. ASSUME NEW a \in Alerts, rows[a].status = "ABSENT", state = Planned(snap[r], a), a # n
        PROVE  state.rows[n] = snap[r].rows[n]
    BY <1>1, <1>2, PlannedType
  <1>3. ASSUME state = Planned(snap[r], n) PROVE state.rows[n].status \in {"PENDING", "SUPPRESSED"}
    BY <1>1, <1>3 DEF Planned, Snapshot
  <1> QED
    BY <1>2, <1>3 DEF Changed

\* The plans of routes and job.
LEMMA PlanKind == ASSUME TypeOK, NEW r \in Requests, Plan(r) PROVE Plans(r)
  <1>1. PICK state \in Changed(r) :
           /\ Persist(state)
           /\ snap' = [snap EXCEPT ![r] = state]
           /\ todo' = [todo EXCEPT ![r] = Due(state.rows)]
    BY DEF Plan
  <1>2. snap'[r] = state /\ todo'[r] = Due(state.rows)
    BY <1>1 DEF TypeOK
  <1>3. rows' = Upserted(rows, state.rows)
    BY <1>1 DEF Persist
  <1>4. pc[r] = "loaded" /\ pc'[r] = "dispatch" /\ UNCHANGED <<sms, faults>>
    BY DEF Plan, Goto, TypeOK, bounds
  <1> QED
    BY <1>1, <1>2, <1>3, <1>4, ChangedRows DEF Plans

\* The writes that end a request.
LEMMA SaveKind ==
  ASSUME TypeOK, NEW r \in Requests,
         TakeIn(r) \/ ChangeGate(r) \/ ChangePhone(r) \/ PersistDispatch(r)
  PROVE  Saves(r)
  <1>1. snap[r] \in Snapshot
    BY DEF TypeOK
  <1>2. /\ pc[r] \in {"loaded", "dispatch"} /\ pc'[r] = "idle" /\ UNCHANGED <<sms, faults>>
        /\ TakeIn(r) => pc[r] = "loaded"
    BY DEF TakeIn, ChangeGate, ChangePhone, PersistDispatch, Leave, Goto, TypeOK, bounds
  <1>3. CASE ChangeGate(r) \/ ChangePhone(r) \/ PersistDispatch(r)
    <2>1. rows' = Upserted(rows, snap[r].rows)
      BY <1>1, <1>3 DEF ChangeGate, ChangePhone, PersistDispatch, Persist, Snapshot
    <2> QED
      BY <1>2, <2>1 DEF Saves
  <1>4. CASE TakeIn(r)
    <2>1. PICK state \in Changed(r) : rows' = Upserted(rows, state.rows)
      BY <1>4 DEF TakeIn, Persist
    <2> QED
      BY <1>2, <1>4, <2>1, ChangedRows DEF Saves
  <1> QED
    BY <1>3, <1>4

\* A message handed to the provider, or not, and the row that answers it.
LEMMA SendKind ==
  ASSUME TypeOK, NEW r \in Requests, NEW n \in Notifications, Accept(r, n) \/ Refuse(r, n)
  PROVE  /\ snap'[r].rows[n].status \in {"SENT", "FAILED"}
         /\ \A m \in Notifications : m # n => snap'[r].rows[m] = snap[r].rows[m]
         /\ sms' = sms \/ \E m \in Sms : m.for = n /\ sms' = Append(sms, m)
  <1>1. snap[r] \in Snapshot /\ snap[r].rows[n] \in Row /\ sms \in Seq(Sms)
    BY DEF TypeOK, Snapshot
  <1> DEFINE m == [for |-> n, to |-> snap[r].phone, status |-> "queued"]
             failed == [status |-> "FAILED", sid |-> snap[r].rows[n].sid]
             sent == [status |-> "SENT", sid |-> Len(sms) + 1]
  <1>2. m \in Sms /\ m.for = n
    BY <1>1 DEF Sms, ProviderStatus, Snapshot
  <1>3. failed \in Row /\ sent \in Row
    BY <1>1 DEF Row, Status, Terminal
  <1>4. failed.status = "FAILED" /\ sent.status = "SENT"
    OBVIOUS
  <1>5. sms' = sms \/ sms' = Append(sms, m)
    BY DEF Accept, Refuse
  <1>6. Answered(r, n, failed) \/ Answered(r, n, sent)
    BY DEF Accept, Refuse
  <1> HIDE DEF m, failed, sent
  <1>7. sms' = sms \/ \E x \in Sms : x.for = n /\ sms' = Append(sms, x)
    BY <1>2, <1>5
  <1>8. CASE Answered(r, n, failed)
    BY <1>3, <1>4, <1>7, <1>8, AnsweredType
  <1>9. CASE Answered(r, n, sent)
    BY <1>3, <1>4, <1>7, <1>9, AnsweredType
  <1> QED
    BY <1>6, <1>8, <1>9

\* What dispatchEligible does with a notification.
LEMMA AnswerKind ==
  ASSUME TypeOK, NEW r \in Requests, NEW n \in Alerts, Suppress(r, n) \/ Send(r, n)
  PROVE  Answers(r, n)
  <1>1. n \in Notifications
    BY DEF Notifications
  <1>2. /\ pc[r] = "dispatch" /\ pc'[r] = "dispatch"
        /\ n \in todo[r] /\ todo'[r] = todo[r] \ {n}
        /\ UNCHANGED <<rows, faults>>
    BY DEF Suppress, Send, TypeOK, tables, bounds
  <1>3. CASE Suppress(r, n)
    <2> DEFINE row == [status |-> "SUPPRESSED", sid |-> snap[r].rows[n].sid]
    <2>1. snap[r].rows[n] \in Row
      BY <1>1 DEF TypeOK, Snapshot
    <2>2. row \in Row /\ row.status = "SUPPRESSED"
      BY <2>1 DEF Row, Status
    <2>3. Answered(r, n, row) /\ UNCHANGED sms
      BY <1>3 DEF Suppress
    <2> HIDE DEF row
    <2>4. /\ snap'[r].rows[n] = row
          /\ \A m \in Notifications : m # n => snap'[r].rows[m] = snap[r].rows[m]
      BY <1>1, <2>2, <2>3, AnsweredType
    <2> QED
      BY <1>2, <2>2, <2>3, <2>4 DEF Answers
  <1>4. CASE Send(r, n)
    <2>1. Accept(r, n) \/ Refuse(r, n)
      BY <1>4 DEF Send
    <2> QED
      BY <1>1, <1>2, <2>1, SendKind DEF Answers
  <1> QED
    BY <1>3, <1>4

\* The steps of the test route.
LEMMA SideKind ==
  ASSUME TypeOK, NEW r \in Requests,
         LimitTest(r) \/ \E t \in Tests : StartTest(r, t) \/ SendTest(r, t) \/ InsertTest(r, t)
  PROVE  Sidesteps(r)
  <1>1. CASE LimitTest(r)
    BY <1>1 DEF LimitTest, Sidesteps, Leave, Goto, TypeOK, bounds, Testing
  <1>2. ASSUME NEW t \in Tests, StartTest(r, t) PROVE Sidesteps(r)
    BY <1>2 DEF StartTest, FreeTest, Sidesteps, Goto, TypeOK, tables, bounds, Testing
  <1>3. ASSUME NEW t \in Tests, InsertTest(r, t) PROVE Sidesteps(r)
    BY <1>3 DEF InsertTest, Sidesteps, Goto, TypeOK, bounds, Testing
  <1>4. ASSUME NEW t \in Tests, SendTest(r, t) PROVE Sidesteps(r)
    <2>1. t \in Notifications
      BY DEF Notifications
    <2>2. sms' = sms \/ \E m \in Sms : m.for \in Tests /\ sms' = Append(sms, m)
      <3>1. CASE UNCHANGED sms
        BY <3>1
      <3>2. CASE Accept(r, t) \/ Refuse(r, t)
        BY <2>1, <3>2, SendKind
      <3> QED
        BY <1>4, <3>1, <3>2 DEF SendTest
    <2>3. /\ pc[r] = "testSend" /\ pc'[r] = "testInsert" /\ todo'[r] = todo[r]
          /\ UNCHANGED <<rows, faults>>
      BY <1>4 DEF SendTest, Goto, TypeOK, tables, bounds
    <2> QED
      BY <2>2, <2>3 DEF Sidesteps, Testing
  <1> QED
    BY <1>1, <1>2, <1>3, <1>4

\* Every step of a request is of one of the six kinds.
LEMMA RequestKinds ==
  ASSUME TypeOK, NEW r \in Requests, Load(r) \/ Work(r) \/ RequestDies(r)
  PROVE  \/ Loads(r) \/ Plans(r) \/ Saves(r) \/ Sidesteps(r) \/ Dies(r)
         \/ \E n \in Alerts : Answers(r, n)
  <1>1. CASE Load(r)
    BY <1>1 DEF Load, Goto, Loads, TypeOK, tables, bounds
  <1>2. CASE RequestDies(r)
    BY <1>2 DEF RequestDies, Leave, Goto, Dies, TypeOK, tables
  <1> QED
    BY <1>1, <1>2, PlanKind, SaveKind, AnswerKind, SideKind DEF Work

-----------------------------------------------------------------------------
\* What dispatchEligible is about to send

\* A notification in hand is a PENDING one without a provider id.
TodoInv ==
  \A r \in Requests : pc[r] = "dispatch" =>
    \A n \in todo[r] :
      n \in Alerts /\ snap[r].rows[n].status = "PENDING" /\ snap[r].rows[n].sid = 0

\* Each step of a request keeps TodoInv.
LEMMA RequestTodo ==
  ASSUME TypeOK, TodoInv, NEW r \in Requests, Load(r) \/ Work(r) \/ RequestDies(r)
  PROVE  TodoInv'
  <1>1. \A q \in Requests : q # r => pc'[q] = pc[q] /\ snap'[q] = snap[q] /\ todo'[q] = todo[q]
    BY OtherRequests
  <1> DEFINE InHand(n) ==
        n \in Alerts /\ snap'[r].rows[n].status = "PENDING" /\ snap'[r].rows[n].sid = 0
  <1>2. ASSUME pc'[r] = "dispatch", NEW n \in todo'[r] PROVE InHand(n)
    <2>1. CASE Plans(r)
      BY <1>2, <2>1 DEF Plans, Due
    <2>2. ASSUME NEW m \in Alerts, Answers(r, m) PROVE InHand(n)
      <3>1. n \in todo[r] /\ n # m /\ n \in Notifications
        BY <1>2, <2>2 DEF Answers, TypeOK
      <3> QED
        BY <2>2, <3>1 DEF Answers, TodoInv
    <2> QED
      BY <1>2, <2>1, <2>2, RequestKinds DEF Loads, Saves, Sidesteps, Dies
  <1> QED
    BY <1>1, <1>2 DEF TodoInv

\* Every step keeps TodoInv.
LEMMA TodoStep == ASSUME TypeOK, TodoInv, [Next]_vars PROVE TodoInv'
  <1>1. ASSUME UNCHANGED request PROVE TodoInv'
    BY <1>1 DEF TodoInv, request
  <1>2. ASSUME NEW h \in Handlers,
               \/ \E k \in 1..MaxSms : Webhook(h, k)
               \/ \E n \in Notifications : Reconcile(h, n) \/ ReconcileByHand(h, n)
               \/ Look(h) \/ LogCallback(h) \/ WriteStatus(h) \/ HandlerDies(h)
        PROVE  UNCHANGED request
    BY <1>2 DEF Webhook, Reconcile, ReconcileByHand, Look, LogCallback, WriteStatus, HandlerDies
  <1>3. ASSUME FiveMinutesPass \/ (\E k \in 1..MaxSms : Progress(k)) \/ UNCHANGED vars
        PROVE  UNCHANGED request
    BY <1>3 DEF FiveMinutesPass, Progress, vars
  <1> QED
    BY <1>1, <1>2, <1>3, RequestTodo DEF Next, Handle

-----------------------------------------------------------------------------
\* The sendings of a notification

\* The log is finite.
LEMMA SendingsFinite ==
  ASSUME sms \in Seq(Sms), NEW n
  PROVE  IsFiniteSet(Sendings(n)) /\ Cardinality(Sendings(n)) \in Nat
  <1>1. IsFiniteSet(1..Len(sms))
    BY FS_Interval
  <1>2. Sendings(n) \in SUBSET (1..Len(sms))
    BY DEF Sendings
  <1> QED
    BY <1>1, <1>2, FS_Subset, FS_CardinalityType

\* A message more is a sending more of its own notification.
LEMMA SendingsGrow ==
  ASSUME sms \in Seq(Sms), NEW m \in Sms, sms' = Append(sms, m), NEW n
  PROVE  /\ n # m.for => Sendings(n)' = Sendings(n)
         /\ Cardinality(Sendings(m.for))' = Cardinality(Sendings(m.for)) + 1
  <1>1. /\ DOMAIN sms' = DOMAIN sms \cup {Len(sms) + 1}
        /\ \A k \in DOMAIN sms : sms'[k] = sms[k]
        /\ sms'[Len(sms) + 1] = m
        /\ Len(sms) + 1 \notin DOMAIN sms
    OBVIOUS
  <1>2. n # m.for => Sendings(n)' = Sendings(n)
    BY <1>1 DEF Sendings
  <1>3. Sendings(m.for)' = Sendings(m.for) \cup {Len(sms) + 1}
    BY <1>1 DEF Sendings
  <1>4. Len(sms) + 1 \notin Sendings(m.for)
    BY <1>1 DEF Sendings
  <1>5. Cardinality(Sendings(m.for) \cup {Len(sms) + 1}) = Cardinality(Sendings(m.for)) + 1
    BY <1>4, SendingsFinite, FS_AddElement
  <1> QED
    BY <1>2, <1>3, <1>5

\* The provider's progress is no sending.
LEMMA SendingsStay ==
  ASSUME TypeOK, NEW k \in 1..MaxSms, Progress(k), NEW n
  PROVE  Sendings(n)' = Sendings(n)
  <1>1. sms' \in Seq(Sms) /\ Len(sms') = Len(sms) /\ LogGrows
    BY ProgressType, NotificationsAssumption
  <1>2. sms \in Seq(Sms) /\ DOMAIN sms' = DOMAIN sms
    BY <1>1 DEF TypeOK
  <1> QED
    BY <1>1, <1>2 DEF Sendings, LogGrows

-----------------------------------------------------------------------------
\* One sending, and one more for every invocation that died

\* A row that dispatchEligible sends, or that may yet be planned.
Sendable(row) == row.status = "ABSENT" \/ (row.status = "PENDING" /\ row.sid = 0)

\* An alert is sent once, and once more for each invocation that died.
SentOnceAndPerDeath == \A n \in Alerts : Cardinality(Sendings(n)) <= 1 + faults

\* The notification may be sent once more.
Spare(n) == Cardinality(Sendings(n)) <= faults

NobodyDispatches == \A r \in Requests : pc[r] # "dispatch"

\* What is sendable is spare: in a snapshot that is worked on, and in the table
\* unless a request has sent it and not written so yet.
SendInv ==
  /\ SentOnceAndPerDeath
  /\ \A n \in Alerts : Sendable(rows[n]) /\ NobodyDispatches => Spare(n)
  /\ \A r \in Persisting, n \in Alerts : Sendable(snap[r].rows[n]) => Spare(n)

\* A step that neither sends nor makes a row sendable keeps it.
LEMMA SendCalm ==
  ASSUME TypeOK, SendInv, faults' \in {faults, faults + 1},
         \A n \in Alerts : Cardinality(Sendings(n))' = Cardinality(Sendings(n)),
         NobodyDispatches' => NobodyDispatches \/ faults' = faults + 1,
         \A n \in Alerts : Sendable(rows'[n]) => Sendable(rows[n]),
         \A r \in Persisting' : r \in Persisting /\ snap'[r] = snap[r]
  PROVE  SendInv'
  <1> DEFINE c(n) == Cardinality(Sendings(n))
  <1>1. \A n \in Alerts : c(n) \in Nat /\ c(n)' = c(n) /\ c(n) <= 1 + faults
    BY SendingsFinite DEF TypeOK, SendInv, SentOnceAndPerDeath
  <1>2. \A n \in Alerts : Spare(n) => Spare(n)'
    BY <1>1 DEF Spare, TypeOK
  <1>3. \A n \in Alerts : faults' = faults + 1 => Spare(n)'
    BY <1>1 DEF Spare, TypeOK
  <1>4. SentOnceAndPerDeath'
    BY <1>1 DEF SentOnceAndPerDeath, TypeOK
  <1>5. \A n \in Alerts : Sendable(rows'[n]) /\ NobodyDispatches' => Spare(n)'
    BY <1>2, <1>3 DEF SendInv
  <1>6. \A r \in Persisting', n \in Alerts : Sendable(snap'[r].rows[n]) => Spare(n)'
    BY <1>2 DEF SendInv
  <1> QED
    BY <1>4, <1>5, <1>6 DEF SendInv, Sendable

\* Writing a snapshot back makes sendable only what is sendable in it.
LEMMA SaveSendable ==
  ASSUME NEW stored, NEW loaded, NEW n \in Alerts, Sendable(Upserted(stored, loaded)[n])
  PROVE  Sendable(loaded[n])
  <1>1. n \in Notifications /\ n \notin Tests
    BY NotificationsAssumption DEF Notifications
  <1> QED
    BY <1>1 DEF Sendable, Upserted

\* The steps of a request keep it.
LEMMA RequestSends ==
  ASSUME TypeOK, TypeOK', TodoInv, SendInv, RequestsApart, RequestsApart', NEW r \in Requests,
         Load(r) \/ Work(r) \/ RequestDies(r)
  PROVE  SendInv'
  <1> DEFINE c(n) == Cardinality(Sendings(n))
  <1>1. \A q \in Requests : q # r => pc'[q] = pc[q] /\ snap'[q] = snap[q] /\ todo'[q] = todo[q]
    BY OtherRequests
  <1>2. r \in Persisting => \A q \in Requests : q # r => q \notin Persisting /\ q \notin Persisting'
    BY <1>1 DEF RequestsApart, Persisting
  <1>3. r \in Persisting' => \A q \in Requests : q # r => q \notin Persisting /\ q \notin Persisting'
    BY <1>1 DEF RequestsApart, Persisting
  <1>4. UNCHANGED sms => \A n : Sendings(n)' = Sendings(n)
    BY DEF Sendings
  <1>5. \A n \in Alerts : c(n) \in Nat /\ c(n) <= 1 + faults
    BY SendingsFinite DEF TypeOK, SendInv, SentOnceAndPerDeath
  <1>6. ASSUME UNCHANGED <<sms, faults>> PROVE SentOnceAndPerDeath' /\ \A n \in Alerts : Spare(n)' <=> Spare(n)
    BY <1>4, <1>6 DEF SendInv, SentOnceAndPerDeath, Spare
  <1>7. CASE Loads(r)
    <2>1. NobodyDispatches
      BY <1>3, <1>7 DEF Loads, Persisting, NobodyDispatches
    <2>2. \A n \in Alerts : Sendable(rows[n]) => Spare(n)'
      BY <1>6, <1>7, <2>1 DEF Loads, SendInv
    <2>3. Persisting' = {r} /\ snap'[r].rows = rows /\ rows' = rows
      BY <1>3, <1>7 DEF Loads, Persisting
    <2> QED
      BY <1>6, <1>7, <2>2, <2>3 DEF SendInv, Loads
  <1>8. CASE Plans(r)
    <2>1. NobodyDispatches /\ r \in Persisting
      BY <1>2, <1>8 DEF Plans, Persisting, NobodyDispatches
    <2>2. ASSUME NEW n \in Alerts, Sendable(snap'[r].rows[n]) PROVE Spare(n)
      <3>1. CASE snap'[r].rows[n] = snap[r].rows[n]
        BY <2>1, <2>2, <3>1 DEF SendInv
      <3>2. CASE rows[n].status = "ABSENT"
        BY <2>1, <3>2 DEF SendInv, Sendable
      <3> QED
        BY <1>8, <3>1, <3>2 DEF Plans
    <2>3. Persisting' = {r} /\ ~NobodyDispatches'
      BY <1>2, <1>8 DEF Plans, Persisting, NobodyDispatches
    <2> QED
      BY <1>6, <1>8, <2>2, <2>3 DEF SendInv, Plans
  <1>9. CASE Saves(r)
    <2>1. r \in Persisting /\ Persisting' = {} /\ (pc[r] = "loaded" => NobodyDispatches)
      BY <1>2, <1>9 DEF Saves, Persisting, NobodyDispatches
    <2>2. PICK loaded :
             /\ rows' = Upserted(rows, loaded)
             /\ \A n \in Alerts :
                  \/ loaded[n] = snap[r].rows[n]
                  \/ /\ pc[r] = "loaded" /\ rows[n].status = "ABSENT"
                     /\ loaded[n].status \in {"PENDING", "SUPPRESSED"}
      BY <1>9 DEF Saves
    <2>3. ASSUME NEW n \in Alerts, Sendable(rows'[n]) PROVE Spare(n)
      <3>1. Sendable(loaded[n])
        BY <2>2, <2>3, SaveSendable
      <3>2. CASE loaded[n] = snap[r].rows[n]
        BY <2>1, <3>1, <3>2 DEF SendInv
      <3>3. CASE pc[r] = "loaded" /\ rows[n].status = "ABSENT"
        BY <2>1, <3>3 DEF SendInv, Sendable
      <3> QED
        BY <2>2, <3>2, <3>3
    <2> QED
      BY <1>6, <1>9, <2>1, <2>3 DEF SendInv, Saves
  <1>10. ASSUME NEW n \in Alerts, Answers(r, n) PROVE SendInv'
    <2>1. Persisting' = {r} /\ ~NobodyDispatches' /\ r \in Persisting /\ n \in Notifications
      BY <1>2, <1>10 DEF Answers, Persisting, NobodyDispatches, Notifications
    <2>2. Spare(n)
      BY <1>10, <2>1 DEF Answers, TodoInv, SendInv, Sendable
    <2>3. /\ c(n)' \in {c(n), c(n) + 1}
          /\ \A a \in Alerts : a # n => c(a)' = c(a)
      BY <1>4, <1>10, SendingsGrow DEF Answers, TypeOK
    <2>4. SentOnceAndPerDeath'
      <3>1. faults' = faults /\ faults \in Nat /\ c(n) <= faults
        BY <1>1, <1>10, <2>2 DEF Answers, Spare, TypeOK
      <3>2. c(n)' <= 1 + faults
        BY <1>5, <2>3, <3>1
      <3>3. \A a \in Alerts : a # n => c(a)' <= 1 + faults
        BY <1>5, <2>3
      <3> QED
        BY <3>1, <3>2, <3>3 DEF SentOnceAndPerDeath
    <2>5. ASSUME NEW a \in Alerts, Sendable(snap'[r].rows[a]) PROVE Spare(a)'
      <3>1. a # n
        BY <1>10, <2>5 DEF Answers, Sendable
      <3>2. snap'[r].rows[a] = snap[r].rows[a]
        BY <1>10, <3>1 DEF Answers, Notifications
      <3>3. Spare(a)
        BY <2>1, <2>5, <3>2 DEF SendInv
      <3> QED
        BY <1>10, <2>3, <3>1, <3>3 DEF Spare, Answers
    <2> QED
      BY <2>1, <2>4, <2>5 DEF SendInv
  <1>11. CASE Sidesteps(r)
    <2>1. \A n \in Alerts : c(n)' = c(n)
      <3>1. CASE sms' = sms
        BY <1>4, <3>1
      <3>2. ASSUME NEW m \in Sms, m.for \in Tests, sms' = Append(sms, m), NEW n \in Alerts
            PROVE  Sendings(n)' = Sendings(n)
        BY <3>2, SendingsGrow, NotificationsAssumption DEF TypeOK
      <3> QED
        BY <1>11, <3>1, <3>2 DEF Sidesteps
    <2>2. \A n \in Alerts : rows'[n] = rows[n]
      BY <1>11, NotificationsAssumption DEF Sidesteps, TypeOK, Notifications
    <2>3. NobodyDispatches' => NobodyDispatches
      BY <1>1, <1>11 DEF Sidesteps, NobodyDispatches
    <2>4. \A q \in Persisting' : q \in Persisting /\ snap'[q] = snap[q]
      BY <1>1, <1>11 DEF Sidesteps, Persisting
    <2> QED
      BY <1>11, <2>1, <2>2, <2>3, <2>4, SendCalm DEF Sidesteps
  <1>12. CASE Dies(r)
    <2>1. \A n \in Alerts : c(n)' = c(n)
      BY <1>4, <1>12 DEF Dies
    <2>2. \A q \in Persisting' : q \in Persisting /\ snap'[q] = snap[q]
      BY <1>1, <1>12 DEF Dies, Persisting
    <2> QED
      BY <1>12, <2>1, <2>2, SendCalm DEF Dies
  <1> QED
    BY <1>7, <1>8, <1>9, <1>10, <1>11, <1>12, RequestKinds

\* Every step keeps it.
LEMMA SendStepApart ==
  SmsInv /\ SmsInv' /\ TodoInv /\ SendInv /\ RequestsApart /\ RequestsApart' /\ [Next]_vars => SendInv'
  <1> SUFFICES ASSUME SmsInv, SmsInv', TodoInv, SendInv, RequestsApart, RequestsApart', [Next]_vars
               PROVE  SendInv'
    OBVIOUS
  <1>1. TypeOK /\ TypeOK'
    BY DEF SmsInv, TruthInv
  <1>2. ASSUME UNCHANGED request, faults' \in {faults, faults + 1},
               \A n \in Alerts : Sendings(n)' = Sendings(n),
               \A n \in Alerts : Sendable(rows'[n]) => Sendable(rows[n])
        PROVE  SendInv'
    <2>1. \A r \in Persisting' : r \in Persisting /\ snap'[r] = snap[r]
      BY <1>2 DEF Persisting, request
    <2>2. NobodyDispatches' => NobodyDispatches
      BY <1>2 DEF NobodyDispatches, request
    <2> QED
      BY <1>1, <1>2, <2>1, <2>2, SendCalm
  <1>3. UNCHANGED sms => \A n \in Alerts : Sendings(n)' = Sendings(n)
    BY DEF Sendings
  <1>4. ASSUME NEW h \in Handlers,
               \/ \E k \in 1..MaxSms : Webhook(h, k)
               \/ \E n \in Notifications : Reconcile(h, n) \/ ReconcileByHand(h, n)
               \/ Look(h) \/ LogCallback(h) \/ HandlerDies(h)
        PROVE  SendInv'
    <2>1. UNCHANGED request /\ UNCHANGED sms /\ UNCHANGED rows /\ faults' \in {faults, faults + 1}
      BY <1>4 DEF Webhook, Reconcile, ReconcileByHand, Look, LogCallback, HandlerDies, tables, bounds
    <2> QED
      BY <1>2, <1>3, <2>1
  <1>5. ASSUME NEW h \in Handlers, WriteStatus(h) PROVE SendInv'
    <2>1. UNCHANGED request /\ UNCHANGED sms /\ UNCHANGED faults
      BY <1>5 DEF WriteStatus, bounds
    <2>2. Mapped(fetched[h]) \notin {"ABSENT", "PENDING"}
      BY DEF Mapped
    <2>3. \A n \in Alerts : Sendable(rows'[n]) => Sendable(rows[n])
      <3>1. \/ rows' = rows
            \/ rows' = [rows EXCEPT ![handled[h]] = [rows[handled[h]] EXCEPT !.status = Mapped(fetched[h])]]
        BY <1>5 DEF WriteStatus
      <3>2. rows \in [Notifications -> Row] /\ \A m \in Notifications : rows[m] \in Row
        BY <1>1 DEF TypeOK
      <3>3. \A n \in Alerts : n \in Notifications
        BY DEF Notifications
      <3> QED
        BY <2>2, <3>1, <3>2, <3>3 DEF Sendable, Row
    <2> QED
      BY <1>2, <1>3, <2>1, <2>3
  <1>6. ASSUME NEW k \in 1..MaxSms, Progress(k) PROVE SendInv'
    <2>1. UNCHANGED request /\ UNCHANGED rows /\ UNCHANGED faults
      BY <1>6 DEF Progress, tables, bounds
    <2> QED
      BY <1>1, <1>2, <1>6, <2>1, SendingsStay
  <1>7. CASE FiveMinutesPass \/ UNCHANGED vars
    <2>1. UNCHANGED request /\ UNCHANGED sms /\ UNCHANGED rows /\ UNCHANGED faults
      BY <1>7 DEF FiveMinutesPass, vars, tables, bounds
    <2> QED
      BY <1>2, <1>3, <2>1
  <1> QED
    BY <1>1, <1>4, <1>5, <1>6, <1>7, RequestSends DEF Next, Handle

\* At first nothing is sent, worked on or in hand.
LEMMA SendInit == Init => TodoInv /\ SendInv
  <1> SUFFICES ASSUME Init PROVE TodoInv /\ SendInv
    OBVIOUS
  <1>1. TodoInv /\ Persisting = {}
    BY DEF Init, TodoInv, Persisting
  <1>2. \A n : Sendings(n) = {}
    BY DEF Init, Sendings
  <1>3. \A n : Cardinality(Sendings(n)) = 0 /\ faults = 0
    BY <1>2, FS_EmptySet DEF Init
  <1> QED
    BY <1>1, <1>3 DEF SendInv, SentOnceAndPerDeath, Spare

\* The specification whose requests keep apart is Spec, with requests apart.
LEMMA RequestsStayApart == RequestsApartSpec => Spec /\ []RequestsApart
  <1>1. Init => RequestsApart
    BY DEF Init, RequestsApart, Persisting
  <1>2. RequestsApart /\ [Next /\ RequestsApart']_vars => RequestsApart'
    BY DEF RequestsApart, Persisting, vars, request
  <1>3. [Next /\ RequestsApart']_vars => [Next]_vars
    OBVIOUS
  <1> QED
    BY <1>1, <1>2, <1>3, PTL DEF RequestsApartSpec, Spec

\* What a request has in hand is always unsent.
LEMMA TodoAlways == Spec => []TodoInv
  <1>1. SmsInv => TypeOK
    BY DEF SmsInv, TruthInv
  <1>2. TypeOK /\ TodoInv /\ [Next]_vars => TodoInv'
    BY TodoStep
  <1> QED
    BY <1>1, <1>2, SendInit, SmsInvariant, PTL DEF Spec

\* When no request works on a snapshot that another one is about to write back, a
\* notification is sent at most once more for each invocation that died, whatever
\* webhooks and reconciliations write in between ...
LEMMA ResentOnlyAfterDeath == RequestsApartSpec => []SentOnceAndPerDeath
  <1>1. SendInv => SentOnceAndPerDeath
    BY DEF SendInv
  <1> QED
    BY <1>1, RequestsStayApart, SmsInvariant, TodoAlways, SendInit, SendStepApart, PTL DEF Spec

\* ... so as long as none has died it is sent once: the dispatch that dies before its
\* persist, and the overlap of two, are the only ways to violate SentOnce.
THEOREM AlertsSentOnce == RequestsApartSpec => [](faults = 0 => SentOnce)
  <1>1. SentOnceAndPerDeath => (faults = 0 => SentOnce)
    BY DEF SentOnceAndPerDeath, SentOnce
  <1> QED
    BY <1>1, ResentOnlyAfterDeath, PTL

-----------------------------------------------------------------------------
\* Terminal statuses, when no write falls between a read and its write-back

\* The snapshot a request will write back knows every terminal status.
SnapshotsFresh ==
  \A r \in Persisting, n \in Alerts :
    rows[n].status \in Terminal => snap[r].rows[n].status = rows[n].status

\* The notification of a test under way has no row at all.
TestsUnwritten ==
  \A r \in Requests, t \in Tests : pc[r] \in Testing /\ t \in todo[r] => rows[t] = NoRow

\* What a handler saw of a row is what the row says, and its decision stands.
HandlersFresh ==
  \A h \in Updating :
    /\ rows[handled[h]].sid # 0
    /\ seen[h] = rows[handled[h]].status
    /\ hpc[h] = "log" => kind[h] = "webhook"
    /\ hpc[h] = "write" /\ kind[h] = "webhook" => ~Regresses(h)
    /\ hpc[h] = "write" /\ kind[h] = "manual" => seen[h] \notin Terminal

FreshInv == SnapshotsFresh /\ TestsUnwritten /\ HandlersFresh

\* No terminal status changes in this step.
StatusesStay == \A n \in Notifications : rows[n].status \in Terminal => rows'[n].status = rows[n].status

\* A snapshot that knows every terminal status changes none when it is written.
LEMMA FreshSave ==
  ASSUME TypeOK, NEW loaded,
         \A n \in Alerts : rows[n].status \in Terminal => loaded[n].status = rows[n].status,
         rows' = Upserted(rows, loaded)
  PROVE  /\ StatusesStay
         /\ \A t \in Tests : rows'[t] = rows[t]
         /\ \A n \in Alerts : rows'[n].status \in Terminal => loaded[n].status = rows'[n].status
  <1>1. ASSUME NEW n \in Alerts
        PROVE  rows'[n].status = IF loaded[n].status = "ABSENT" THEN rows[n].status ELSE loaded[n].status
    <2>1. n \in Notifications /\ n \notin Tests
      BY NotificationsAssumption DEF Notifications
    <2> QED
      BY <2>1 DEF Upserted
  <1>2. \A t \in Tests : rows'[t] = rows[t]
    BY DEF Upserted, Notifications
  <1>3. StatusesStay
    BY <1>1, <1>2 DEF StatusesStay, Notifications, Terminal
  <1>4. \A n \in Alerts : rows'[n].status \in Terminal => loaded[n].status = rows'[n].status
    BY <1>1 DEF Terminal
  <1> QED
    BY <1>2, <1>3, <1>4

\* The steps of a request keep it, and every terminal status.
LEMMA RequestFresh ==
  ASSUME SmsInv, TypeOK, TypeOK', TodoInv, FreshInv, WritesApart, WritesApart', NEW r \in Requests,
         Load(r) \/ Work(r) \/ RequestDies(r)
  PROVE  FreshInv' /\ StatusesStay
  <1>1. \A q \in Requests : q # r => pc'[q] = pc[q] /\ snap'[q] = snap[q] /\ todo'[q] = todo[q]
    BY OtherRequests
  <1>2. r \in Persisting => \A q \in Requests : q # r => q \notin Persisting /\ q \notin Persisting'
    BY <1>1 DEF WritesApart, RequestsApart, Persisting
  <1>3. UNCHANGED handler
    BY RequestSteps DEF RequestStep
  <1>4. Updating' = Updating /\ \A h \in Updating : Regresses(h)' <=> Regresses(h)
    BY <1>3 DEF Updating, Regresses, handler
  <1>5. r \in Persisting => Updating = {}
    BY DEF WritesApart
  <1>6. ASSUME \A n \in Notifications : rows'[n] = rows[n] PROVE HandlersFresh' /\ StatusesStay
    <2>1. \A h \in Updating : handled[h] \in Notifications
      BY DEF SmsInv, TruthInv, HandlersTrue, Updating
    <2> QED
      BY <1>3, <1>4, <1>6, <2>1 DEF FreshInv, HandlersFresh, StatusesStay, handler
  <1>7. ASSUME pc'[r] \notin Testing, \A t \in Tests : rows'[t] = rows[t] PROVE TestsUnwritten'
    BY <1>1, <1>7 DEF FreshInv, TestsUnwritten
  <1>8. CASE Loads(r)
    <2>1. SnapshotsFresh'
      BY <1>1, <1>8 DEF Loads, FreshInv, SnapshotsFresh, Persisting
    <2> QED
      BY <1>6, <1>7, <1>8, <2>1 DEF Loads, FreshInv, Testing
  <1>9. CASE Plans(r)
    <2>1. r \in Persisting /\ Persisting' = {r}
      BY <1>2, <1>9 DEF Plans, Persisting
    <2>2. \A n \in Alerts : rows[n].status \in Terminal => snap'[r].rows[n].status = rows[n].status
      BY <1>9, <2>1 DEF Plans, FreshInv, SnapshotsFresh, Terminal
    <2>3. /\ StatusesStay
          /\ \A t \in Tests : rows'[t] = rows[t]
          /\ \A n \in Alerts : rows'[n].status \in Terminal => snap'[r].rows[n].status = rows'[n].status
      BY <1>9, <2>2, FreshSave DEF Plans
    <2>4. SnapshotsFresh'
      BY <2>1, <2>3 DEF SnapshotsFresh
    <2>5. HandlersFresh'
      BY <1>4, <1>5, <2>1 DEF HandlersFresh
    <2> QED
      BY <1>7, <1>9, <2>3, <2>4, <2>5 DEF Plans, FreshInv, Testing
  <1>10. CASE Saves(r)
    <2>1. r \in Persisting /\ Persisting' = {}
      BY <1>2, <1>10 DEF Saves, Persisting
    <2>2. PICK loaded :
             /\ rows' = Upserted(rows, loaded)
             /\ \A n \in Alerts : loaded[n] = snap[r].rows[n] \/ rows[n].status = "ABSENT"
      BY <1>10 DEF Saves
    <2>3. StatusesStay /\ \A t \in Tests : rows'[t] = rows[t]
      <3>1. \A n \in Alerts : rows[n].status \in Terminal => loaded[n].status = rows[n].status
        BY <2>1, <2>2 DEF FreshInv, SnapshotsFresh, Terminal
      <3> QED
        BY <2>2, <3>1, FreshSave
    <2>4. HandlersFresh' /\ SnapshotsFresh'
      BY <1>4, <1>5, <2>1 DEF HandlersFresh, SnapshotsFresh
    <2> QED
      BY <1>7, <1>10, <2>3, <2>4 DEF Saves, FreshInv, Testing
  <1>11. ASSUME NEW n \in Alerts, Answers(r, n) PROVE FreshInv' /\ StatusesStay
    <2>1. r \in Persisting /\ Persisting' = {r} /\ rows' = rows
      BY <1>2, <1>11 DEF Answers, Persisting
    <2>2. rows[n].status \notin Terminal
      BY <1>11, <2>1 DEF Answers, TodoInv, FreshInv, SnapshotsFresh, Terminal
    <2>3. SnapshotsFresh'
      BY <1>11, <2>1, <2>2 DEF Answers, FreshInv, SnapshotsFresh, Notifications
    <2> QED
      BY <1>6, <1>7, <1>11, <2>1, <2>3 DEF Answers, FreshInv, Testing
  <1>12. CASE Sidesteps(r)
    <2>1. \A q \in Persisting' : q \in Persisting /\ snap'[q] = snap[q]
      BY <1>1, <1>12 DEF Sidesteps, Persisting
    <2>2. \A n \in Alerts : rows'[n] = rows[n]
      BY <1>12, NotificationsAssumption DEF Sidesteps, TypeOK, Notifications
    <2>3. SnapshotsFresh'
      BY <2>1, <2>2 DEF FreshInv, SnapshotsFresh
    <2>4. ASSUME rows' = rows PROVE FreshInv' /\ StatusesStay
      <3>1. TestsUnwritten'
        BY <1>1, <1>12, <2>4 DEF Sidesteps, FreshInv, TestsUnwritten
      <3> QED
        BY <1>6, <2>3, <2>4, <3>1 DEF FreshInv
    <2>5. ASSUME NEW t \in Tests, pc[r] = "testInsert", t \in todo[r], pc'[r] = "testLimit",
                 rows' = [rows EXCEPT ![t] = snap[r].rows[t]]
          PROVE  FreshInv' /\ StatusesStay
      <3>1. rows[t] = NoRow /\ rows[t].sid = 0 /\ rows[t].status \notin Terminal
        BY <2>5 DEF FreshInv, TestsUnwritten, Testing, NoRow, Terminal
      <3>2. \A q \in Requests : q # r /\ pc[q] \in Testing => t \notin todo[q]
        BY <2>5 DEF SmsInv, TestInv, Testing
      <3>3. \A n \in Notifications : n # t => rows'[n] = rows[n]
        BY <2>5 DEF TypeOK
      <3>4. StatusesStay
        BY <3>1, <3>3 DEF StatusesStay
      <3>5. HandlersFresh'
        <4>1. \A h \in Updating : handled[h] \in Notifications /\ handled[h] # t
          BY <3>1 DEF SmsInv, TruthInv, HandlersTrue, FreshInv, HandlersFresh, Updating
        <4> QED
          BY <1>3, <1>4, <3>3, <4>1 DEF FreshInv, HandlersFresh, handler
      <3>6. pc'[r] \notin Testing
        BY <2>5 DEF Testing
      <3>7. TestsUnwritten'
        BY <1>1, <3>2, <3>3, <3>6 DEF FreshInv, TestsUnwritten, Notifications
      <3> QED
        BY <2>3, <3>4, <3>5, <3>7 DEF FreshInv
    <2> QED
      BY <1>12, <2>4, <2>5 DEF Sidesteps
  <1>13. CASE Dies(r)
    <2>1. SnapshotsFresh'
      BY <1>1, <1>13 DEF Dies, FreshInv, SnapshotsFresh, Persisting
    <2> QED
      BY <1>6, <1>7, <1>13, <2>1 DEF Dies, FreshInv, Testing
  <1> QED
    BY <1>8, <1>9, <1>10, <1>11, <1>12, <1>13, RequestKinds

\* The steps of a handler keep it, and every terminal status.
LEMMA HandlerFresh ==
  ASSUME SmsInv, TypeOK, FreshInv, WritesApart, NEW h \in Handlers, Handle(h) \/ HandlerDies(h)
  PROVE  FreshInv' /\ StatusesStay
  <1>1. \A g \in Handlers : g # h =>
          /\ hpc'[g] = hpc[g] /\ kind'[g] = kind[g] /\ fetched'[g] = fetched[g]
          /\ handled'[g] = handled[g] /\ seen'[g] = seen[g]
    BY DEF Handle, Look, LogCallback, WriteStatus, HandlerDies, Forget, TypeOK
  <1>2. UNCHANGED request
    BY DEF Handle, Look, LogCallback, WriteStatus, HandlerDies
  <1>3. ASSUME UNCHANGED rows
        PROVE  /\ SnapshotsFresh' /\ TestsUnwritten' /\ StatusesStay
               /\ \A g \in Updating' : g # h => HandlersFresh!(g)'
    BY <1>1, <1>2, <1>3
       DEF FreshInv, SnapshotsFresh, TestsUnwritten, HandlersFresh, StatusesStay, Persisting, Updating,
           Regresses, request
  <1>4. ASSUME Forget(h), UNCHANGED rows PROVE FreshInv' /\ StatusesStay
    <2>1. hpc'[h] = "idle"
      BY <1>4, ForgetType
    <2>2. h \notin Updating'
      BY <2>1 DEF Updating
    <2> QED
      BY <1>3, <1>4, <2>2 DEF FreshInv, HandlersFresh
  <1>5. CASE HandlerDies(h)
    BY <1>4, <1>5 DEF HandlerDies, tables
  <1>6. CASE Look(h)
    <2>1. UNCHANGED rows
      BY <1>6 DEF Look, tables
    <2>2. ASSUME NEW n \in Notifications,
                 Authentic(n, sid[h]),
                 kind[h] = "webhook" \/ Settles(h, n),
                 handled' = [handled EXCEPT ![h] = n],
                 seen' = [seen EXCEPT ![h] = rows[n].status],
                 hpc' = [hpc EXCEPT ![h] = IF kind[h] = "webhook" THEN "log" ELSE "write"],
                 UNCHANGED <<kind, sid, fetched>>
          PROVE  HandlersFresh!(h)'
      <3>1. handled'[h] = n /\ seen'[h] = rows[n].status
            /\ hpc'[h] = IF kind[h] = "webhook" THEN "log" ELSE "write"
        BY <2>2 DEF TypeOK
      <3>2. sid[h] \in DOMAIN sms /\ rows[n].sid = sid[h]
        BY <1>6, <2>2 DEF SmsInv, TruthInv, HandlersTrue, Look, Authentic
      <3>3. sid[h] # 0
        BY <3>2 DEF TypeOK
      <3> QED
        BY <2>1, <2>2, <3>1, <3>2, <3>3 DEF Settles
    <2>3. ASSUME HandlersFresh!(h)' PROVE FreshInv' /\ StatusesStay
      BY <1>3, <2>1, <2>3 DEF FreshInv, HandlersFresh
    <2> QED
      BY <1>4, <1>6, <2>1, <2>2, <2>3 DEF Look
  <1>7. CASE LogCallback(h)
    <2>1. UNCHANGED rows
      BY <1>7 DEF LogCallback
    <2>2. ASSUME ~Regresses(h), hpc' = [hpc EXCEPT ![h] = "write"],
                 UNCHANGED <<kind, sid, fetched, handled, seen>>
          PROVE  FreshInv' /\ StatusesStay
      <3>1. h \in Updating /\ kind[h] = "webhook" /\ hpc'[h] = "write"
        BY <1>7, <2>2 DEF LogCallback, Updating, FreshInv, HandlersFresh, TypeOK
      <3>2. HandlersFresh!(h)'
        BY <2>1, <2>2, <3>1 DEF FreshInv, HandlersFresh, Regresses
      <3> QED
        BY <1>3, <2>1, <3>2 DEF FreshInv, HandlersFresh
    <2> QED
      BY <1>4, <1>7, <2>1, <2>2 DEF LogCallback
  <1>8. CASE WriteStatus(h)
    <2>1. h \in Updating /\ Persisting = {} /\ Persisting' = {} /\ \A g \in Updating : g = h
      BY <1>2, <1>8 DEF WriteStatus, Updating, WritesApart, Persisting, request
    <2>2. hpc'[h] = "idle"
      BY <1>8, ForgetType DEF WriteStatus
    <2>3. Updating' = {}
      BY <1>1, <2>1, <2>2 DEF Updating
    <2>4. handled[h] \in Notifications /\ rows[handled[h]].sid # 0
      BY <1>8, <2>1 DEF SmsInv, TruthInv, HandlersTrue, WriteStatus, FreshInv, HandlersFresh
    <2>5. \/ rows' = rows
          \/ /\ Writable(h)
             /\ rows' = [rows EXCEPT ![handled[h]] = [rows[handled[h]] EXCEPT !.status = Mapped(fetched[h])]]
      BY <1>8 DEF WriteStatus
    <2>6. rows \in [Notifications -> Row] /\ \A n \in Notifications : rows[n] \in Row
      BY DEF TypeOK
    <2>7. \A n \in Notifications : n # handled[h] => rows'[n] = rows[n]
      BY <2>5, <2>6
    <2>8. TestsUnwritten'
      <3>1. ASSUME NEW r \in Requests, NEW t \in Tests, pc[r] \in Testing, t \in todo[r]
            PROVE  rows'[t] = NoRow
        <4>1. rows[t] = NoRow
          BY <3>1 DEF FreshInv, TestsUnwritten
        <4> QED
          BY <2>4, <2>7, <4>1 DEF NoRow, Notifications
      <3> QED
        BY <1>2, <3>1 DEF TestsUnwritten, request
    <2>9. Writable(h) /\ rows[handled[h]].status \in Terminal =>
            Mapped(fetched[h]) = rows[handled[h]].status
      <3>1. kind[h] \in {"webhook", "stale", "manual"} /\ hpc[h] = "write"
        BY <1>8 DEF TypeOK, Kinds, WriteStatus
      <3> QED
        BY <2>1, <3>1 DEF FreshInv, HandlersFresh, Regresses, Writable, Terminal
    <2>10. StatusesStay
      BY <2>4, <2>5, <2>6, <2>7, <2>9 DEF StatusesStay, Row
    <2> QED
      BY <2>1, <2>3, <2>8, <2>10 DEF FreshInv, SnapshotsFresh, HandlersFresh
  <1> QED
    BY <1>5, <1>6, <1>7, <1>8 DEF Handle

\* Every step keeps the invariant, and every terminal status.
LEMMA FreshStep ==
  ASSUME SmsInv, SmsInv', TodoInv, FreshInv, WritesApart, WritesApart', [Next]_vars
  PROVE  FreshInv' /\ StatusesStay
  <1>1. TypeOK /\ TypeOK'
    BY DEF SmsInv, TruthInv
  <1>2. ASSUME UNCHANGED request, UNCHANGED rows, UNCHANGED <<kind, fetched, handled, seen>>,
               \A h \in Updating' : h \in Updating /\ hpc'[h] = hpc[h]
        PROVE  FreshInv' /\ StatusesStay
    BY <1>2 DEF FreshInv, SnapshotsFresh, TestsUnwritten, HandlersFresh, StatusesStay, Persisting,
       Regresses, request
  <1>3. ASSUME NEW h \in Handlers,
               \/ \E k \in 1..MaxSms : Webhook(h, k)
               \/ \E n \in Notifications : Reconcile(h, n) \/ ReconcileByHand(h, n)
        PROVE  FreshInv' /\ StatusesStay
    <2>1. UNCHANGED request /\ UNCHANGED rows /\ UNCHANGED <<handled, seen>>
      BY <1>3 DEF Webhook, Reconcile, ReconcileByHand, tables
    <2>2. hpc[h] = "idle" /\ \E k, why : Hear(h, k, why, "look")
      BY <1>3 DEF Webhook, Reconcile, ReconcileByHand
    <2>3. /\ hpc'[h] = "look"
          /\ \A g \in Handlers : g # h =>
                hpc'[g] = hpc[g] /\ kind'[g] = kind[g] /\ fetched'[g] = fetched[g]
      BY <1>1, <2>2 DEF Hear, TypeOK
    <2>4. \A g \in Updating' : g # h /\ g \in Updating
      BY <2>3 DEF Updating
    <2> QED
      BY <2>1, <2>3, <2>4
         DEF FreshInv, SnapshotsFresh, TestsUnwritten, HandlersFresh, StatusesStay, Persisting, Updating,
             Regresses, request
  <1>4. ASSUME FiveMinutesPass \/ (\E k \in 1..MaxSms : Progress(k)) \/ UNCHANGED vars
        PROVE  FreshInv' /\ StatusesStay
    <2>1. UNCHANGED request /\ UNCHANGED rows /\ UNCHANGED handler
      BY <1>4 DEF FiveMinutesPass, Progress, vars, tables
    <2> QED
      BY <1>2, <2>1 DEF handler, Updating
  <1> QED
    BY <1>1, <1>3, <1>4, RequestFresh, HandlerFresh DEF Next

\* At first nobody works, and nothing has a row.
LEMMA FreshInit == Init => FreshInv
  BY DEF Init, FreshInv, SnapshotsFresh, TestsUnwritten, HandlersFresh, Persisting, Updating, Testing

\* The specification whose writes keep apart is Spec, with writes apart.
LEMMA WritesStayApart == WritesApartSpec => Spec /\ []WritesApart
  <1>1. Init => WritesApart
    BY DEF Init, WritesApart, RequestsApart, Persisting, Updating
  <1>2. WritesApart /\ [Next /\ WritesApart']_vars => WritesApart'
    BY DEF WritesApart, RequestsApart, Persisting, Updating, vars, request, handler
  <1>3. [Next /\ WritesApart']_vars => [Next]_vars
    OBVIOUS
  <1> QED
    BY <1>1, <1>2, <1>3, PTL DEF WritesApartSpec, Spec

\* When no write falls between a read of a notification and the write that rests
\* on it, a terminal status never changes: not by a stale webhook, a
\* reconciliation, a dispatch or a whole snapshot (TerminalStays).
THEOREM TerminalKept == WritesApartSpec => TerminalStays
  <1>1. SmsInv /\ SmsInv' /\ TodoInv /\ FreshInv /\ WritesApart /\ WritesApart' /\ [Next]_vars =>
          FreshInv' /\ [StatusesStay]_vars
    BY FreshStep
  <1>2. TerminalStays <=> [][StatusesStay]_vars
    BY PTL DEF TerminalStays, StatusesStay
  <1> QED
    BY <1>1, <1>2, WritesStayApart, SmsInvariant, TodoAlways, FreshInit, PTL DEF Spec
=============================================================================
