------------------------- MODULE SmsDeliveryProofs -------------------------
(***************************************************************************)
(* Proofs about SmsDelivery, for every set of requests, handlers and       *)
(* notifications and every bound.                                          *)
(***************************************************************************)
EXTENDS SmsDelivery, TLAPS

-----------------------------------------------------------------------------
\* The inductive invariant

\* An id, in the table or in a snapshot, is the id of a message of that notification.
Named(n, row) == row.sid # 0 => row.sid \in DOMAIN sms /\ sms[row.sid].for = n

\* A status only the provider can have decided is the status of some message.
Decided == {"DELIVERED", "UNDELIVERED"}
Backed(n, row) ==
  row.status \in Decided =>
    \E k \in DOMAIN sms : sms[k].for = n /\ Mapped(sms[k].status) = row.status

True(n, row) == Named(n, row) /\ Backed(n, row)

RowsTrue == \A n \in Notifications : True(n, rows[n])
SnapshotsTrue == \A r \in Requests, n \in Notifications : True(n, snap[r].rows[n])

\* What a handler fetched is of the message it names, and still so if decided;
\* the row it is going to write is a row of that message.
HandlersTrue ==
  \A h \in Handlers : hpc[h] # "idle" =>
    /\ sid[h] \in DOMAIN sms
    /\ Mapped(fetched[h]) \in Decided => sms[sid[h]].status = fetched[h]
    /\ hpc[h] \in {"log", "write"} =>
         handled[h] \in Notifications /\ sms[sid[h]].for = handled[h]

TruthInv == TypeOK /\ RowsTrue /\ SnapshotsTrue /\ HandlersTrue

QuietInv == TypeOK /\ (quiet => Quiet)

\* What a step may do to the provider's log.
LogGrows ==
  \A k \in DOMAIN sms :
    /\ k \in DOMAIN sms'
    /\ sms'[k].for = sms[k].for
    /\ Mapped(sms[k].status) \in Decided => sms'[k].status = sms[k].status

-----------------------------------------------------------------------------
\* Types of the helpers

\* Every status of the provider is mapped to a status of a notification.
LEMMA MappedType == \A s \in ProviderStatus : Mapped(s) \in Status
  BY DEF Mapped, ProviderStatus, Status, Terminal

\* A row a request answers a notification with keeps its snapshots typed.
LEMMA AnsweredType ==
  ASSUME TypeOK, NEW r \in Requests, NEW n \in Notifications, NEW row \in Row, Answered(r, n, row)
  PROVE  /\ snap' \in [Requests -> Snapshot]
         /\ snap'[r].rows[n] = row
         /\ \A m \in Notifications : m # n => snap'[r].rows[m] = snap[r].rows[m]
         /\ \A q \in Requests : q # r => snap'[q] = snap[q]
         /\ \A q \in Requests : snap'[q].gate = snap[q].gate
  <1>1. snap[r] \in Snapshot /\ snap[r].rows \in [Notifications -> Row]
    BY DEF TypeOK, Snapshot
  <1>2. [snap[r].rows EXCEPT ![n] = row] \in [Notifications -> Row]
    BY <1>1
  <1>3. [snap[r] EXCEPT !.rows = [snap[r].rows EXCEPT ![n] = row]] \in Snapshot
    BY <1>1, <1>2 DEF Snapshot
  <1>4. snap' = [snap EXCEPT ![r] = [snap[r] EXCEPT !.rows = [snap[r].rows EXCEPT ![n] = row]]]
    BY DEF Answered
  <1>5. snap \in [Requests -> Snapshot]
    BY DEF TypeOK
  <1>6. snap' \in [Requests -> Snapshot]
    BY <1>3, <1>4, <1>5
  <1>7. snap'[r] = [snap[r] EXCEPT !.rows = [snap[r].rows EXCEPT ![n] = row]]
    BY <1>4, <1>5
  <1>8. snap'[r].rows = [snap[r].rows EXCEPT ![n] = row] /\ snap'[r].gate = snap[r].gate
    BY <1>1, <1>7 DEF Snapshot
  <1>9. \A q \in Requests : q # r => snap'[q] = snap[q]
    BY <1>4, <1>5
  <1>10. snap'[r].rows[n] = row /\ \A m \in Notifications : m # n => snap'[r].rows[m] = snap[r].rows[m]
    BY <1>1, <1>8
  <1> QED
    BY <1>6, <1>8, <1>9, <1>10

\* A planned state is a snapshot that differs in one new row without an id.
LEMMA PlannedType ==
  ASSUME NEW state \in Snapshot, NEW n \in Alerts
  PROVE  /\ Planned(state, n) \in Snapshot
         /\ Planned(state, n).gate = state.gate
         /\ Planned(state, n).rows[n].sid = 0
         /\ Planned(state, n).rows[n].status \notin Decided
         /\ \A m \in Notifications : m # n => Planned(state, n).rows[m] = state.rows[m]
  <1> DEFINE row == [status |-> IF state.gate /\ n \in Permitted THEN "PENDING" ELSE "SUPPRESSED",
                     sid |-> 0]
  <1>1. row \in Row /\ row.sid = 0 /\ row.status \notin Decided
    BY DEF Row, Status, Decided
  <1>2. state.rows \in [Notifications -> Row] /\ n \in Notifications
    BY DEF Snapshot, Notifications
  <1>3. [state.rows EXCEPT ![n] = row] \in [Notifications -> Row]
    BY <1>1, <1>2
  <1>4. Planned(state, n) = [state EXCEPT !.rows = [state.rows EXCEPT ![n] = row]]
    BY DEF Planned
  <1> HIDE DEF row
  <1>5. /\ Planned(state, n) \in Snapshot
        /\ Planned(state, n).gate = state.gate
        /\ Planned(state, n).rows = [state.rows EXCEPT ![n] = row]
    BY <1>3, <1>4 DEF Snapshot
  <1> QED
    BY <1>1, <1>2, <1>5

\* What a complaint operation makes of a snapshot: one row at most is new, has no
\* id and a status nobody decided.
LEMMA ChangedType ==
  ASSUME TypeOK, NEW r \in Requests, NEW state \in Changed(r)
  PROVE  /\ state \in Snapshot
         /\ state.gate = snap[r].gate
         /\ \A n \in Notifications :
              /\ state.rows[n].sid \in {0, snap[r].rows[n].sid}
              /\ state.rows[n].status \notin Decided \/ state.rows[n].status = snap[r].rows[n].status
  <1>1. snap[r] \in Snapshot
    BY DEF TypeOK
  <1>2. CASE state = snap[r]
    BY <1>1, <1>2
  <1>3. ASSUME NEW a \in Alerts, state = Planned(snap[r], a)
        PROVE  /\ state \in Snapshot
               /\ state.gate = snap[r].gate
               /\ \A n \in Notifications :
                    /\ state.rows[n].sid \in {0, snap[r].rows[n].sid}
                    /\ state.rows[n].status \notin Decided \/ state.rows[n].status = snap[r].rows[n].status
    BY <1>1, <1>3, PlannedType
  <1> QED
    BY <1>2, <1>3 DEF Changed

\* persistState leaves typed tables, and each row has the id it had or the
\* snapshot's, and the status it had or the snapshot's.
LEMMA PersistType ==
  ASSUME TypeOK, NEW state \in Snapshot, Persist(state)
  PROVE  /\ rows' \in [Notifications -> Row]
         /\ gate' \in BOOLEAN /\ gate' = state.gate
         /\ phone' \in Nat
         /\ \A n \in Notifications :
              /\ rows'[n].status \in {rows[n].status, state.rows[n].status}
              /\ rows'[n].sid \in {rows[n].sid, state.rows[n].sid}
              /\ rows[n].sid # 0 => rows'[n].sid # 0
  <1>1. rows \in [Notifications -> Row] /\ state.rows \in [Notifications -> Row]
    BY DEF TypeOK, Snapshot
  <1>2. \A n \in Notifications : rows[n] \in Row /\ state.rows[n] \in Row
    BY <1>1
  <1>3. rows' = Upserted(rows, state.rows)
    BY DEF Persist
  <1>4. \A n \in Notifications :
          /\ Upserted(rows, state.rows)[n] \in Row
          /\ Upserted(rows, state.rows)[n].status \in {rows[n].status, state.rows[n].status}
          /\ Upserted(rows, state.rows)[n].sid \in {rows[n].sid, state.rows[n].sid}
          /\ rows[n].sid # 0 => Upserted(rows, state.rows)[n].sid # 0
    BY <1>2 DEF Upserted, Row
  <1>5. rows' \in [Notifications -> Row]
    BY <1>3, <1>4 DEF Upserted
  <1> QED
    BY <1>3, <1>4, <1>5 DEF Persist, Snapshot

-----------------------------------------------------------------------------
\* Type correctness

\* The end of a request keeps the types of its locals.
LEMMA LeaveType ==
  ASSUME TypeOK, NEW r \in Requests, Leave(r)
  PROVE  /\ pc' \in [Requests -> {"idle", "loaded", "dispatch", "testSend", "testInsert", "testLimit"}]
         /\ snap' \in [Requests -> Snapshot]
         /\ todo' \in [Requests -> SUBSET Notifications]
         /\ \A q \in Requests : snap'[q] = IF q = r THEN NoSnapshot ELSE snap[q]
  <1>1. NoRow \in Row
    BY DEF NoRow, Row, Status
  <1>2. NoSnapshot \in Snapshot
    BY <1>1 DEF NoSnapshot, Snapshot
  <1> QED
    BY <1>2 DEF TypeOK, Leave, Goto

\* The end of a handler keeps the types of its locals.
LEMMA ForgetType ==
  ASSUME TypeOK, NEW h \in Handlers, Forget(h)
  PROVE  /\ hpc' \in [Handlers -> {"idle", "look", "log", "write"}]
         /\ kind' \in [Handlers -> Kinds]
         /\ sid' \in [Handlers -> Nat]
         /\ fetched' \in [Handlers -> ProviderStatus]
         /\ handled' \in [Handlers -> Notifications \cup {NoHandled}]
         /\ seen' \in [Handlers -> Status]
         /\ hpc'[h] = "idle"
         /\ \A g \in Handlers : g # h =>
              /\ hpc'[g] = hpc[g] /\ sid'[g] = sid[g]
              /\ fetched'[g] = fetched[g] /\ handled'[g] = handled[g]
  BY DEF TypeOK, Forget, Kinds, ProviderStatus, Status

\* A send appends a typed message or nothing, and answers with a typed row.
LEMMA SendType ==
  ASSUME TypeOK, NEW r \in Requests, NEW n \in Notifications, Accept(r, n) \/ Refuse(r, n)
  PROVE  /\ sms' \in Seq(Sms)
         /\ LogGrows
         /\ \/ sms' = sms
            \/ /\ Len(sms') = Len(sms) + 1
               /\ sms'[Len(sms) + 1].for = n
         /\ \E row \in Row :
              /\ Answered(r, n, row)
              /\ row.status \notin Decided
              /\ \/ row.sid = snap[r].rows[n].sid
                 \/ row.sid = Len(sms) + 1 /\ Len(sms') = Len(sms) + 1
  <1>1. sms \in Seq(Sms) /\ snap[r] \in Snapshot /\ snap[r].rows[n] \in Row
    BY DEF TypeOK, Snapshot
  <1>2. snap[r].phone \in Nat /\ snap[r].rows[n].sid \in Nat
    BY <1>1 DEF Snapshot, Row
  <1> DEFINE m == [for |-> n, to |-> snap[r].phone, status |-> "queued"]
             failed == [status |-> "FAILED", sid |-> snap[r].rows[n].sid]
             sent == [status |-> "SENT", sid |-> Len(sms) + 1]
  <1>3. m \in Sms /\ m.for = n
    BY <1>2 DEF Sms, ProviderStatus
  <1>4. failed \in Row /\ sent \in Row /\ failed.status \notin Decided /\ sent.status \notin Decided
    BY <1>1, <1>2 DEF Row, Status, Terminal, Decided
  <1>5. failed.sid = snap[r].rows[n].sid /\ sent.sid = Len(sms) + 1
    OBVIOUS
  <1>6. CASE Accept(r, n)
    <2>1. sms' = Append(sms, m) /\ (Answered(r, n, sent) \/ Answered(r, n, failed))
      BY <1>6 DEF Accept
    <2> HIDE DEF m, failed, sent
    <2>2. sms' \in Seq(Sms) /\ Len(sms') = Len(sms) + 1 /\ sms'[Len(sms) + 1] = m
      BY <1>1, <1>3, <2>1
    <2>3. LogGrows
      BY <1>1, <1>3, <2>1 DEF LogGrows
    <2> QED
      BY <1>3, <1>4, <1>5, <2>1, <2>2, <2>3
  <1>7. CASE Refuse(r, n)
    <2>1. sms' = sms /\ Answered(r, n, failed)
      BY <1>7 DEF Refuse
    <2> HIDE DEF failed
    <2>2. LogGrows
      BY <2>1 DEF LogGrows
    <2> QED
      BY <1>1, <1>4, <1>5, <2>1, <2>2
  <1> QED
    BY <1>6, <1>7

\* The provider decides on a message once.
LEMMA ProgressType ==
  ASSUME TypeOK, NEW k \in Nat, Progress(k)
  PROVE  sms' \in Seq(Sms) /\ LogGrows /\ Len(sms') = Len(sms)
  <1>1. PICK s \in Successors(sms[k].status) : sms' = [sms EXCEPT ![k].status = s]
    BY DEF Progress
  <1>2. sms \in Seq(Sms) /\ k \in DOMAIN sms /\ sms[k] \in Sms
    BY DEF TypeOK, Progress
  <1>3. s \in ProviderStatus /\ Mapped(sms[k].status) \notin Decided
    BY <1>1 DEF Successors, ProviderStatus, Mapped, Decided
  <1> DEFINE m == [sms[k] EXCEPT !.status = s]
  <1>4. m \in Sms /\ m.for = sms[k].for
    BY <1>2, <1>3 DEF Sms
  <1>5. sms' = [sms EXCEPT ![k] = m]
    BY <1>1
  <1> HIDE DEF m
  <1>6. sms' \in Seq(Sms) /\ Len(sms') = Len(sms)
    BY <1>2, <1>4, <1>5
  <1> QED
    BY <1>2, <1>3, <1>4, <1>5, <1>6 DEF LogGrows






-----------------------------------------------------------------------------
\* The steps of requests

\* A request moves on to another call.
LEMMA GotoType ==
  ASSUME TypeOK, NEW r \in Requests,
         NEW label \in {"idle", "loaded", "dispatch", "testSend", "testInsert", "testLimit"},
         Goto(r, label)
  PROVE  pc' \in [Requests -> {"idle", "loaded", "dispatch", "testSend", "testInsert", "testLimit"}]
  BY DEF TypeOK, Goto

\* What the step of a request may do: the log grows, and every row, in the
\* table or in a snapshot, has the id and the status of some row before it,
\* or a fresh id and a status nobody decided.
From(n, row) ==
  /\ \/ row.sid = 0
     \/ row.sid = rows[n].sid
     \/ \E r \in Requests : row.sid = snap[r].rows[n].sid
     \/ row.sid = Len(sms) + 1 /\ Len(sms') = Len(sms) + 1 /\ sms'[row.sid].for = n
  /\ \/ row.status \notin Decided
     \/ row.status = rows[n].status
     \/ \E r \in Requests : row.status = snap[r].rows[n].status

RequestStep ==
  /\ TypeOK'
  /\ LogGrows
  /\ UNCHANGED handler
  /\ \A n \in Notifications : From(n, rows'[n]) /\ (rows[n].sid # 0 => rows'[n].sid # 0)
  /\ \A r \in Requests, n \in Notifications : From(n, snap'[r].rows[n])

\* The log that stays as it is grows.
LEMMA UnchangedLog == ASSUME TypeOK, UNCHANGED sms PROVE LogGrows
  BY DEF LogGrows

\* loadState.
LEMMA LoadStep == ASSUME TypeOK, NEW r \in Requests, Load(r) PROVE RequestStep
  <1> DEFINE loaded == [rows |-> rows, gate |-> gate, phone |-> phone]
  <1>1. loaded \in Snapshot /\ loaded.rows = rows
    BY DEF TypeOK, Snapshot
  <1>2. snap' = [snap EXCEPT ![r] = loaded]
    BY DEF Load
  <1> HIDE DEF loaded
  <1>3. snap' \in [Requests -> Snapshot]
    BY <1>1, <1>2 DEF TypeOK
  <1>4. pc' \in [Requests -> {"idle", "loaded", "dispatch", "testSend", "testInsert", "testLimit"}]
    BY GotoType DEF Load
  <1>5. TypeOK'
    <2>1. UNCHANGED <<rows, gate, phone, callbackIds, recentTest, sms, todo, hpc, kind, sid, fetched,
                      handled, seen, switches, moves, faults>>
      BY DEF Load, tables, handler, bounds
    <2>2. quiet' \in BOOLEAN
      BY DEF Load, Watch, Quiet, TypeOK
    <2> QED
      BY <1>3, <1>4, <2>1, <2>2 DEF TypeOK
  <1>6. \A q \in Requests : snap'[q] = IF q = r THEN loaded ELSE snap[q]
    BY <1>2 DEF TypeOK
  <1>7. \A q \in Requests, n \in Notifications : From(n, snap'[q].rows[n])
    BY <1>1, <1>6 DEF From
  <1>8. UNCHANGED rows /\ UNCHANGED sms /\ UNCHANGED handler
    BY DEF Load, tables
  <1> QED
    BY <1>5, <1>7, <1>8, UnchangedLog DEF RequestStep, From

\* createComplaint, updateComplaint, processDeadlines.
LEMMA PlanStep == ASSUME TypeOK, NEW r \in Requests, Plan(r) PROVE RequestStep
  <1>1. PICK state \in Changed(r) :
           /\ Persist(state)
           /\ snap' = [snap EXCEPT ![r] = state]
           /\ todo' = [todo EXCEPT ![r] = Due(state.rows)]
    BY DEF Plan
  <1>2. /\ state \in Snapshot
        /\ \A n \in Notifications :
             /\ state.rows[n].sid \in {0, snap[r].rows[n].sid}
             /\ state.rows[n].status \notin Decided \/ state.rows[n].status = snap[r].rows[n].status
    BY <1>1, ChangedType
  <1>3. \A q \in Requests : snap'[q] = IF q = r THEN state ELSE snap[q]
    BY <1>1 DEF TypeOK
  <1>4. pc' \in [Requests -> {"idle", "loaded", "dispatch", "testSend", "testInsert", "testLimit"}]
    BY GotoType DEF Plan
  <1>5. Due(state.rows) \in SUBSET Notifications
    BY DEF Due, Notifications
  <1>6. TypeOK'
    <2>1. UNCHANGED <<callbackIds, recentTest, sms, hpc, kind, sid, fetched,
                      handled, seen, switches, moves, faults>>
      BY <1>1 DEF Plan, Persist, handler, bounds
    <2>2. quiet' \in BOOLEAN
      BY DEF Plan, Watch, Quiet, TypeOK
    <2>3. snap' \in [Requests -> Snapshot] /\ todo' \in [Requests -> SUBSET Notifications]
      BY <1>1, <1>2, <1>5 DEF TypeOK
    <2> QED
      BY <1>1, <1>2, <1>4, <2>1, <2>2, <2>3, PersistType DEF TypeOK
  <1>7. \A q \in Requests, n \in Notifications : From(n, snap'[q].rows[n])
    BY <1>2, <1>3 DEF From
  <1>8. \A n \in Notifications : From(n, rows'[n]) /\ (rows[n].sid # 0 => rows'[n].sid # 0)
    BY <1>1, <1>2, PersistType DEF From
  <1>9. UNCHANGED sms /\ UNCHANGED handler
    BY DEF Plan
  <1> QED
    BY <1>6, <1>7, <1>8, <1>9, UnchangedLog DEF RequestStep

\* A request writes a snapshot that differs from its own in switch or phone, or in
\* what is planned, and ends.
LEMMA PersistLeaveStep ==
  ASSUME TypeOK, NEW r \in Requests, NEW state \in Snapshot,
         \A n \in Notifications :
           /\ state.rows[n].sid \in {0, snap[r].rows[n].sid}
           /\ state.rows[n].status \notin Decided \/ state.rows[n].status = snap[r].rows[n].status,
         Persist(state), Leave(r), UNCHANGED sms, UNCHANGED handler,
         switches' \in Nat, moves' \in Nat, faults' \in Nat, quiet' \in BOOLEAN
  PROVE  RequestStep
  <1>1. TypeOK'
    BY PersistType, LeaveType DEF TypeOK, Persist, handler
  <1>2. \A n \in Notifications : From(n, rows'[n]) /\ (rows[n].sid # 0 => rows'[n].sid # 0)
    BY PersistType DEF From
  <1>3. \A q \in Requests, n \in Notifications : From(n, snap'[q].rows[n])
    BY LeaveType DEF From, NoSnapshot, NoRow, Decided
  <1> QED
    BY <1>1, <1>2, <1>3, UnchangedLog DEF RequestStep

\* A request answers a notification with a row it made and keeps the tables.
LEMMA AnswerStep ==
  ASSUME TypeOK, NEW r \in Requests, NEW n \in Notifications, NEW row \in Row, Answered(r, n, row),
         From(n, row), LogGrows, sms' \in Seq(Sms), UNCHANGED tables, UNCHANGED handler,
         UNCHANGED bounds, quiet' \in BOOLEAN,
         pc' \in [Requests -> {"idle", "loaded", "dispatch", "testSend", "testInsert", "testLimit"}],
         todo' \in [Requests -> SUBSET Notifications]
  PROVE  RequestStep
  <1>1. TypeOK'
    BY AnsweredType DEF TypeOK, tables, handler, bounds
  <1>2. \A q \in Requests, m \in Notifications :
          snap'[q].rows[m] = IF q = r /\ m = n THEN row ELSE snap[q].rows[m]
    BY AnsweredType
  <1>3. \A q \in Requests, m \in Notifications : From(m, snap'[q].rows[m])
    BY <1>2 DEF From
  <1>4. UNCHANGED rows
    BY DEF tables
  <1>5. \A m \in Notifications : From(m, rows'[m]) /\ (rows[m].sid # 0 => rows'[m].sid # 0)
    BY <1>4 DEF From
  <1> QED
    BY <1>1, <1>3, <1>5 DEF RequestStep

\* dispatchEligible suppresses.
LEMMA SuppressStep ==
  ASSUME TypeOK, NEW r \in Requests, NEW n \in Alerts, Suppress(r, n) PROVE RequestStep
  <1> DEFINE row == [status |-> "SUPPRESSED", sid |-> snap[r].rows[n].sid]
  <1>1. n \in Notifications /\ snap[r].rows[n] \in Row
    BY DEF TypeOK, Snapshot, Notifications
  <1>2. row \in Row /\ From(n, row)
    BY <1>1 DEF Row, Status, Decided, From
  <1>3. quiet' \in BOOLEAN /\ pc' = pc /\ todo' \in [Requests -> SUBSET Notifications]
    BY DEF Suppress, Watch, Quiet, TypeOK
  <1>4. UNCHANGED sms /\ UNCHANGED tables /\ UNCHANGED handler /\ UNCHANGED bounds /\ Answered(r, n, row)
    BY DEF Suppress
  <1> HIDE DEF row
  <1>5. LogGrows /\ sms' \in Seq(Sms)
         /\ pc' \in [Requests -> {"idle", "loaded", "dispatch", "testSend", "testInsert", "testLimit"}]
    BY <1>3, <1>4, UnchangedLog DEF TypeOK
  <1> QED
    BY <1>1, <1>2, <1>3, <1>4, <1>5, AnswerStep

\* A send of an alert or of a test, with whatever call follows.
LEMMA AnySendStep ==
  ASSUME TypeOK, NEW r \in Requests, NEW n \in Notifications, Accept(r, n) \/ Refuse(r, n),
         UNCHANGED tables, UNCHANGED handler, UNCHANGED bounds, quiet' \in BOOLEAN,
         pc' \in [Requests -> {"idle", "loaded", "dispatch", "testSend", "testInsert", "testLimit"}],
         todo' \in [Requests -> SUBSET Notifications]
  PROVE  RequestStep
  <1>1. PICK row \in Row :
          /\ Answered(r, n, row)
          /\ row.status \notin Decided
          /\ \/ row.sid = snap[r].rows[n].sid
             \/ row.sid = Len(sms) + 1 /\ Len(sms') = Len(sms) + 1
    BY SendType
  <1>2. sms' \in Seq(Sms) /\ LogGrows /\ (sms' = sms \/ sms'[Len(sms) + 1].for = n)
    BY SendType
  <1>3. sms' = sms => Len(sms') # Len(sms) + 1
    BY DEF TypeOK
  <1>4. From(n, row)
    BY <1>1, <1>2, <1>3 DEF From
  <1> QED
    BY <1>1, <1>2, <1>4, AnswerStep

\* dispatchEligible sends.
LEMMA SendStep ==
  ASSUME TypeOK, NEW r \in Requests, NEW n \in Alerts, Send(r, n) PROVE RequestStep
  <1>1. n \in Notifications
    BY DEF Notifications
  <1>2. quiet' \in BOOLEAN /\ pc' = pc /\ todo' \in [Requests -> SUBSET Notifications]
    BY DEF Send, Watch, Quiet, TypeOK
  <1>3. pc' \in [Requests -> {"idle", "loaded", "dispatch", "testSend", "testInsert", "testLimit"}]
    BY <1>2 DEF TypeOK
  <1>4. /\ UNCHANGED tables /\ UNCHANGED handler /\ UNCHANGED bounds
        /\ Accept(r, n) \/ Refuse(r, n)
    BY DEF Send
  <1> QED
    BY <1>1, <1>2, <1>3, <1>4, AnySendStep

\* The last write of dispatchEligible.
LEMMA PersistDispatchStep ==
  ASSUME TypeOK, NEW r \in Requests, PersistDispatch(r) PROVE RequestStep
  <1>1. snap[r] \in Snapshot /\ Persist(snap[r]) /\ Leave(r) /\ UNCHANGED sms /\ UNCHANGED handler
    BY DEF TypeOK, PersistDispatch
  <1>2. switches' \in Nat /\ moves' \in Nat /\ faults' \in Nat /\ quiet' \in BOOLEAN
    BY DEF TypeOK, PersistDispatch, bounds, Watch, Quiet
  <1> QED
    BY <1>1, <1>2, PersistLeaveStep

\* The mail intake.
LEMMA TakeInStep == ASSUME TypeOK, NEW r \in Requests, TakeIn(r) PROVE RequestStep
  <1>1. PICK state \in Changed(r) : Persist(state)
    BY DEF TakeIn
  <1>2. Leave(r) /\ UNCHANGED sms /\ UNCHANGED handler
    BY DEF TakeIn
  <1>3. switches' \in Nat /\ moves' \in Nat /\ faults' \in Nat /\ quiet' \in BOOLEAN
    BY DEF TypeOK, TakeIn, bounds, Watch, Quiet
  <1> QED
    BY <1>1, <1>2, <1>3, ChangedType, PersistLeaveStep

\* PUT /api/admin/config.
LEMMA ChangeGateStep ==
  ASSUME TypeOK, NEW r \in Requests, ChangeGate(r) PROVE RequestStep
  <1> DEFINE state == [snap[r] EXCEPT !.gate = ~@]
  <1>1. snap[r] \in Snapshot
    BY DEF TypeOK
  <1>2. state \in Snapshot /\ state.rows = snap[r].rows
    BY <1>1 DEF Snapshot
  <1>3. Persist(state) /\ Leave(r) /\ UNCHANGED sms /\ UNCHANGED handler
    BY DEF ChangeGate
  <1>4. switches' \in Nat /\ moves' \in Nat /\ faults' \in Nat
    BY DEF TypeOK, ChangeGate
  <1>5. quiet' \in BOOLEAN
    <2>1. snap[r].gate => quiet' = (quiet \/ Quiet')
      BY DEF ChangeGate
    <2>2. ~snap[r].gate => quiet' = FALSE
      BY DEF ChangeGate
    <2> QED
      BY <2>1, <2>2
  <1> HIDE DEF state
  <1> QED
    BY <1>2, <1>3, <1>4, <1>5, PersistLeaveStep

\* PUT /api/admin/contacts/:id.
LEMMA ChangePhoneStep ==
  ASSUME TypeOK, NEW r \in Requests, ChangePhone(r) PROVE RequestStep
  <1> DEFINE state == [snap[r] EXCEPT !.phone = @ + 1]
  <1>1. snap[r] \in Snapshot
    BY DEF TypeOK
  <1>2. state \in Snapshot /\ state.rows = snap[r].rows
    BY <1>1 DEF Snapshot
  <1>3. Persist(state) /\ Leave(r) /\ UNCHANGED sms /\ UNCHANGED handler
    BY DEF ChangePhone
  <1>4. switches' \in Nat /\ moves' \in Nat /\ faults' \in Nat /\ quiet' \in BOOLEAN
    BY DEF TypeOK, ChangePhone, Watch, Quiet
  <1> HIDE DEF state
  <1> QED
    BY <1>2, <1>3, <1>4, PersistLeaveStep

\* Steps that keep every row: the start of a test and the rate limit.
LEMMA StartTestStep ==
  ASSUME TypeOK, NEW r \in Requests, NEW t \in Tests, StartTest(r, t) PROVE RequestStep
  <1>1. pc' \in [Requests -> {"idle", "loaded", "dispatch", "testSend", "testInsert", "testLimit"}]
    BY GotoType DEF StartTest
  <1>2. todo' \in [Requests -> SUBSET Notifications] /\ quiet' \in BOOLEAN
    BY DEF StartTest, TypeOK, Notifications, Watch, Quiet
  <1>3. UNCHANGED <<rows, gate, phone, callbackIds, recentTest, sms, snap, hpc, kind, sid, fetched,
                    handled, seen, switches, moves, faults>>
    BY DEF StartTest, tables, handler, bounds
  <1>4. TypeOK'
    BY <1>1, <1>2, <1>3 DEF TypeOK
  <1> QED
    BY <1>3, <1>4, UnchangedLog DEF RequestStep, From, handler

\* The send of a test notification.
LEMMA SendTestStep ==
  ASSUME TypeOK, NEW r \in Requests, NEW t \in Tests, SendTest(r, t) PROVE RequestStep
  <1>1. t \in Notifications
    BY DEF Notifications
  <1>2. pc' \in [Requests -> {"idle", "loaded", "dispatch", "testSend", "testInsert", "testLimit"}]
    BY GotoType DEF SendTest
  <1>3. todo' \in [Requests -> SUBSET Notifications] /\ quiet' \in BOOLEAN
    BY DEF SendTest, TypeOK, Watch, Quiet
  <1>4. UNCHANGED tables /\ UNCHANGED handler /\ UNCHANGED bounds
    BY DEF SendTest
  <1>5. CASE Accept(r, t) \/ Refuse(r, t)
    BY <1>1, <1>2, <1>3, <1>4, <1>5, AnySendStep
  <1>6. CASE Answered(r, t, [status |-> "SUPPRESSED", sid |-> 0]) /\ UNCHANGED sms
    <2> DEFINE row == [status |-> "SUPPRESSED", sid |-> 0]
    <2>1. row \in Row /\ From(t, row)
      BY DEF Row, Status, Decided, From
    <2>2. Answered(r, t, row) /\ UNCHANGED sms
      BY <1>6
    <2> HIDE DEF row
    <2>3. LogGrows /\ sms' \in Seq(Sms)
      BY <2>2, UnchangedLog DEF TypeOK
    <2> QED
      BY <1>1, <1>2, <1>3, <1>4, <2>1, <2>2, <2>3, AnswerStep
  <1> QED
    BY <1>5, <1>6 DEF SendTest

\* The INSERT of a test notification: its row comes from the snapshot.
LEMMA InsertTestStep ==
  ASSUME TypeOK, NEW r \in Requests, NEW t \in Tests, InsertTest(r, t),
         rows[t].sid = 0
  PROVE  RequestStep
  <1>1. t \in Notifications /\ snap[r].rows[t] \in Row
    BY DEF TypeOK, Snapshot, Notifications
  <1>2. pc' \in [Requests -> {"idle", "loaded", "dispatch", "testSend", "testInsert", "testLimit"}]
    BY GotoType DEF InsertTest
  <1>3. rows' \in [Notifications -> Row]
        /\ \A n \in Notifications : rows'[n] = IF n = t THEN snap[r].rows[t] ELSE rows[n]
    BY <1>1 DEF InsertTest, TypeOK
  <1>4. UNCHANGED <<gate, phone, callbackIds, recentTest, sms, snap, todo, hpc, kind, sid, fetched,
                    handled, seen, switches, moves, faults>>
    BY DEF InsertTest, handler, bounds
  <1>5. quiet' \in BOOLEAN
    BY DEF InsertTest, TypeOK, Watch, Quiet
  <1>6. TypeOK'
    BY <1>2, <1>3, <1>4, <1>5 DEF TypeOK
  <1>7. \A n \in Notifications : From(n, rows'[n]) /\ (rows[n].sid # 0 => rows'[n].sid # 0)
    BY <1>3 DEF From
  <1>8. \A q \in Requests, n \in Notifications : From(n, snap'[q].rows[n])
    BY <1>4 DEF From
  <1> QED
    BY <1>4, <1>6, <1>7, <1>8, UnchangedLog DEF RequestStep, handler

\* A request that is over, with or without its last write.
LEMMA EndStep ==
  ASSUME TypeOK, NEW r \in Requests, Leave(r), UNCHANGED sms, UNCHANGED handler,
         UNCHANGED <<rows, gate, phone, callbackIds>>, recentTest' \in BOOLEAN,
         switches' \in Nat, moves' \in Nat, faults' \in Nat, quiet' \in BOOLEAN
  PROVE  RequestStep
  <1>1. TypeOK'
    BY LeaveType DEF TypeOK, handler
  <1>2. \A q \in Requests, n \in Notifications : From(n, snap'[q].rows[n])
    BY LeaveType DEF From, NoSnapshot, NoRow, Decided
  <1> QED
    BY <1>1, <1>2, UnchangedLog DEF RequestStep, From

-----------------------------------------------------------------------------
\* Truth is inductive

\* The request's steps keep the rows, the snapshots and the handlers true.
LEMMA RequestTruth == ASSUME TruthInv, RequestStep PROVE TruthInv'
  <1>1. TypeOK /\ TypeOK' /\ LogGrows /\ sms' \in Seq(Sms)
    BY DEF TruthInv, RequestStep, TypeOK
  <1>2. ASSUME NEW n \in Notifications, NEW row, From(n, row)
        PROVE  row.sid # 0 => row.sid \in DOMAIN sms' /\ sms'[row.sid].for = n
    <2>1. CASE row.sid = rows[n].sid
      BY <1>1, <2>1 DEF TruthInv, RowsTrue, True, Named, LogGrows
    <2>2. CASE \E r \in Requests : row.sid = snap[r].rows[n].sid
      BY <1>1, <2>2 DEF TruthInv, SnapshotsTrue, True, Named, LogGrows
    <2>3. CASE row.sid = Len(sms) + 1 /\ Len(sms') = Len(sms) + 1 /\ sms'[row.sid].for = n
      <3>1. Len(sms) \in Nat
        BY <1>1 DEF TypeOK
      <3> QED
        BY <1>1, <2>3, <3>1
    <2> QED
      BY <1>2, <2>1, <2>2, <2>3 DEF From
  <1>3. ASSUME NEW n \in Notifications, NEW row, From(n, row)
        PROVE  row.status \in Decided =>
                 \E k \in DOMAIN sms' : sms'[k].for = n /\ Mapped(sms'[k].status) = row.status
    <2>1. CASE row.status = rows[n].status
      BY <1>1, <2>1 DEF TruthInv, RowsTrue, True, Backed, LogGrows
    <2>2. CASE \E r \in Requests : row.status = snap[r].rows[n].status
      BY <1>1, <2>2 DEF TruthInv, SnapshotsTrue, True, Backed, LogGrows
    <2> QED
      BY <1>3, <2>1, <2>2 DEF From
  <1>4. RowsTrue'
    BY <1>2, <1>3 DEF RequestStep, RowsTrue, True, Named, Backed
  <1>5. SnapshotsTrue'
    BY <1>2, <1>3 DEF RequestStep, SnapshotsTrue, True, Named, Backed
  <1>6. HandlersTrue'
    <2>1. UNCHANGED handler
      BY DEF RequestStep
    <2>2. UNCHANGED <<hpc, sid, fetched, handled>>
      BY <2>1 DEF handler
    <2>3. SUFFICES ASSUME NEW h \in Handlers, hpc[h] # "idle"
                   PROVE  /\ sid[h] \in DOMAIN sms'
                          /\ Mapped(fetched[h]) \in Decided => sms'[sid[h]].status = fetched[h]
                          /\ hpc[h] \in {"log", "write"} =>
                               handled[h] \in Notifications /\ sms'[sid[h]].for = handled[h]
      BY <2>2 DEF HandlersTrue
    <2>4. /\ sid[h] \in DOMAIN sms
          /\ Mapped(fetched[h]) \in Decided => sms[sid[h]].status = fetched[h]
          /\ hpc[h] \in {"log", "write"} =>
               handled[h] \in Notifications /\ sms[sid[h]].for = handled[h]
      BY <2>3 DEF TruthInv, HandlersTrue
    <2> QED
      BY <1>1, <2>4 DEF LogGrows
  <1> QED
    BY <1>1, <1>4, <1>5, <1>6 DEF TruthInv

\* What handlers write and hear: tables and locals they leave alone stay true.
LEMMA SameTruth ==
  ASSUME TruthInv, UNCHANGED <<rows, sms, snap>> PROVE RowsTrue' /\ SnapshotsTrue'
  BY DEF TruthInv, RowsTrue, SnapshotsTrue, True, Named, Backed

\* A handler fetches the record of a message.
LEMMA HearStep ==
  ASSUME TruthInv, NEW h \in Handlers, NEW k \in DOMAIN sms, NEW why \in Kinds,
         Hear(h, k, why, "look"), UNCHANGED <<tables, sms, request, handled, seen, bounds, quiet>>
  PROVE  TruthInv'
  <1>0. TypeOK /\ sms \in Seq(Sms)
    BY DEF TruthInv, TypeOK
  <1>00. k \in Nat /\ sms[k] \in Sms
    BY <1>0
  <1>1. TypeOK /\ k \in Nat /\ sms[k].status \in ProviderStatus
    BY <1>0, <1>00 DEF Sms
  <1>2. UNCHANGED <<rows, gate, phone, callbackIds, recentTest, sms, pc, snap, todo, handled, seen,
                    switches, moves, faults, quiet>>
    BY DEF tables, request, bounds
  <1>3. TypeOK'
    BY <1>1, <1>2 DEF TypeOK, Hear
  <1>4. HandlersTrue'
    BY <1>1, <1>2 DEF TruthInv, HandlersTrue, Hear, TypeOK
  <1>5. RowsTrue' /\ SnapshotsTrue'
    BY <1>2, SameTruth
  <1> QED
    BY <1>3, <1>4, <1>5 DEF TruthInv

\* A webhook, the scheduled and the manual reconciliation start alike.
LEMMA ListenStep ==
  ASSUME TruthInv, NEW h \in Handlers,
         \/ \E k \in 1..MaxSms : Webhook(h, k)
         \/ \E n \in Notifications : Reconcile(h, n) \/ ReconcileByHand(h, n)
  PROVE  TruthInv'
  <1>1. {"webhook", "stale", "manual"} = Kinds
    BY DEF Kinds
  <1>2. CASE \E k \in 1..MaxSms : Webhook(h, k)
    <2>1. PICK k \in 1..MaxSms : Webhook(h, k)
      BY <1>2
    <2>2. k \in DOMAIN sms /\ Hear(h, k, "webhook", "look")
          /\ UNCHANGED <<tables, sms, request, handled, seen, bounds, quiet>>
      BY <2>1 DEF Webhook
    <2> QED
      BY <1>1, <2>2, HearStep
  <1>3. CASE \E n \in Notifications : Reconcile(h, n)
    <2>1. PICK n \in Notifications : Reconcile(h, n)
      BY <1>3
    <2>2. rows[n].sid \in DOMAIN sms
      BY <2>1 DEF TruthInv, RowsTrue, True, Named, Reconcile
    <2>3. Hear(h, rows[n].sid, "stale", "look")
          /\ UNCHANGED <<tables, sms, request, handled, seen, bounds, quiet>>
      BY <2>1 DEF Reconcile
    <2> QED
      BY <1>1, <2>2, <2>3, HearStep
  <1>4. CASE \E n \in Notifications : ReconcileByHand(h, n)
    <2>1. PICK n \in Notifications : ReconcileByHand(h, n)
      BY <1>4
    <2>2. rows[n].sid \in DOMAIN sms
      BY <2>1 DEF TruthInv, RowsTrue, True, Named, ReconcileByHand
    <2>3. Hear(h, rows[n].sid, "manual", "look")
          /\ UNCHANGED <<tables, sms, request, handled, seen, bounds, quiet>>
      BY <2>1 DEF ReconcileByHand
    <2> QED
      BY <1>1, <2>2, <2>3, HearStep
  <1> QED
    BY <1>2, <1>3, <1>4

\* A handler that is over knows nothing.
LEMMA ForgetStep ==
  ASSUME TruthInv, NEW h \in Handlers, Forget(h), UNCHANGED <<sms, snap>>,
         RowsTrue', SnapshotsTrue',
         rows' \in [Notifications -> Row], gate' \in BOOLEAN, phone' \in Nat,
         callbackIds' \subseteq Nat \X ProviderStatus, recentTest' \in BOOLEAN,
         UNCHANGED <<pc, todo, switches, moves, quiet>>, faults' \in Nat
  PROVE  TruthInv'
  <1>1. TypeOK'
    BY ForgetType DEF TruthInv, TypeOK
  <1>2. HandlersTrue'
    BY ForgetType DEF TruthInv, HandlersTrue
  <1> QED
    BY <1>1, <1>2 DEF TruthInv

\* The SELECT of the row.
LEMMA LookStep == ASSUME TruthInv, NEW h \in Handlers, Look(h) PROVE TruthInv'
  <1>1. UNCHANGED <<rows, gate, phone, callbackIds, recentTest, sms, pc, snap, todo,
                    switches, moves, faults, quiet>>
    BY DEF Look, tables, request, bounds
  <1>2. RowsTrue' /\ SnapshotsTrue'
    BY <1>1, SameTruth
  <1>3. CASE Forget(h)
    BY <1>1, <1>2, <1>3, ForgetStep DEF TruthInv, TypeOK
  <1>4. ASSUME NEW n \in Notifications,
               Authentic(n, sid[h]),
               handled' = [handled EXCEPT ![h] = n],
               seen' = [seen EXCEPT ![h] = rows[n].status],
               hpc' = [hpc EXCEPT ![h] = IF kind[h] = "webhook" THEN "log" ELSE "write"],
               UNCHANGED <<kind, sid, fetched>>
        PROVE  TruthInv'
    <2>1. rows[n].status \in Status
      BY DEF TruthInv, TypeOK, Row
    <2>2. TypeOK'
      BY <1>1, <1>4, <2>1 DEF TruthInv, TypeOK
    <2>3. sid[h] \in DOMAIN sms /\ sms[sid[h]].for = n
      <3>1. sid[h] \in DOMAIN sms
        BY DEF TruthInv, HandlersTrue, Look
      <3>2. rows[n].sid = sid[h] /\ rows[n].sid # 0
        BY <1>4, <3>1 DEF Authentic, TruthInv, TypeOK
      <3> QED
        BY <3>1, <3>2 DEF TruthInv, RowsTrue, True, Named
    <2>4. hpc[h] = "look"
      BY DEF Look
    <2>5. HandlersTrue'
      <3>1. SUFFICES ASSUME NEW g \in Handlers, hpc'[g] # "idle"
                     PROVE  /\ sid[g] \in DOMAIN sms
                            /\ Mapped(fetched[g]) \in Decided => sms[sid[g]].status = fetched[g]
                            /\ hpc'[g] \in {"log", "write"} =>
                                 handled'[g] \in Notifications /\ sms[sid[g]].for = handled'[g]
        BY <1>1, <1>4 DEF HandlersTrue
      <3>2. CASE g = h
        BY <1>4, <2>3, <2>4, <3>2 DEF TruthInv, HandlersTrue, TypeOK
      <3>3. CASE g # h
        <4>1. hpc'[g] = hpc[g] /\ handled'[g] = handled[g]
          BY <1>4, <3>3 DEF TruthInv, TypeOK
        <4> QED
          BY <3>1, <4>1 DEF TruthInv, HandlersTrue
      <3> QED
        BY <3>2, <3>3
    <2> QED
      BY <1>2, <2>2, <2>5 DEF TruthInv
  <1> QED
    BY <1>3, <1>4 DEF Look

\* The INSERT OR IGNORE of the callback row.
LEMMA LogCallbackStep == ASSUME TruthInv, NEW h \in Handlers, LogCallback(h) PROVE TruthInv'
  <1>1. UNCHANGED <<rows, gate, phone, recentTest, sms, pc, snap, todo,
                    switches, moves, faults, quiet>>
    BY DEF LogCallback, request, bounds
  <1>2. RowsTrue' /\ SnapshotsTrue'
    BY <1>1, SameTruth
  <1>3. callbackIds' \subseteq Nat \X ProviderStatus
    BY DEF LogCallback, CallbackId, TruthInv, TypeOK
  <1>4. CASE Forget(h)
    BY <1>1, <1>2, <1>3, <1>4, ForgetStep DEF TruthInv, TypeOK
  <1>5. CASE hpc' = [hpc EXCEPT ![h] = "write"] /\ UNCHANGED <<kind, sid, fetched, handled, seen>>
    <2>1. TypeOK'
      BY <1>1, <1>3, <1>5 DEF TruthInv, TypeOK
    <2>2. HandlersTrue'
      BY <1>1, <1>5 DEF TruthInv, HandlersTrue, TypeOK, LogCallback
    <2> QED
      BY <1>2, <2>1, <2>2 DEF TruthInv
  <1> QED
    BY <1>4, <1>5 DEF LogCallback

\* The UPDATE of the notification.
LEMMA WriteStatusStep == ASSUME TruthInv, NEW h \in Handlers, WriteStatus(h) PROVE TruthInv'
  <1> DEFINE n == handled[h]
             row == [rows[n] EXCEPT !.status = Mapped(fetched[h])]
  <1>1. UNCHANGED <<gate, phone, callbackIds, recentTest, sms, pc, snap, todo,
                    switches, moves, faults, quiet>> /\ Forget(h)
    BY DEF WriteStatus, request, bounds
  <1>2. /\ n \in Notifications /\ sid[h] \in DOMAIN sms /\ sms[sid[h]].for = n
        /\ Mapped(fetched[h]) \in Decided => sms[sid[h]].status = fetched[h]
    BY DEF TruthInv, HandlersTrue, WriteStatus
  <1>3. rows[n] \in Row /\ fetched[h] \in ProviderStatus
    BY <1>2 DEF TruthInv, TypeOK
  <1>4. row \in Row /\ row.sid = rows[n].sid /\ row.status = Mapped(fetched[h])
    BY <1>3, MappedType DEF Row
  <1>5. rows' = rows \/ rows' = [rows EXCEPT ![n] = row]
    BY DEF WriteStatus
  <1>6. True(n, row)
    BY <1>2, <1>4 DEF TruthInv, RowsTrue, True, Named, Backed
  <1> HIDE DEF n, row
  <1>70. rows \in [Notifications -> Row]
    BY DEF TruthInv, TypeOK
  <1>71. rows' \in [Notifications -> Row] /\ \A m \in Notifications : rows'[m] = rows[m] \/ (m = n /\ rows'[m] = row)
    BY <1>2, <1>4, <1>5, <1>70
  <1>72. \A m \in Notifications : True(m, rows'[m])
    BY <1>6, <1>71 DEF TruthInv, RowsTrue
  <1>7. rows' \in [Notifications -> Row] /\ RowsTrue'
    BY <1>1, <1>71, <1>72 DEF RowsTrue, True, Named, Backed
  <1>8. SnapshotsTrue'
    BY <1>1 DEF TruthInv, SnapshotsTrue, True, Named, Backed
  <1> QED
    BY <1>1, <1>7, <1>8, ForgetStep DEF TruthInv, TypeOK

-----------------------------------------------------------------------------
\* What a test notification's row is before it is inserted

Testing == {"testSend", "testInsert"}

\* The notification of a test that is under way has no row, and no other test has it.
TestInv ==
  /\ \A n \in Tests, r \in Requests : pc[r] \in Testing /\ n \in todo[r] =>
       /\ rows[n].sid = 0
       /\ \A q \in Requests : q # r /\ pc[q] \in Testing => n \notin todo[q]

\* persistState has no row of a test to write.
LEMMA PersistSkipsTests ==
  ASSUME NEW state, Persist(state), NEW t \in Tests PROVE rows'[t] = rows[t]
  BY DEF Persist, Upserted, Notifications

\* A request that is not testing afterwards leaves the tests of the others alone.
LEMMA NotTesting ==
  ASSUME TypeOK, TestInv, NEW r \in Requests, NEW label, label \notin Testing,
         Goto(r, label) \/ (UNCHANGED pc /\ pc[r] \notin Testing),
         \A q \in Requests : q # r => todo'[q] = todo[q],
         \A n \in Tests : rows'[n].sid = rows[n].sid
  PROVE  TestInv'
  <1>1. \A q \in Requests : q # r => pc'[q] = pc[q] /\ todo'[q] = todo[q]
    BY DEF Goto, TypeOK
  <1>2. pc'[r] \notin Testing
    BY DEF Goto, TypeOK
  <1> QED
    BY <1>1, <1>2 DEF TestInv

\* Every step keeps TestInv.
LEMMA TestStep == ASSUME TypeOK, TestInv, [Next]_vars PROVE TestInv'
  <1>1. ASSUME NEW r \in Requests, Load(r) PROVE TestInv'
    BY <1>1, NotTesting DEF Load, tables, Testing
  <1>2. ASSUME NEW r \in Requests, Plan(r) PROVE TestInv'
    <2>1. \A t \in Tests : rows'[t] = rows[t]
      BY <1>2, PersistSkipsTests DEF Plan
    <2>2. \A q \in Requests : q # r => todo'[q] = todo[q]
      BY <1>2 DEF Plan, TypeOK
    <2>3. Goto(r, "dispatch")
      BY <1>2 DEF Plan
    <2> QED
      BY <2>1, <2>2, <2>3, NotTesting DEF Testing
  <1>3. ASSUME NEW r \in Requests, TakeIn(r) \/ ChangeGate(r) \/ ChangePhone(r) \/ PersistDispatch(r)
        PROVE  TestInv'
    <2>1. \A t \in Tests : rows'[t] = rows[t]
      BY <1>3, PersistSkipsTests DEF TakeIn, ChangeGate, ChangePhone, PersistDispatch
    <2>2. Leave(r)
      BY <1>3 DEF TakeIn, ChangeGate, ChangePhone, PersistDispatch
    <2>3. \A q \in Requests : q # r => todo'[q] = todo[q]
      BY <2>2 DEF Leave, TypeOK
    <2> QED
      BY <2>1, <2>2, <2>3, NotTesting DEF Leave, Testing
  <1>4. ASSUME NEW r \in Requests, LimitTest(r) \/ RequestDies(r) PROVE TestInv'
    <2>1. UNCHANGED rows /\ Leave(r)
      BY <1>4 DEF LimitTest, RequestDies, tables
    <2>2. \A q \in Requests : q # r => todo'[q] = todo[q]
      BY <2>1 DEF Leave, TypeOK
    <2> QED
      BY <2>1, <2>2, NotTesting DEF Leave, Testing
  <1>5. ASSUME NEW r \in Requests, NEW n \in Alerts, Suppress(r, n) \/ Send(r, n) PROVE TestInv'
    <2>1. UNCHANGED rows /\ UNCHANGED pc /\ pc[r] \notin Testing
      BY <1>5 DEF Suppress, Send, tables, Testing
    <2>2. \A q \in Requests : q # r => todo'[q] = todo[q]
      BY <1>5 DEF Suppress, Send, TypeOK
    <2> QED
      BY <2>1, <2>2, NotTesting DEF Testing
  <1>6. ASSUME NEW r \in Requests, NEW t \in Tests, StartTest(r, t) PROVE TestInv'
    <2>1. /\ UNCHANGED rows /\ rows[t].sid = 0
          /\ \A q \in Requests : t \notin todo[q]
          /\ todo' = [todo EXCEPT ![r] = {t}]
          /\ pc' = [pc EXCEPT ![r] = "testSend"]
      BY <1>6 DEF StartTest, FreeTest, NoRow, tables, Goto
    <2>2. todo'[r] = {t} /\ \A q \in Requests : q # r => todo'[q] = todo[q] /\ pc'[q] = pc[q]
      BY <2>1 DEF TypeOK
    <2> QED
      BY <2>1, <2>2 DEF TestInv
  <1>7. ASSUME NEW r \in Requests, NEW t \in Tests, SendTest(r, t) PROVE TestInv'
    <2>1. UNCHANGED rows /\ UNCHANGED todo /\ pc[r] \in Testing /\ Goto(r, "testInsert")
      BY <1>7 DEF SendTest, tables, Testing
    <2>2. \A q \in Requests : pc'[q] \in Testing => pc[q] \in Testing
      BY <2>1 DEF Goto, TypeOK, Testing
    <2> QED
      BY <2>1, <2>2 DEF TestInv
  <1>8. ASSUME NEW r \in Requests, NEW t \in Tests, InsertTest(r, t) PROVE TestInv'
    <2>1. /\ rows' = [rows EXCEPT ![t] = snap[r].rows[t]] /\ UNCHANGED todo
          /\ pc[r] \in Testing /\ t \in todo[r] /\ pc' = [pc EXCEPT ![r] = "testLimit"]
      BY <1>8 DEF InsertTest, Goto, Testing
    <2>2. pc'[r] \notin Testing /\ \A q \in Requests : q # r => pc'[q] = pc[q]
      BY <2>1 DEF TypeOK, Testing
    <2>3. \A n \in Tests : n # t => rows'[n] = rows[n]
      BY <2>1 DEF TypeOK, Notifications
    <2>4. \A q \in Requests : q # r /\ pc[q] \in Testing => t \notin todo[q]
      BY <2>1 DEF TestInv
    <2> QED
      BY <2>1, <2>2, <2>3, <2>4 DEF TestInv
  <1>9. ASSUME NEW h \in Handlers, WriteStatus(h) PROVE TestInv'
    <2>1. UNCHANGED pc /\ UNCHANGED todo
      BY <1>9 DEF WriteStatus, request
    <2>2. rows' = rows \/ rows' = [rows EXCEPT ![handled[h]] = [rows[handled[h]] EXCEPT !.status = Mapped(fetched[h])]]
      BY <1>9 DEF WriteStatus
    <2>3. \A n \in Notifications : rows[n] \in Row
      BY DEF TypeOK
    <2>4. \A n \in Notifications : rows'[n].sid = rows[n].sid
      <3> DEFINE row == [rows[handled[h]] EXCEPT !.status = Mapped(fetched[h])]
      <3>1. rows[handled[h]] \in Row => row.sid = rows[handled[h]].sid
        BY DEF Row
      <3>2. rows' = rows \/ rows' = [rows EXCEPT ![handled[h]] = row]
        BY <2>2
      <3> HIDE DEF row
      <3> QED
        BY <2>3, <3>1, <3>2 DEF TypeOK
    <2> QED
      BY <2>1, <2>4 DEF TestInv, Notifications
  <1>10. ASSUME UNCHANGED <<rows, pc, todo>> PROVE TestInv'
    BY <1>10 DEF TestInv
  <1>11. ASSUME NEW h \in Handlers,
                \/ \E k \in 1..MaxSms : Webhook(h, k)
                \/ \E n \in Notifications : Reconcile(h, n) \/ ReconcileByHand(h, n)
                \/ Look(h) \/ LogCallback(h) \/ HandlerDies(h)
         PROVE  TestInv'
    BY <1>10, <1>11 DEF Webhook, Reconcile, ReconcileByHand, Look, LogCallback, HandlerDies,
       tables, request
  <1>12. ASSUME FiveMinutesPass \/ (\E k \in 1..MaxSms : Progress(k)) \/ UNCHANGED vars PROVE TestInv'
    BY <1>10, <1>12 DEF FiveMinutesPass, Progress, vars, tables, request
  <1> QED
    BY <1>1, <1>2, <1>3, <1>4, <1>5, <1>6, <1>7, <1>8, <1>9, <1>11, <1>12 DEF Next, Work, Handle

-----------------------------------------------------------------------------
\* The inductive invariant is one

SmsInv == TruthInv /\ TestInv

\* Requests take the steps above.
LEMMA RequestSteps ==
  ASSUME SmsInv, NEW r \in Requests, Load(r) \/ Work(r) \/ RequestDies(r) PROVE RequestStep
  <1>1. TypeOK
    BY DEF SmsInv, TruthInv
  <1>2. CASE Load(r) \/ Plan(r) \/ TakeIn(r) \/ ChangeGate(r) \/ ChangePhone(r) \/ PersistDispatch(r)
    BY <1>1, <1>2, LoadStep, PlanStep, TakeInStep, ChangeGateStep, ChangePhoneStep, PersistDispatchStep
  <1>3. CASE LimitTest(r)
    <2>1. quiet' \in BOOLEAN /\ recentTest' \in BOOLEAN /\ switches' \in Nat /\ moves' \in Nat /\ faults' \in Nat
      BY <1>1, <1>3 DEF LimitTest, TypeOK, Watch, Quiet, bounds
    <2> QED
      BY <1>1, <1>3, <2>1, EndStep DEF LimitTest
  <1>4. CASE RequestDies(r)
    <2>1. quiet' \in BOOLEAN /\ recentTest' \in BOOLEAN /\ switches' \in Nat /\ moves' \in Nat /\ faults' \in Nat
      BY <1>1, <1>4 DEF RequestDies, TypeOK, Watch, Quiet, tables
    <2> QED
      BY <1>1, <1>4, <2>1, EndStep DEF RequestDies, tables
  <1>5. CASE \E n \in Alerts : Suppress(r, n) \/ Send(r, n)
    BY <1>1, <1>5, SuppressStep, SendStep
  <1>6. CASE \E t \in Tests : StartTest(r, t) \/ SendTest(r, t)
    BY <1>1, <1>6, StartTestStep, SendTestStep
  <1>7. CASE \E t \in Tests : InsertTest(r, t)
    <2>1. PICK t \in Tests : InsertTest(r, t)
      BY <1>7
    <2>2. rows[t].sid = 0
      BY <2>1 DEF SmsInv, TestInv, InsertTest, Testing
    <2> QED
      BY <1>1, <2>1, <2>2, InsertTestStep
  <1> QED
    BY <1>2, <1>3, <1>4, <1>5, <1>6, <1>7 DEF Work

\* The provider's steps, the clock's, and the end of a handler.
LEMMA OtherSteps ==
  ASSUME TruthInv,
         \/ \E k \in 1..MaxSms : Progress(k)
         \/ FiveMinutesPass
         \/ \E h \in Handlers : HandlerDies(h)
         \/ UNCHANGED vars
  PROVE  TruthInv'
  <1>1. TypeOK
    BY DEF TruthInv
  <1>2. ASSUME NEW k \in 1..MaxSms, Progress(k) PROVE TruthInv'
    <2>1. sms' \in Seq(Sms) /\ LogGrows
      BY <1>1, <1>2, ProgressType
    <2>2. UNCHANGED <<rows, gate, phone, callbackIds, recentTest, pc, snap, todo, hpc, kind, sid, fetched,
                      handled, seen, switches, moves, faults, quiet>> /\ UNCHANGED handler
      BY <1>2 DEF Progress, tables, request, handler, bounds
    <2>3. TypeOK'
      BY <1>1, <2>1, <2>2 DEF TypeOK
    <2>4. RequestStep
      BY <2>1, <2>2, <2>3 DEF RequestStep, From
    <2> QED
      BY <2>4, RequestTruth
  <1>3. CASE FiveMinutesPass
    <2>1. UNCHANGED <<rows, gate, phone, callbackIds, sms, pc, snap, todo, hpc, kind, sid, fetched,
                      handled, seen, switches, moves, faults, quiet>> /\ UNCHANGED handler
          /\ recentTest' = FALSE
      BY <1>3 DEF FiveMinutesPass, request, handler, bounds
    <2>2. TypeOK'
      BY <1>1, <2>1 DEF TypeOK
    <2>3. RequestStep
      BY <1>1, <2>1, <2>2, UnchangedLog DEF RequestStep, From
    <2> QED
      BY <2>3, RequestTruth
  <1>4. ASSUME NEW h \in Handlers, HandlerDies(h) PROVE TruthInv'
    <2>1. Forget(h) /\ UNCHANGED <<rows, gate, phone, callbackIds, recentTest, sms, pc, snap, todo,
                                   switches, moves, quiet>> /\ faults' \in Nat
      BY <1>1, <1>4 DEF HandlerDies, tables, request, TypeOK
    <2>2. RowsTrue' /\ SnapshotsTrue'
      BY <2>1, SameTruth
    <2> QED
      BY <1>1, <2>1, <2>2, ForgetStep DEF TypeOK
  <1>5. CASE UNCHANGED vars
    <2>1. TypeOK' /\ UNCHANGED <<rows, sms, snap, hpc, sid, fetched, handled>>
      BY <1>1, <1>5 DEF TypeOK, vars, tables, request, handler, bounds
    <2>2. HandlersTrue'
      BY <2>1 DEF TruthInv, HandlersTrue
    <2> QED
      BY <2>1, <2>2, SameTruth DEF TruthInv
  <1> QED
    BY <1>2, <1>3, <1>4, <1>5

\* Every step keeps the invariant.
LEMMA SmsStep == ASSUME SmsInv, [Next]_vars PROVE SmsInv'
  <1>1. TruthInv /\ TypeOK /\ TestInv
    BY DEF SmsInv, TruthInv
  <1>2. TestInv'
    BY <1>1, TestStep
  <1>3. ASSUME NEW r \in Requests, Load(r) \/ Work(r) \/ RequestDies(r) PROVE TruthInv'
    BY <1>1, <1>3, RequestSteps, RequestTruth
  <1>4. ASSUME NEW h \in Handlers,
               \/ \E k \in 1..MaxSms : Webhook(h, k)
               \/ \E n \in Notifications : Reconcile(h, n) \/ ReconcileByHand(h, n)
               \/ Handle(h)
        PROVE  TruthInv'
    BY <1>1, <1>4, ListenStep, LookStep, LogCallbackStep, WriteStatusStep DEF Handle
  <1>5. ASSUME \/ \E k \in 1..MaxSms : Progress(k)
               \/ FiveMinutesPass
               \/ \E h \in Handlers : HandlerDies(h)
               \/ UNCHANGED vars
        PROVE  TruthInv'
    BY <1>1, <1>5, OtherSteps
  <1>6. TruthInv'
    BY <1>3, <1>4, <1>5 DEF Next
  <1> QED
    BY <1>2, <1>6 DEF SmsInv

\* The invariant holds at first.
LEMMA SmsInit == Init => SmsInv
  <1> SUFFICES ASSUME Init PROVE SmsInv
    OBVIOUS
  <1>1. NoRow \in Row /\ NoRow.sid = 0 /\ NoRow.status \notin Decided
    BY DEF NoRow, Row, Status, Decided
  <1>2. NoSnapshot \in Snapshot /\ \A n \in Notifications : NoSnapshot.rows[n] = NoRow
    BY <1>1 DEF NoSnapshot, Snapshot
  <1>3. TypeOK
    <2>1. quiet \in BOOLEAN /\ gate \in BOOLEAN
      BY DEF Init
    <2>2. rows \in [Notifications -> Row] /\ snap \in [Requests -> Snapshot]
      BY <1>1, <1>2 DEF Init
    <2>3. todo \in [Requests -> SUBSET Notifications] /\ sms \in Seq(Sms)
      BY DEF Init
    <2>4. /\ phone \in Nat /\ switches \in Nat /\ moves \in Nat /\ faults \in Nat
          /\ callbackIds \subseteq Nat \X ProviderStatus /\ recentTest \in BOOLEAN
      BY DEF Init
    <2>5. /\ pc \in [Requests -> {"idle", "loaded", "dispatch", "testSend", "testInsert", "testLimit"}]
          /\ hpc \in [Handlers -> {"idle", "look", "log", "write"}]
          /\ kind \in [Handlers -> Kinds]
          /\ sid \in [Handlers -> Nat]
          /\ fetched \in [Handlers -> ProviderStatus]
          /\ handled \in [Handlers -> Notifications \cup {NoHandled}]
          /\ seen \in [Handlers -> Status]
      BY DEF Init, Kinds, ProviderStatus, Status
    <2> QED
      BY <2>1, <2>2, <2>3, <2>4, <2>5 DEF TypeOK
  <1>4. \A n \in Notifications : rows[n] = NoRow
    BY DEF Init
  <1>5. RowsTrue /\ SnapshotsTrue
    BY <1>1, <1>2, <1>4 DEF Init, RowsTrue, SnapshotsTrue, True, Named, Backed
  <1>6. HandlersTrue /\ TestInv
    BY DEF Init, HandlersTrue, TestInv, Testing
  <1> QED
    BY <1>3, <1>5, <1>6 DEF SmsInv, TruthInv

\* The invariant holds always.
THEOREM SmsInvariant == Spec => []SmsInv
  BY SmsInit, SmsStep, PTL DEF Spec

-----------------------------------------------------------------------------
\* The theorems

\* Tables, snapshots, the provider's log and all locals keep their types: every
\* id a handler asks the provider about is the id of a message (TypeOK).
THEOREM SmsTypeCorrect == Spec => []TypeOK
  <1>1. SmsInv => TypeOK
    BY DEF SmsInv, TruthInv
  <1> QED
    BY <1>1, SmsInvariant, PTL

\* However webhooks, reconciliations, dispatches and stale snapshots interleave,
\* DELIVERED and UNDELIVERED are only ever said of a notification one of whose
\* messages was (FinalStatusIsTrue).
THEOREM FinalStatusTrue == Spec => []FinalStatusIsTrue
  <1>1. SmsInv => FinalStatusIsTrue
    BY DEF SmsInv, TruthInv, RowsTrue, True, Backed, FinalStatusIsTrue, Decided
  <1> QED
    BY <1>1, SmsInvariant, PTL

\* A recorded provider id is never lost and is the id of a message of its
\* notification, whatever snapshot is written over it (SentIsRemembered).
THEOREM SentRemembered == Spec => SentIsRemembered
  <1> DEFINE Kept == \A n \in Notifications : rows[n].sid # 0 =>
       rows'[n].sid # 0 /\ rows'[n].sid \in DOMAIN sms' /\ sms'[rows'[n].sid].for = n
  <1>1. ASSUME SmsInv, SmsInv', [Next]_vars PROVE Kept
    <2>1. ASSUME NEW n \in Notifications, rows[n].sid # 0 PROVE rows'[n].sid # 0
      <3>1. ASSUME NEW r \in Requests, Load(r) \/ Work(r) \/ RequestDies(r) PROVE rows'[n].sid # 0
        BY <1>1, <2>1, <3>1, RequestSteps DEF RequestStep
      <3>2. ASSUME NEW h \in Handlers, WriteStatus(h) PROVE rows'[n].sid # 0
        <4>1. rows' = rows \/ rows' = [rows EXCEPT ![handled[h]] = [rows[handled[h]] EXCEPT !.status = Mapped(fetched[h])]]
          BY <3>2 DEF WriteStatus
        <4>2. rows \in [Notifications -> Row] /\ \A m \in Notifications : rows[m] \in Row
          BY <1>1 DEF SmsInv, TruthInv, TypeOK
        <4> QED
          BY <2>1, <4>1, <4>2 DEF Row
      <3>3. ASSUME UNCHANGED rows PROVE rows'[n].sid # 0
        BY <2>1, <3>3
      <3>4. ASSUME NEW h \in Handlers,
                   \/ \E k \in 1..MaxSms : Webhook(h, k)
                   \/ \E m \in Notifications : Reconcile(h, m) \/ ReconcileByHand(h, m)
                   \/ Look(h) \/ LogCallback(h) \/ HandlerDies(h)
            PROVE  UNCHANGED rows
        BY <3>4 DEF Webhook, Reconcile, ReconcileByHand, Look, LogCallback, HandlerDies, tables
      <3>5. ASSUME FiveMinutesPass \/ (\E k \in 1..MaxSms : Progress(k)) \/ UNCHANGED vars
            PROVE  UNCHANGED rows
        BY <3>5 DEF FiveMinutesPass, Progress, vars, tables
      <3> QED
        BY <1>1, <3>1, <3>2, <3>3, <3>4, <3>5 DEF Next, Handle
    <2>2. \A n \in Notifications : True(n, rows[n])'
      BY <1>1 DEF SmsInv, TruthInv, RowsTrue
    <2> QED
      BY <2>1, <2>2 DEF True, Named
  <1>2. SmsInv /\ SmsInv' /\ [Next]_vars => [Kept]_vars
    BY <1>1
  <1> QED
    BY <1>2, SmsInvariant, PTL DEF Spec, SentIsRemembered

-----------------------------------------------------------------------------
\* The switch

\* Requests other than a change of the switch take gates from the table or from
\* their own snapshot.
GateStep ==
  /\ gate' \in {gate} \cup {snap[r].gate : r \in Requests}
  /\ \A r \in Requests : snap'[r].gate \in {FALSE, gate, snap[r].gate}

\* Once quiet, a step that keeps to these gates stays quiet.
LEMMA GateQuiet == ASSUME TypeOK, Quiet, GateStep PROVE Quiet' /\ ~gate'
  <1>1. gate = FALSE /\ \A r \in Requests : snap[r].gate = FALSE
    <2>1. gate \in BOOLEAN /\ \A r \in Requests : snap[r].gate \in BOOLEAN
      BY DEF TypeOK, Snapshot
    <2> QED
      BY <2>1 DEF Quiet
  <1>2. gate' = FALSE
    BY <1>1 DEF GateStep
  <1>3. \A r \in Requests : snap'[r].gate = FALSE
    BY <1>1 DEF GateStep
  <1> QED
    BY <1>2, <1>3 DEF Quiet

\* A request without a snapshot does not see the switch on.
LEMMA NoSnapshotOff == NoSnapshot.gate = FALSE
  BY DEF NoSnapshot

\* Every step keeps QuietInv, and a quiet step sends nothing and turns nothing on.
LEMMA QuietStep ==
  ASSUME SmsInv, SmsInv', quiet => Quiet, [Next]_vars
  PROVE  /\ (quiet => Quiet)'
         /\ quiet => Len(sms') = Len(sms) /\ (gate' => ~quiet')
  <1>1. TypeOK /\ TypeOK'
    BY DEF SmsInv, TruthInv
  <1>2. ASSUME Watch, UNCHANGED sms, quiet => GateStep
        PROVE  /\ (quiet => Quiet)'
               /\ quiet => Len(sms') = Len(sms) /\ (gate' => ~quiet')
    <2>1. CASE quiet
      BY <1>1, <1>2, <2>1, GateQuiet DEF Watch
    <2>2. CASE ~quiet
      BY <1>2, <2>2 DEF Watch
    <2> QED
      BY <2>1, <2>2
  <1>3. ASSUME NEW r \in Requests, Load(r) PROVE Watch /\ UNCHANGED sms /\ GateStep
    BY <1>1, <1>3 DEF Load, tables, GateStep, TypeOK
  <1>4. ASSUME NEW r \in Requests, Plan(r) PROVE Watch /\ UNCHANGED sms /\ GateStep
    <2>1. PICK state \in Changed(r) : Persist(state) /\ snap' = [snap EXCEPT ![r] = state]
      BY <1>4 DEF Plan
    <2>2. state.gate = snap[r].gate
      BY <1>1, <2>1, ChangedType
    <2>3. gate' = snap[r].gate /\ \A q \in Requests : snap'[q].gate = snap[q].gate
      BY <1>1, <2>1, <2>2 DEF Persist, TypeOK
    <2> QED
      BY <1>4, <2>3 DEF Plan, GateStep
  <1>5. ASSUME NEW r \in Requests, NEW state, state.gate = snap[r].gate, Persist(state), Leave(r)
        PROVE  GateStep
    <2>1. \A q \in Requests : snap'[q].gate \in {FALSE, snap[q].gate}
      BY <1>1, <1>5, LeaveType, NoSnapshotOff
    <2> QED
      BY <1>5, <2>1 DEF GateStep, Persist
  <1>6. ASSUME NEW r \in Requests, ChangePhone(r) PROVE Watch /\ UNCHANGED sms /\ GateStep
    <2> DEFINE state == [snap[r] EXCEPT !.phone = @ + 1]
    <2>1. state.gate = snap[r].gate
      BY <1>1 DEF TypeOK, Snapshot
    <2>2. Persist(state) /\ Leave(r) /\ Watch /\ UNCHANGED sms
      BY <1>6 DEF ChangePhone
    <2> HIDE DEF state
    <2> QED
      BY <1>5, <2>1, <2>2
  <1>7. ASSUME NEW r \in Requests, TakeIn(r) \/ PersistDispatch(r)
        PROVE  Watch /\ UNCHANGED sms /\ GateStep
    <2>1. CASE TakeIn(r)
      <3>1. PICK state \in Changed(r) : Persist(state)
        BY <2>1 DEF TakeIn
      <3>2. state.gate = snap[r].gate
        BY <1>1, <3>1, ChangedType
      <3> QED
        BY <1>5, <2>1, <3>1, <3>2 DEF TakeIn
    <2> QED
      BY <1>5, <1>7, <2>1 DEF PersistDispatch
  <1>8. ASSUME NEW r \in Requests, LimitTest(r) \/ RequestDies(r) PROVE Watch /\ UNCHANGED sms /\ GateStep
    <2>1. Watch /\ UNCHANGED sms /\ UNCHANGED gate /\ Leave(r)
      BY <1>8 DEF LimitTest, RequestDies, tables
    <2>2. \A q \in Requests : snap'[q].gate \in {FALSE, snap[q].gate}
      BY <1>1, <2>1, LeaveType, NoSnapshotOff
    <2> QED
      BY <2>1, <2>2 DEF GateStep
  <1>9. ASSUME NEW r \in Requests, NEW t \in Tests, StartTest(r, t) \/ InsertTest(r, t)
        PROVE  Watch /\ UNCHANGED sms /\ GateStep
    BY <1>9 DEF StartTest, InsertTest, tables, GateStep
  <1>10. ASSUME NEW r \in Requests, NEW n \in Alerts, Suppress(r, n)
         PROVE  Watch /\ UNCHANGED sms /\ GateStep
    <2> DEFINE row == [status |-> "SUPPRESSED", sid |-> snap[r].rows[n].sid]
    <2>1. n \in Notifications /\ snap[r].rows[n] \in Row
      BY <1>1 DEF TypeOK, Snapshot, Notifications
    <2>2. row \in Row
      BY <2>1 DEF Row, Status
    <2>3. Answered(r, n, row) /\ Watch /\ UNCHANGED sms /\ UNCHANGED gate
      BY <1>10 DEF Suppress, tables
    <2> HIDE DEF row
    <2>4. \A q \in Requests : snap'[q].gate = snap[q].gate
      BY <1>1, <2>1, <2>2, <2>3, AnsweredType
    <2> QED
      BY <2>3, <2>4 DEF GateStep
  <1>11. ASSUME NEW r \in Requests, NEW t \in Tests, SendTest(r, t), ~snap[r].gate
         PROVE  Watch /\ UNCHANGED sms /\ GateStep
    <2> DEFINE row == [status |-> "SUPPRESSED", sid |-> 0]
    <2>1. t \in Notifications /\ row \in Row
      BY DEF Notifications, Row, Status
    <2>2. Answered(r, t, row) /\ Watch /\ UNCHANGED sms /\ UNCHANGED gate
      BY <1>11 DEF SendTest, tables
    <2> HIDE DEF row
    <2>3. \A q \in Requests : snap'[q].gate = snap[q].gate
      BY <1>1, <2>1, <2>2, AnsweredType
    <2> QED
      BY <2>2, <2>3 DEF GateStep
  <1>12. ASSUME NEW r \in Requests, snap[r].gate, Watch PROVE ~quiet /\ (quiet' => Quiet')
    BY <1>12 DEF Quiet, Watch
  <1>13. ASSUME NEW r \in Requests, \E n \in Alerts : Send(r, n) PROVE snap[r].gate /\ Watch
    BY <1>13 DEF Send, Allowed
  <1>14. ASSUME NEW r \in Requests, \E t \in Tests : SendTest(r, t) PROVE Watch
    BY <1>14 DEF SendTest
  <1>15. ASSUME NEW r \in Requests, ChangeGate(r)
         PROVE  /\ (quiet => Quiet)'
                /\ quiet => Len(sms') = Len(sms) /\ (gate' => ~quiet')
    <2>1. quiet' = IF snap[r].gate THEN quiet \/ Quiet' ELSE FALSE
      BY <1>15 DEF ChangeGate
    <2>2. UNCHANGED sms
      BY <1>15 DEF ChangeGate
    <2>3. CASE snap[r].gate
      <3>1. ~quiet /\ (quiet' <=> Quiet')
        BY <1>1, <2>1, <2>3 DEF Quiet
      <3> QED
        BY <3>1
    <2>4. CASE ~snap[r].gate
      <3>1. quiet' = FALSE
        BY <2>1, <2>4
      <3> QED
        BY <2>2, <3>1
    <2> QED
      BY <2>3, <2>4
  <1>16. ASSUME UNCHANGED <<quiet, gate, snap>>, Len(sms') = Len(sms)
         PROVE  /\ (quiet => Quiet)'
                /\ quiet => Len(sms') = Len(sms) /\ (gate' => ~quiet')
    BY <1>16 DEF Quiet
  <1>17. ASSUME NEW h \in Handlers,
                \/ \E k \in 1..MaxSms : Webhook(h, k)
                \/ \E n \in Notifications : Reconcile(h, n) \/ ReconcileByHand(h, n)
                \/ Look(h) \/ LogCallback(h) \/ WriteStatus(h) \/ HandlerDies(h)
         PROVE  UNCHANGED <<quiet, gate, snap>> /\ Len(sms') = Len(sms)
    BY <1>17 DEF Webhook, Reconcile, ReconcileByHand, Look, LogCallback, WriteStatus, HandlerDies,
       tables, request
  <1>18. ASSUME FiveMinutesPass \/ UNCHANGED vars
         PROVE  UNCHANGED <<quiet, gate, snap>> /\ Len(sms') = Len(sms)
    BY <1>18 DEF FiveMinutesPass, vars, tables, request
  <1>19. ASSUME NEW k \in 1..MaxSms, Progress(k)
         PROVE  UNCHANGED <<quiet, gate, snap>> /\ Len(sms') = Len(sms)
    BY <1>1, <1>19, ProgressType DEF Progress, tables, request
  <1>20. ASSUME NEW r \in Requests, Load(r) \/ Work(r) \/ RequestDies(r)
         PROVE  /\ (quiet => Quiet)'
                /\ quiet => Len(sms') = Len(sms) /\ (gate' => ~quiet')
    <2>1. CASE \/ Load(r) \/ Plan(r) \/ TakeIn(r) \/ ChangePhone(r) \/ PersistDispatch(r)
               \/ LimitTest(r) \/ RequestDies(r)
               \/ \E t \in Tests : StartTest(r, t) \/ InsertTest(r, t)
               \/ \E n \in Alerts : Suppress(r, n)
      BY <1>2, <1>3, <1>4, <1>6, <1>7, <1>8, <1>9, <1>10, <2>1
    <2>2. CASE ChangeGate(r)
      BY <1>15, <2>2
    <2>3. CASE \E n \in Alerts : Send(r, n)
      BY <1>12, <1>13, <2>3
    <2>4. CASE \E t \in Tests : SendTest(r, t)
      <3>1. CASE snap[r].gate
        BY <1>12, <1>14, <2>4, <3>1
      <3>2. CASE ~snap[r].gate
        BY <1>2, <1>11, <2>4, <3>2
      <3> QED
        BY <3>1, <3>2
    <2> QED
      BY <1>20, <2>1, <2>2, <2>3, <2>4 DEF Work
  <1> QED
    BY <1>16, <1>17, <1>18, <1>19, <1>20 DEF Next, Handle

\* Once the switch is off and no request is left that saw it on, nothing is sent
\* and no stale snapshot turns it on again (KillSwitchHolds).
THEOREM SwitchHolds == Spec => KillSwitchHolds
  <1> DEFINE Silent == quiet => Len(sms') = Len(sms) /\ (gate' => ~quiet')
             I == SmsInv /\ (quiet => Quiet)
  <1>1. Init => I
    <2> SUFFICES ASSUME Init, quiet PROVE Quiet
      BY SmsInit
    <2>1. ~gate
      BY DEF Init
    <2>2. \A r \in Requests : ~snap[r].gate
      BY NoSnapshotOff DEF Init
    <2> QED
      BY <2>1, <2>2 DEF Quiet
  <1>2. I /\ [Next]_vars => I' /\ Silent
    <2> SUFFICES ASSUME I, [Next]_vars PROVE I' /\ Silent
      OBVIOUS
    <2>1. SmsInv'
      BY SmsStep
    <2> QED
      BY <2>1, QuietStep
  <1>3. I /\ [Next]_vars => [Silent]_vars
    BY <1>2
  <1> QED
    BY <1>1, <1>2, <1>3, PTL DEF Spec, KillSwitchHolds
=============================================================================
