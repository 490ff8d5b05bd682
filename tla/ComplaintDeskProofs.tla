------------------------ MODULE ComplaintDeskProofs ------------------------
(***************************************************************************)
(* Theorems about ComplaintDesk, for any number of complaints, requests    *)
(* and faults.                                                             *)
(*                                                                         *)
(* A process is between what it saw and what it will write: Follows says   *)
(* how the two rows and the fresh events of a complaint belong together.   *)
(* Complaints are numbered without gaps, so that the place of a row's      *)
(* events among the statements is right after the row (PrefixInv); what is *)
(* behind a process is stored (StoredInv).  The rest is about who else     *)
(* wrote the row meanwhile: a flag that is set stays unless the complaint  *)
(* is in lost, hence of two processes that flag the same lateness the      *)
(* second to write the row loses the first one's change (FlagInv).         *)
(***************************************************************************)
EXTENDS ComplaintDesk, FiniteSetTheorems, TLAPS

\* How a process leaves a row, what it saw of it, and the events it has for it.
Follows(before, after, events) ==
  /\ \/ before = NoRow
     \/ after.status = before.status
     \/ \E action \in Actions : before.status = From[action] /\ after.status = To[action]
  /\ before # NoRow => after # NoRow
  /\ before.marks \cap Late \subseteq after.marks
  /\ after.marks \subseteq before.marks \cup events
  /\ events \subseteq after.marks
  /\ events \cap before.marks \cap Late = {}

\* A process at escalate has nothing left to write; the flags it set are logged.
LocalInv ==
  \A p \in Processes :
    /\ pc[p] = "idle" => seen[p] = Empty /\ next[p] = Empty
    /\ pc[p] \in {"idle", "escalate"} => fresh[p] = NoEvents /\ done[p] = 0
    /\ pc[p] # "escalate" =>
         \A c \in Complaints : Follows(seen[p][c], next[p][c], fresh[p][c])
    /\ pc[p] = "escalate" =>
         \A c \in Complaints : (next[p][c].marks \ seen[p][c].marks) \cap Late \subseteq log[c]

\* Agrees, and what makes it survive an acknowledgment: none is submitted before.
Sound(row) == Agrees(row) /\ ("submitted" \in row.marks => "acked" \in row.marks)

AgreeInv ==
  /\ \A c \in Complaints : Sound(rows[c])
  /\ \A p \in Processes : \A c \in Complaints : Sound(next[p][c])

Made(table) == {c \in Complaints : table[c] # NoRow}

\* Complaints are numbered without gaps; a process adds one at most.
PrefixInv ==
  \E n \in Nat :
    /\ Made(rows) = 1..n
    /\ \A p \in Processes : \E m \in Nat : Made(next[p]) = 1..m /\ m <= n + 1

\* The row of a complaint, or its events too, were among the statements that a
\* process is past.
Wrote(p, c) == c \in Made(next[p]) /\ RowAt(p, c) <= done[p]
Evented(p, c) == c \in Made(next[p]) /\ EventsAt(p, c) <= done[p]

StoredInv ==
  \A p \in Processes : \A c \in Complaints : Evented(p, c) => fresh[p][c] \subseteq log[c]

-----------------------------------------------------------------------------
\* A row that is there is not NoRow.
LEMMA RowIsNotNoRow ==
  ASSUME NEW row \in Row
  PROVE  row # NoRow
BY DEF Row, NoRow, Status

\* The row createComplaint makes.
LEMMA CreatedRow ==
  ASSUME NEW routed \in BOOLEAN, NEW live \in BOOLEAN
  PROVE  /\ Created(routed, live) \in Row
         /\ Created(routed, live).marks = {}
         /\ Sound(Created(routed, live))
<1>1. /\ Created(routed, live).status \in {"MANAGER_NOTIFIED", "ROUTING_REVIEW"}
      /\ Created(routed, live).marks = {} /\ Created(routed, live).live = live
  BY DEF Created
<1>2. Created(routed, live) \in Row
  BY DEF Created, Row, Status
<1>3. Sound(Created(routed, live))
  BY <1>1 DEF Sound, Agrees, AwaitingAck, AwaitingResolution
<1> QED  BY <1>1, <1>2, <1>3

\* What updateComplaint makes of a row whose status permits the action.
LEMMA AppliedRow ==
  ASSUME NEW action \in Actions, NEW row \in Row, Sound(row), Permits(action, row)
  PROVE  /\ Applied(action, row) \in Row
         /\ Sound(Applied(action, row))
         /\ Follows(row, Applied(action, row), MarkOf[action])
<1> DEFINE after == Applied(action, row)
           gone == IF action = "REOPEN" THEN {"closed"} ELSE {}
<1>1. /\ row.status \in Status /\ row.marks \subseteq Marks /\ row.live \in BOOLEAN
      /\ row = [status |-> row.status, marks |-> row.marks, live |-> row.live]
  BY DEF Row
<1>2. To[action] \in Status /\ MarkOf[action] \subseteq Marks /\ MarkOf[action] \cap Late = {}
  BY DEF Actions, To, MarkOf, Status, Marks, Late
<1>3. /\ after.status = To[action] /\ after.live = row.live
      /\ after.marks = (row.marks \ gone) \cup MarkOf[action]
      /\ after \in Row
  BY <1>1, <1>2 DEF Applied, Row
<1>4. row.status = From[action]
  BY DEF Permits
<1>5. Sound(after)
  <2> HIDE DEF after
  <2>1. CASE action = "ACKNOWLEDGE"
    BY <1>3, <1>4, <2>1 DEF Sound, Agrees, AwaitingAck, AwaitingResolution, From, To, MarkOf, Actions, Late
  <2>2. CASE action = "START_INVESTIGATION"
    BY <1>3, <1>4, <2>2 DEF Sound, Agrees, AwaitingAck, AwaitingResolution, From, To, MarkOf, Actions, Late
  <2>3. CASE action = "SUBMIT_RESOLUTION"
    BY <1>3, <1>4, <2>3 DEF Sound, Agrees, AwaitingAck, AwaitingResolution, From, To, MarkOf, Actions, Late
  <2>4. CASE action = "CLOSE"
    BY <1>3, <1>4, <2>4 DEF Sound, Agrees, AwaitingAck, AwaitingResolution, From, To, MarkOf, Actions, Late
  <2>5. CASE action = "REOPEN"
    BY <1>3, <1>4, <2>5 DEF Sound, Agrees, AwaitingAck, AwaitingResolution, From, To, MarkOf, Actions, Late
  <2> QED  BY <2>1, <2>2, <2>3, <2>4, <2>5 DEF Actions
<1>6. after # NoRow
  BY <1>3, RowIsNotNoRow
<1>7. gone \cap Late = {}
  BY DEF Late
<1> HIDE DEF after
<1>8. Follows(row, after, MarkOf[action])
  BY <1>2, <1>3, <1>4, <1>6, <1>7 DEF Follows
<1> QED  BY <1>3, <1>5, <1>8 DEF after

\* What processDeadlines makes of a row, or of none.
LEMMA FlaggedRow ==
  ASSUME NEW row \in Row \cup {NoRow}, Sound(row), NEW passed \in SUBSET Late,
         NEW after, after = [row EXCEPT !.marks = @ \cup Lateness(row, passed)]
  PROVE  /\ after \in Row \cup {NoRow}
         /\ after = NoRow <=> row = NoRow
         /\ Sound(after)
         /\ Follows(row, after, Lateness(row, passed))
<1> DEFINE late == Lateness(row, passed)
<1>1. /\ late \subseteq Late /\ late \cap row.marks = {}
      /\ late # {} => row.live
  BY DEF Lateness
<1>2. CASE row = NoRow
  <2>1. late = {} /\ NoRow.marks = {}
    BY <1>2 DEF Lateness, NoRow
  <2>2. after = NoRow
    BY <1>2, <2>1 DEF NoRow
  <2> QED  BY <1>2, <2>1, <2>2 DEF Follows
<1>3. CASE row \in Row
  <2>1. after.status = row.status /\ after.live = row.live /\ after.marks = row.marks \cup late
    BY <1>3 DEF Row
  <2>2. after \in Row
    BY <1>1, <1>3 DEF Row, Marks
  <2>3. after # NoRow /\ row # NoRow
    BY <1>3, <2>2, RowIsNotNoRow
  <2> HIDE DEF late
  <2>4. "closed" \notin late /\ "acked" \notin late /\ "submitted" \notin late /\ "reopened" \notin late
    BY <1>1 DEF Late
  <2>5. Sound(after)
    BY <1>1, <2>1, <2>4 DEF Sound, Agrees, AwaitingAck, AwaitingResolution
  <2>6. Follows(row, after, late)
    BY <1>1, <2>1, <2>3 DEF Follows
  <2> QED  BY <2>2, <2>3, <2>5, <2>6 DEF late
<1> QED  BY <1>2, <1>3

-----------------------------------------------------------------------------
\* The fields of the table of n complaints are counted.
LEMMA CountPrefix ==
  ASSUME NEW table, NEW n \in Nat, Made(table) = 1..n
  PROVE  Count(table) = n
<1>1. Count(table) = Cardinality(Made(table))
  BY DEF Count, Made
<1> QED  BY <1>1, FS_Interval

\* Where a process has the statements of a complaint.
LEMMA Places ==
  ASSUME PrefixInv, NEW p \in Processes
  PROVE  /\ Size(p) \in Nat
         /\ \A c \in Made(next[p]) :
              /\ RowAt(p, c) \in 1..Size(p)
              /\ EventsAt(p, c) \in 1..Size(p)
              /\ EventsAt(p, c) = RowAt(p, c) + 1
<1>1. PICK m \in Nat : Made(next[p]) = 1..m
  BY DEF PrefixInv
<1>2. Count(next[p]) = m
  BY <1>1, CountPrefix
<1> QED  BY <1>1, <1>2 DEF Size, RowAt, EventsAt

\* Nothing that is stored of a process depends on another.
LEMMA PlacesFrame ==
  ASSUME NEW p \in Processes, NEW c, next'[p] = next[p], done'[p] = done[p]
  PROVE  /\ Wrote(p, c)' <=> Wrote(p, c)
         /\ Evented(p, c)' <=> Evented(p, c)
BY DEF Wrote, Evented, RowAt, EventsAt, Count, Made

Base == TypeOK /\ LocalInv /\ AgreeInv /\ PrefixInv /\ StoredInv

\* An empty table, and what follows from one.
LEMMA EmptyTable ==
  /\ Empty \in Table
  /\ Made(Empty) = 1..0
  /\ \A c \in Complaints : Sound(Empty[c]) /\ Follows(Empty[c], Empty[c], {})
<1>1. /\ Empty \in [Complaints -> {NoRow}] /\ NoRow.marks = {} /\ NoRow.status = "ABSENT"
  BY DEF Empty, NoRow
<1>2. Sound(NoRow) /\ Follows(NoRow, NoRow, {})
  BY <1>1 DEF Sound, Agrees, Late, Follows
<1> QED  BY <1>1, <1>2 DEF Table, Made

\* A process loads the state and changes its copy.
LEMMA LoadStep ==
  ASSUME Base, NEW p \in Processes, NEW label \in Saving,
         NEW table \in Table, NEW events \in [Complaints -> SUBSET Marks],
         Load(p, label, table, events), ops' \in Nat,
         \A c \in Complaints : Sound(table[c]) /\ Follows(rows[c], table[c], events[c]),
         \A n \in Nat : Made(rows) = 1..n => Made(table) = 1..n \/ Made(table) = 1..n + 1
  PROVE  Base'
<1> USE DEF tables, bounds
<1>1. TypeOK
  BY DEF Base
<1>2. /\ pc[p] = "idle" /\ pc' = [pc EXCEPT ![p] = label]
      /\ seen' = [seen EXCEPT ![p] = rows] /\ next' = [next EXCEPT ![p] = table]
      /\ fresh' = [fresh EXCEPT ![p] = events] /\ done' = [done EXCEPT ![p] = 0]
      /\ UNCHANGED <<rows, log, repeated, escalated, time, lost, faults>>
  BY DEF Load
<1>3. TypeOK'
  BY <1>1, <1>2 DEF TypeOK
<1>4. /\ pc'[p] = label /\ seen'[p] = rows /\ next'[p] = table /\ fresh'[p] = events
      /\ done'[p] = 0
  BY <1>1, <1>2 DEF TypeOK
<1>5. ASSUME NEW q \in Processes, q # p
      PROVE  UNCHANGED <<pc[q], seen[q], next[q], fresh[q], done[q]>>
  BY <1>1, <1>2, <1>5 DEF TypeOK
<1>6. LocalInv'
  <2>1. label \notin {"idle", "escalate"}
    BY DEF Saving
  <2>2. \A c \in Complaints : Follows(seen'[p][c], next'[p][c], fresh'[p][c])
    BY <1>4
  <2>3. LocalInv
    BY DEF Base
  <2>4. ASSUME NEW q \in Processes, q # p
        PROVE  /\ pc'[q] = "idle" => seen'[q] = Empty /\ next'[q] = Empty
               /\ pc'[q] \in {"idle", "escalate"} => fresh'[q] = NoEvents /\ done'[q] = 0
               /\ pc'[q] # "escalate" =>
                    \A c \in Complaints : Follows(seen'[q][c], next'[q][c], fresh'[q][c])
               /\ pc'[q] = "escalate" =>
                    \A c \in Complaints : (next'[q][c].marks \ seen'[q][c].marks) \cap Late \subseteq log'[c]
    BY <1>2, <1>5, <2>3, <2>4 DEF LocalInv
  <2> QED  BY <1>4, <2>1, <2>2, <2>4 DEF LocalInv
<1>7. AgreeInv'
  BY <1>2, <1>4, <1>5 DEF Base, AgreeInv
<1>8. PrefixInv'
  <2>1. PICK n \in Nat : /\ Made(rows) = 1..n
                         /\ \A q \in Processes : \E m \in Nat : Made(next[q]) = 1..m /\ m <= n + 1
    BY DEF Base, PrefixInv
  <2>2. Made(rows') = 1..n
    BY <1>2, <2>1
  <2>3. \A q \in Processes : \E m \in Nat : Made(next'[q]) = 1..m /\ m <= n + 1
    <3>1. ASSUME NEW q \in Processes, q # p
          PROVE  \E m \in Nat : Made(next'[q]) = 1..m /\ m <= n + 1
      BY <1>5, <2>1, <3>1
    <3>2. Made(next'[p]) = 1..n \/ Made(next'[p]) = 1..n + 1
      BY <1>4, <2>1
    <3> QED  BY <2>1, <3>1, <3>2
  <2> QED  BY <2>2, <2>3 DEF PrefixInv, Made
<1>9. StoredInv'
  <2>1. ASSUME NEW q \in Processes, NEW c \in Complaints, q # p, Evented(q, c)'
        PROVE  fresh'[q][c] \subseteq log'[c]
    BY <1>2, <1>5, <2>1, PlacesFrame DEF Base, StoredInv
  <2>2. ASSUME NEW c \in Complaints
        PROVE  ~Evented(p, c)'
    <3>1. PICK m \in Nat : Made(next'[p]) = 1..m
      BY <1>8 DEF PrefixInv, Made
    <3>2. Count(next'[p]) = m
      BY <3>1, CountPrefix
    <3>3. c \in 1..m => 2 * (m - c) + 1 + 1 > 0
      BY <3>1
    <3> QED  BY <1>4, <3>1, <3>2, <3>3 DEF Evented, EventsAt, RowAt, Made, Count
  <2> QED  BY <2>1, <2>2 DEF StoredInv
<1> QED  BY <1>3, <1>6, <1>7, <1>8, <1>9 DEF Base

\* What is stored follows from itself, without any event.
LEMMA RowsFollow ==
  ASSUME Base
  PROVE  /\ \A c \in Complaints : /\ rows[c] \in Row \cup {NoRow} /\ Sound(rows[c])
                                  /\ Follows(rows[c], rows[c], {})
         /\ NoEvents \in [Complaints -> SUBSET Marks]
BY DEF Base, TypeOK, Table, AgreeInv, Follows, NoEvents

\* POST /api/complaints adds the complaint after the last.
LEMMA CreateStep ==
  ASSUME Base, NEW r \in Requests, NEW routed \in BOOLEAN, NEW live \in BOOLEAN,
         Create(r, routed, live)
  PROVE  Base'
<1> DEFINE id == Count(rows) + 1
           table == [rows EXCEPT ![id] = Created(routed, live)]
<1>1. id \in Complaints /\ Load(r, "persist", table, NoEvents) /\ ops' = ops + 1
  BY DEF Create, Started
<1>2. PICK n \in Nat : Made(rows) = 1..n
  BY DEF Base, PrefixInv
<1>3. id = n + 1
  BY <1>2, CountPrefix
<1>4. rows \in [Complaints -> Row \cup {NoRow}] /\ rows[id] = NoRow
  BY <1>1, <1>2, <1>3 DEF Base, TypeOK, Table, Made
<1>5. /\ table \in Table
      /\ table[id] = Created(routed, live) /\ \A c \in Complaints \ {id} : table[c] = rows[c]
  BY <1>1, <1>4, CreatedRow DEF Table
<1> HIDE DEF table, id
<1>6. Sound(table[id]) /\ Follows(rows[id], table[id], {})
  BY <1>4, <1>5, CreatedRow, RowIsNotNoRow DEF Follows, NoRow
<1>7. \A c \in Complaints : Sound(table[c]) /\ Follows(rows[c], table[c], NoEvents[c])
  BY <1>5, <1>6, RowsFollow DEF NoEvents
<1>8. Made(table) = Made(rows) \cup {id}
  BY <1>1, <1>5, CreatedRow, RowIsNotNoRow DEF Made
<1>9. \A k \in Nat : Made(rows) = 1..k => Made(table) = 1..k + 1
  <2>1. ASSUME NEW k \in Nat, Made(rows) = 1..k
        PROVE  Made(table) = 1..k + 1
    <3>1. k = n
      BY <1>2, <2>1, CountPrefix
    <3> QED  BY <1>3, <1>8, <2>1, <3>1
  <2> QED  BY <2>1
<1>10. ops' \in Nat /\ r \in Processes /\ "persist" \in Saving
  BY <1>1 DEF Base, TypeOK, Processes, Saving
<1> QED  BY <1>1, <1>5, <1>7, <1>9, <1>10, RowsFollow, LoadStep

\* POST /api/complaints/:id/actions.
LEMMA ActStep ==
  ASSUME Base, NEW r \in Requests, NEW c \in Complaints, NEW action \in Actions, Act(r, c, action)
  PROVE  Base'
<1> DEFINE table == [rows EXCEPT ![c] = Applied(action, @)]
           events == [NoEvents EXCEPT ![c] = MarkOf[action]]
<1>1. /\ rows[c] # NoRow /\ Permits(action, rows[c]) /\ Load(r, "persist", table, events)
      /\ ops' = ops + 1
  BY DEF Act, Started
<1>2. rows \in [Complaints -> Row \cup {NoRow}] /\ rows[c] \in Row /\ Sound(rows[c])
  BY <1>1, RowsFollow DEF Base, TypeOK, Table
<1>3. /\ Applied(action, rows[c]) \in Row
      /\ Sound(Applied(action, rows[c]))
      /\ Follows(rows[c], Applied(action, rows[c]), MarkOf[action])
  BY <1>1, <1>2, AppliedRow
<1>4. /\ table \in Table
      /\ table[c] = Applied(action, rows[c]) /\ \A d \in Complaints \ {c} : table[d] = rows[d]
  BY <1>2, <1>3 DEF Table
<1>5. MarkOf[action] \subseteq Marks
  BY DEF Actions, MarkOf, Marks
<1>6. /\ events \in [Complaints -> SUBSET Marks]
      /\ events[c] = MarkOf[action] /\ \A d \in Complaints \ {c} : events[d] = {}
  BY <1>5 DEF NoEvents
<1> HIDE DEF table, events
<1>7. \A d \in Complaints : Sound(table[d]) /\ Follows(rows[d], table[d], events[d])
  BY <1>3, <1>4, <1>6, RowsFollow
<1>8. Made(table) = Made(rows)
  BY <1>1, <1>3, <1>4, RowIsNotNoRow DEF Made
<1>9. ops' \in Nat /\ r \in Processes /\ "persist" \in Saving
  BY <1>1 DEF Base, TypeOK, Processes, Saving
<1> QED  BY <1>1, <1>4, <1>6, <1>7, <1>8, <1>9, LoadStep

\* The flags processDeadlines sets.
LEMMA FlaggedTable ==
  ASSUME Base, NEW t \in 0..2
  PROVE  /\ Flagged(t) \in Table
         /\ NewlyLate(t) \in [Complaints -> SUBSET Marks]
         /\ \A c \in Complaints : /\ Sound(Flagged(t)[c])
                                  /\ Follows(rows[c], Flagged(t)[c], NewlyLate(t)[c])
         /\ Made(Flagged(t)) = Made(rows)
<1>1. Passed(t) \in SUBSET Late
  BY DEF Passed
<1>2. ASSUME NEW c \in Complaints
      PROVE  /\ Flagged(t)[c] \in Row \cup {NoRow}
             /\ Flagged(t)[c] = NoRow <=> rows[c] = NoRow
             /\ Sound(Flagged(t)[c])
             /\ Follows(rows[c], Flagged(t)[c], NewlyLate(t)[c])
  <2>1. Flagged(t)[c] = [rows[c] EXCEPT !.marks = @ \cup Lateness(rows[c], Passed(t))]
    BY DEF Flagged
  <2>2. NewlyLate(t)[c] = Lateness(rows[c], Passed(t))
    BY DEF NewlyLate
  <2>3. rows[c] \in Row \cup {NoRow} /\ Sound(rows[c])
    BY RowsFollow
  <2> HIDE DEF Flagged, NewlyLate
  <2> QED  BY <1>1, <2>1, <2>2, <2>3, FlaggedRow
<1>3. NewlyLate(t) \in [Complaints -> SUBSET Marks]
  BY <1>1 DEF NewlyLate, Lateness, Late, Marks
<1>4. Flagged(t) \in Table
  BY <1>2 DEF Flagged, Table
<1> QED  BY <1>2, <1>3, <1>4 DEF Made

\* POST /api/admin/deadlines, and the scheduled job, which starts the same way.
LEMMA DeadlinesStep ==
  ASSUME Base, (\E r \in Requests, t \in 0..2 : Deadlines(r, t)) \/ RunJob
  PROVE  Base'
<1>1. ASSUME NEW p \in Processes, NEW label \in Saving, NEW t \in 0..2, ops' \in Nat,
             Load(p, label, Flagged(t), NewlyLate(t))
      PROVE  Base'
  BY <1>1, FlaggedTable, LoadStep
<1>2. TypeOK /\ ops \in Nat /\ time \in 0..2
  BY DEF Base, TypeOK
<1>3. ASSUME NEW r \in Requests, NEW t \in 0..2, Deadlines(r, t)
      PROVE  Base'
  BY <1>1, <1>2, <1>3 DEF Deadlines, Started, Processes, Saving
<1>4. CASE RunJob
  BY <1>1, <1>2, <1>4 DEF RunJob, Processes, Saving
<1> QED  BY <1>3, <1>4

\* PUT /api/admin/config and contacts.
LEMMA SaveStep ==
  ASSUME Base, NEW r \in Requests, Save(r)
  PROVE  Base'
<1>1. rows \in Table /\ ops' \in Nat /\ r \in Processes /\ "save" \in Saving
  BY DEF Base, TypeOK, Save, Started, Processes, Saving
<1>2. \A c \in Complaints : NoEvents[c] = {}
  BY DEF NoEvents
<1> QED  BY <1>1, <1>2, RowsFollow, LoadStep DEF Save

-----------------------------------------------------------------------------
\* Which statements a batch has.
LEMMA InBatch ==
  ASSUME Base, NEW p \in Processes, NEW k \in Nat, NEW c \in Complaints
  PROVE  /\ c \in RowsIn(p, k) <=> c \in Made(next[p]) /\ ~Wrote(p, c) /\ RowAt(p, c) <= k
         /\ c \in EventsIn(p, k) <=> c \in Made(next[p]) /\ ~Evented(p, c) /\ EventsAt(p, c) <= k
         /\ c \in Made(next[p]) => RowAt(p, c) \in Nat /\ EventsAt(p, c) = RowAt(p, c) + 1
<1>1. done[p] \in Nat
  BY DEF Base, TypeOK
<1>2. c \in Made(next[p]) => RowAt(p, c) \in Nat /\ EventsAt(p, c) = RowAt(p, c) + 1
  BY Places DEF Base
<1>3. c \in Made(next[p]) <=> next[p][c] # NoRow
  BY DEF Made
<1> QED  BY <1>1, <1>2, <1>3 DEF RowsIn, EventsIn, Wrote, Evented

\* What a batch does to the tables.
LEMMA CommitTables ==
  ASSUME Base, NEW p \in Processes, NEW k \in Nat, Commit(p, k)
  PROVE  /\ rows' \in Table
         /\ log' \in [Complaints -> SUBSET Marks]
         /\ repeated' \subseteq Complaints \X Late
         /\ lost' \subseteq Complaints /\ lost \subseteq lost'
         /\ \A c \in Complaints :
              /\ rows'[c] = IF c \in RowsIn(p, k) THEN next[p][c] ELSE rows[c]
              /\ log'[c] = IF c \in EventsIn(p, k) THEN log[c] \cup fresh[p][c] ELSE log[c]
              /\ Sound(rows'[c])
              /\ log[c] \subseteq log'[c]
         /\ \E n \in Nat :
              /\ Made(rows') = 1..n
              /\ \A q \in Processes : \E m \in Nat : Made(next[q]) = 1..m /\ m <= n + 1
<1>1. TypeOK /\ AgreeInv
  BY DEF Base
<1>2. /\ rows \in [Complaints -> Row \cup {NoRow}] /\ next[p] \in [Complaints -> Row \cup {NoRow}]
      /\ log \in [Complaints -> SUBSET Marks] /\ fresh[p] \in [Complaints -> SUBSET Marks]
      /\ repeated \subseteq Complaints \X Late /\ lost \subseteq Complaints
  BY <1>1 DEF TypeOK, Table
<1>3. RowsIn(p, k) \subseteq Complaints /\ EventsIn(p, k) \subseteq Complaints
  BY DEF RowsIn, EventsIn
<1>4. rows' \in Table /\ log' \in [Complaints -> SUBSET Marks]
  BY <1>2 DEF Commit, Table
<1>5. repeated' \subseteq Complaints \X Late /\ lost' \subseteq Complaints /\ lost \subseteq lost'
  BY <1>2, <1>3 DEF Commit
<1>6. ASSUME NEW c \in Complaints
      PROVE  /\ rows'[c] = IF c \in RowsIn(p, k) THEN next[p][c] ELSE rows[c]
             /\ log'[c] = IF c \in EventsIn(p, k) THEN log[c] \cup fresh[p][c] ELSE log[c]
             /\ Sound(rows'[c])
             /\ log[c] \subseteq log'[c]
  BY <1>1 DEF Commit, AgreeInv
<1>7. PICK n \in Nat : /\ Made(rows) = 1..n
                       /\ \A q \in Processes : \E m \in Nat : Made(next[q]) = 1..m /\ m <= n + 1
  BY DEF Base, PrefixInv
<1>8. Made(rows') = Made(rows) \cup RowsIn(p, k)
  BY <1>3, <1>6 DEF Made, RowsIn
<1>9. PICK m \in Nat : Made(next[p]) = 1..m /\ m <= n + 1
  BY <1>7
<1>10. RowsIn(p, k) \subseteq 1..n + 1
  BY <1>9 DEF RowsIn, Made
<1>11. Made(rows') = 1..n \/ Made(rows') = 1..n + 1
  BY <1>7, <1>8, <1>10
<1>12. \E l \in Nat :
         /\ Made(rows') = 1..l
         /\ \A q \in Processes : \E i \in Nat : Made(next[q]) = 1..i /\ i <= l + 1
  <2>1. CASE Made(rows') = 1..n
    BY <1>7, <2>1
  <2>2. CASE Made(rows') = 1..n + 1
    <3>1. n + 1 \in Nat /\ \A i \in Nat : i <= n + 1 => i <= n + 1 + 1
      OBVIOUS
    <3> QED  BY <1>7, <2>2, <3>1
  <2> QED  BY <1>11, <2>1, <2>2
<1> QED  BY <1>4, <1>5, <1>6, <1>12

\* A batch that is not the last.
LEMMA BatchStep ==
  ASSUME Base, NEW p \in Processes, Batch(p)
  PROVE  Base'
<1> USE DEF bounds
<1>1. TypeOK /\ done[p] \in Nat /\ Size(p) \in Nat
  BY Places DEF Base, TypeOK
<1>2. PICK k \in done[p] + 1..Size(p) - 1 : Commit(p, k) /\ done' = [done EXCEPT ![p] = k]
  BY DEF Batch
<1>3. k \in Nat /\ k >= done[p]
  BY <1>1, <1>2
<1>4. /\ rows' \in Table /\ log' \in [Complaints -> SUBSET Marks]
      /\ repeated' \subseteq Complaints \X Late /\ lost' \subseteq Complaints
      /\ \A c \in Complaints : Sound(rows'[c]) /\ log[c] \subseteq log'[c]
      /\ \E n \in Nat :
           /\ Made(rows') = 1..n
           /\ \A q \in Processes : \E m \in Nat : Made(next[q]) = 1..m /\ m <= n + 1
  BY <1>2, <1>3, CommitTables
<1>5. /\ pc[p] \in Saving
      /\ UNCHANGED <<escalated, time, pc, seen, next, fresh, ops, faults>>
  BY DEF Batch
<1>6. done'[p] = k /\ \A q \in Processes \ {p} : done'[q] = done[q]
  BY <1>1, <1>2 DEF TypeOK
<1>7. TypeOK'
  BY <1>1, <1>2, <1>3, <1>4, <1>5 DEF TypeOK
<1>8. LocalInv'
  <2>1. pc[p] \notin {"idle", "escalate"}
    BY <1>5 DEF Saving
  <2>2. LocalInv
    BY DEF Base
  <2> QED  BY <1>4, <1>5, <1>6, <2>1, <2>2 DEF LocalInv, NoEvents
<1>9. AgreeInv'
  BY <1>4, <1>5 DEF Base, AgreeInv
<1>10. PrefixInv'
  BY <1>4, <1>5 DEF PrefixInv, Made
<1>11. ASSUME NEW q \in Processes, NEW c \in Complaints, Evented(q, c)'
       PROVE  fresh'[q][c] \subseteq log'[c]
  <2>1. CASE Evented(q, c)
    BY <1>4, <1>5, <2>1 DEF Base, StoredInv
  <2>2. CASE ~Evented(q, c)
    <3>1. q = p
      BY <1>5, <1>6, <1>11, <2>2, PlacesFrame
    <3>2. c \in Made(next[p]) /\ EventsAt(p, c) <= k
      BY <1>5, <1>6, <1>11, <3>1 DEF Evented, EventsAt, RowAt, Count, Made
    <3>3. c \in EventsIn(p, k)
      BY <1>3, <2>2, <3>1, <3>2, InBatch
    <3> QED  BY <1>2, <1>3, <1>5, <3>1, <3>3, CommitTables
  <2> QED  BY <2>1, <2>2
<1>12. StoredInv'
  BY <1>11 DEF StoredInv
<1> QED  BY <1>7, <1>8, <1>9, <1>10, <1>12 DEF Base

\* The last batch of a process has logged all of its events.
LEMMA LastLogs ==
  ASSUME Base, NEW p \in Processes, LastBatch(p), NEW c \in Complaints
  PROVE  /\ fresh[p][c] \subseteq log'[c]
         /\ c \in Made(next[p]) => c \in EventsIn(p, Size(p)) \/ Evented(p, c)
         /\ c \in Made(next[p]) => c \in RowsIn(p, Size(p)) \/ Wrote(p, c)
<1>1. Size(p) \in Nat /\ Commit(p, Size(p)) /\ pc[p] # "escalate"
  BY Places DEF Base, LastBatch, Saving
<1>2. c \in Made(next[p]) => /\ c \in EventsIn(p, Size(p)) \/ Evented(p, c)
                             /\ c \in RowsIn(p, Size(p)) \/ Wrote(p, c)
  <2>1. c \in Made(next[p]) => RowAt(p, c) <= Size(p) /\ EventsAt(p, c) <= Size(p)
    BY <1>1, Places DEF Base
  <2> QED  BY <1>1, <2>1, InBatch
<1>3. fresh[p][c] # {} => c \in Made(next[p])
  <2>1. fresh[p][c] \subseteq next[p][c].marks
    BY <1>1 DEF Base, LocalInv, Follows
  <2> QED  BY <2>1 DEF Made, NoRow
<1>4. ASSUME c \in Made(next[p])
      PROVE  fresh[p][c] \subseteq log'[c]
  <2>1. CASE c \in EventsIn(p, Size(p))
    BY <1>1, <2>1, CommitTables
  <2>2. CASE Evented(p, c)
    BY <1>1, <2>2, CommitTables DEF Base, StoredInv
  <2> QED  BY <1>2, <1>4, <2>1, <2>2
<1> QED  BY <1>2, <1>3, <1>4

\* Where a process is after its last batch, and what it has then.
LEMMA LastLocals ==
  ASSUME Base, NEW p \in Processes, LastBatch(p)
  PROVE  /\ pc[p] \in Saving /\ pc' = [pc EXCEPT ![p] = After[pc[p]]]
         /\ After[pc[p]] \in {"again", "idle", "escalate"}
         /\ After[pc[p]] = "escalate" <=> pc[p] = "job"
         /\ fresh' = [fresh EXCEPT ![p] = NoEvents]
         /\ done' = [done EXCEPT ![p] = 0]
         /\ After[pc[p]] = "idle" => /\ seen' = [seen EXCEPT ![p] = Empty]
                                     /\ next' = [next EXCEPT ![p] = Empty]
         /\ After[pc[p]] = "again" => /\ seen' = [seen EXCEPT ![p] = next[p]]
                                      /\ UNCHANGED next
         /\ After[pc[p]] = "escalate" => UNCHANGED <<seen, next>>
<1>1. pc[p] \in Saving
  BY DEF LastBatch
<1>2. /\ After[pc[p]] \in {"again", "idle", "escalate"}
      /\ After[pc[p]] = "escalate" <=> pc[p] = "job"
  BY <1>1 DEF After, Saving
<1> QED  BY <1>1, <1>2, Zenon DEF LastBatch, Forget

\* What is known of the processes a step does not move.
LEMMA LocalFrame ==
  ASSUME LocalInv, NEW q \in Processes,
         UNCHANGED <<pc[q], seen[q], next[q], fresh[q], done[q]>>,
         \A c \in Complaints : log[c] \subseteq log'[c]
  PROVE  /\ pc'[q] = "idle" => seen'[q] = Empty /\ next'[q] = Empty
         /\ pc'[q] \in {"idle", "escalate"} => fresh'[q] = NoEvents /\ done'[q] = 0
         /\ pc'[q] # "escalate" =>
              \A c \in Complaints : Follows(seen'[q][c], next'[q][c], fresh'[q][c])
         /\ pc'[q] = "escalate" =>
              \A c \in Complaints : (next'[q][c].marks \ seen'[q][c].marks) \cap Late \subseteq log'[c]
BY DEF LocalInv

\* A process that has no statement behind it and no event left.
LEMMA StoredFrame ==
  ASSUME Base, NEW p \in Processes,
         \A q \in Processes \ {p} : UNCHANGED <<next[q], fresh[q], done[q]>>,
         fresh'[p] = NoEvents,
         \A c \in Complaints : log[c] \subseteq log'[c]
  PROVE  StoredInv'
<1>1. ASSUME NEW q \in Processes, NEW c \in Complaints, q # p, Evented(q, c)'
      PROVE  fresh'[q][c] \subseteq log'[c]
  BY <1>1, PlacesFrame DEF Base, StoredInv
<1>2. \A c \in Complaints : fresh'[p][c] = {}
  BY DEF NoEvents
<1> QED  BY <1>1, <1>2 DEF StoredInv

\* A row follows from itself.
LEMMA SameFollows ==
  ASSUME NEW row
  PROVE  Follows(row, row, {})
BY DEF Follows

\* A last batch.
LEMMA LastStep ==
  ASSUME Base, NEW p \in Processes, LastBatch(p)
  PROVE  Base'
<1> USE DEF bounds
<1>1. TypeOK /\ LocalInv /\ Size(p) \in Nat /\ Commit(p, Size(p)) /\ UNCHANGED <<escalated, time, ops, faults>>
  BY Places DEF Base, LastBatch
<1>2. /\ rows' \in Table /\ log' \in [Complaints -> SUBSET Marks]
      /\ repeated' \subseteq Complaints \X Late /\ lost' \subseteq Complaints
      /\ \A c \in Complaints : Sound(rows'[c]) /\ log[c] \subseteq log'[c]
      /\ \E n \in Nat :
           /\ Made(rows') = 1..n
           /\ \A q \in Processes : \E m \in Nat : Made(next[q]) = 1..m /\ m <= n + 1
  BY <1>1, CommitTables
<1>3. /\ pc' = [pc EXCEPT ![p] = After[pc[p]]] /\ After[pc[p]] \in {"again", "idle", "escalate"}
      /\ fresh' = [fresh EXCEPT ![p] = NoEvents] /\ done' = [done EXCEPT ![p] = 0]
      /\ pc[p] \in Saving
  BY LastLocals
<1>4. /\ NoEvents \in [Complaints -> SUBSET Marks] /\ Empty \in Table
  BY RowsFollow, EmptyTable
<1>5. /\ seen' \in [Processes -> Table] /\ next' \in [Processes -> Table]
      /\ \A q \in Processes \ {p} : seen'[q] = seen[q] /\ next'[q] = next[q]
      /\ next'[p] = next[p] \/ next'[p] = Empty
      /\ After[pc[p]] = "idle" => seen'[p] = Empty /\ next'[p] = Empty
      /\ After[pc[p]] = "again" => seen'[p] = next[p] /\ next'[p] = next[p]
      /\ After[pc[p]] = "escalate" => seen'[p] = seen[p] /\ next'[p] = next[p]
  <2>1. seen \in [Processes -> Table] /\ next \in [Processes -> Table]
    BY <1>1 DEF TypeOK
  <2>2. CASE After[pc[p]] = "idle"
    BY <1>4, <2>1, <2>2, LastLocals
  <2>3. CASE After[pc[p]] = "again"
    BY <2>1, <2>3, LastLocals
  <2>4. CASE After[pc[p]] = "escalate"
    BY <2>1, <2>4, LastLocals
  <2> QED  BY <1>3, <2>2, <2>3, <2>4
<1>6. TypeOK'
  <2>1. pc' \in [Processes -> {"idle", "escalate"} \cup Saving]
    BY <1>1, <1>3 DEF TypeOK, Saving
  <2>2. fresh' \in [Processes -> [Complaints -> SUBSET Marks]] /\ done' \in [Processes -> Nat]
    BY <1>1, <1>3, <1>4 DEF TypeOK
  <2> QED  BY <1>1, <1>2, <1>5, <2>1, <2>2 DEF TypeOK
<1>7. /\ pc'[p] = After[pc[p]] /\ fresh'[p] = NoEvents /\ done'[p] = 0
      /\ \A q \in Processes \ {p} : UNCHANGED <<pc[q], seen[q], next[q], fresh[q], done[q]>>
  BY <1>1, <1>3, <1>5 DEF TypeOK
<1>8. LocalInv'
  <2>1. \A c \in Complaints : fresh'[p][c] = {}
    BY <1>7 DEF NoEvents
  <2>2. CASE pc'[p] = "idle"
    <3>1. \A c \in Complaints : Follows(seen'[p][c], next'[p][c], fresh'[p][c])
      <4>1. seen'[p] = Empty /\ next'[p] = Empty
        BY <1>5, <1>7, <2>2
      <4> QED  BY <2>1, <4>1, EmptyTable
    <3> QED  BY <1>2, <1>5, <1>7, <1>1, <2>2, <3>1, LocalFrame DEF LocalInv
  <2>3. CASE pc'[p] = "again"
    <3>1. \A c \in Complaints : Follows(seen'[p][c], next'[p][c], fresh'[p][c])
      BY <1>5, <1>7, <2>1, <2>3, SameFollows
    <3> QED  BY <1>2, <1>7, <1>1, <2>3, <3>1, LocalFrame DEF LocalInv
  <2>4. CASE pc'[p] = "escalate"
    <3>1. ASSUME NEW c \in Complaints
          PROVE  (next'[p][c].marks \ seen'[p][c].marks) \cap Late \subseteq log'[c]
      <4>1. seen'[p] = seen[p] /\ next'[p] = next[p]
        BY <1>5, <1>7, <2>4
      <4>2. next[p][c].marks \subseteq seen[p][c].marks \cup fresh[p][c]
        BY <1>1, <1>3 DEF LocalInv, Follows, Saving
      <4> QED  BY <4>1, <4>2, LastLogs
    <3> QED  BY <1>2, <1>7, <1>1, <2>4, <3>1, LocalFrame DEF LocalInv
  <2> QED  BY <1>3, <1>7, <2>2, <2>3, <2>4
<1>9. AgreeInv'
  BY <1>2, <1>5, EmptyTable DEF Base, AgreeInv
<1>10. PrefixInv'
  <2>1. PICK n \in Nat :
          /\ Made(rows') = 1..n
          /\ \A q \in Processes : \E m \in Nat : Made(next[q]) = 1..m /\ m <= n + 1
    BY <1>2
  <2>2. 0 \in Nat /\ 0 <= n + 1
    BY <2>1
  <2>3. \A q \in Processes : \E m \in Nat : Made(next'[q]) = 1..m /\ m <= n + 1
    BY <1>5, <2>1, <2>2, EmptyTable
  <2> QED  BY <2>1, <2>3 DEF PrefixInv, Made
<1>11. StoredInv'
  BY <1>2, <1>7, StoredFrame
<1> QED  BY <1>6, <1>8, <1>9, <1>10, <1>11 DEF Base

\* recordEscalations.
LEMMA EscalateStep ==
  ASSUME Base, Escalate
  PROVE  Base'
<1> USE DEF bounds
<1>1. TypeOK /\ LocalInv /\ Job \in Processes
  BY DEF Base, Processes
<1>2. /\ pc[Job] = "escalate" /\ pc' = [pc EXCEPT ![Job] = "again"]
      /\ seen' = [seen EXCEPT ![Job] = next[Job]]
      /\ escalated' = escalated \cup Escalations
      /\ UNCHANGED <<rows, log, repeated, time, next, fresh, done, lost, ops, faults>>
  BY DEF Escalate
<1>3. Escalations \subseteq Complaints \X Late
  BY DEF Escalations
<1>4. TypeOK'
  BY <1>1, <1>2, <1>3 DEF TypeOK, Saving
<1>5. /\ pc'[Job] = "again" /\ seen'[Job] = next'[Job] /\ fresh'[Job] = NoEvents
      /\ \A q \in Processes \ {Job} : UNCHANGED <<pc[q], seen[q], next[q], fresh[q], done[q]>>
  BY <1>1, <1>2 DEF TypeOK, LocalInv
<1>6. LocalInv'
  <2>1. \A c \in Complaints : Follows(seen'[Job][c], next'[Job][c], fresh'[Job][c])
    BY <1>5, SameFollows DEF NoEvents
  <2> QED  BY <1>1, <1>2, <1>5, <2>1, LocalFrame DEF LocalInv
<1>7. AgreeInv' /\ PrefixInv'
  BY <1>2 DEF Base, AgreeInv, PrefixInv, Made
<1>8. StoredInv'
  BY <1>1, <1>2, <1>5, StoredFrame
<1> QED  BY <1>4, <1>6, <1>7, <1>8 DEF Base

\* A call throws, or the invocation dies.
LEMMA FailStep ==
  ASSUME Base, NEW p \in Processes, Fail(p)
  PROVE  Base'
<1> USE DEF bounds, tables
<1>1. TypeOK /\ LocalInv
  BY DEF Base
<1>2. /\ pc' = [pc EXCEPT ![p] = "idle"]
      /\ seen' = [seen EXCEPT ![p] = Empty] /\ next' = [next EXCEPT ![p] = Empty]
      /\ fresh' = [fresh EXCEPT ![p] = NoEvents] /\ done' = [done EXCEPT ![p] = 0]
      /\ faults' = faults + 1
      /\ UNCHANGED <<rows, log, repeated, escalated, time, lost, ops>>
  BY DEF Fail, Forget
<1>3. /\ NoEvents \in [Complaints -> SUBSET Marks] /\ Empty \in Table
  BY RowsFollow, EmptyTable
<1>4. TypeOK'
  BY <1>1, <1>2, <1>3 DEF TypeOK
<1>5. /\ pc'[p] = "idle" /\ seen'[p] = Empty /\ next'[p] = Empty /\ fresh'[p] = NoEvents
      /\ done'[p] = 0
      /\ \A q \in Processes \ {p} : UNCHANGED <<pc[q], seen[q], next[q], fresh[q], done[q]>>
  BY <1>1, <1>2 DEF TypeOK
<1>6. LocalInv'
  <2>1. \A c \in Complaints : Follows(seen'[p][c], next'[p][c], fresh'[p][c])
    BY <1>5, EmptyTable DEF NoEvents
  <2> QED  BY <1>1, <1>2, <1>5, <2>1, LocalFrame DEF LocalInv
<1>7. AgreeInv'
  BY <1>2, <1>5, EmptyTable DEF Base, AgreeInv
<1>8. PrefixInv'
  <2>1. PICK n \in Nat :
          /\ Made(rows) = 1..n
          /\ \A q \in Processes : \E m \in Nat : Made(next[q]) = 1..m /\ m <= n + 1
    BY DEF Base, PrefixInv
  <2>2. 0 \in Nat /\ 0 <= n + 1
    BY <2>1
  <2>3. \A q \in Processes : \E m \in Nat : Made(next'[q]) = 1..m /\ m <= n + 1
    BY <1>5, <2>1, <2>2, EmptyTable
  <2> QED  BY <1>2, <2>1, <2>3 DEF PrefixInv, Made
<1>9. StoredInv'
  BY <1>2, <1>5, StoredFrame
<1> QED  BY <1>4, <1>6, <1>7, <1>8, <1>9 DEF Base

\* The clock.
LEMMA TickStep ==
  ASSUME Base, Tick
  PROVE  Base'
<1>1. time' \in 0..2 /\ UNCHANGED <<tables, locals, lost, bounds>>
  BY DEF Base, TypeOK, Tick
<1> QED
  BY <1>1 DEF Base, TypeOK, LocalInv, AgreeInv, PrefixInv, StoredInv, Evented, EventsAt, RowAt, Count,
              Made, tables, locals, bounds

\* Every step.
LEMMA BaseStep ==
  ASSUME Base, Next
  PROVE  Base'
<1>1. CASE \E r \in Requests :
             \/ \E routed, live \in BOOLEAN : Create(r, routed, live)
             \/ \E c \in Complaints, action \in Actions : Act(r, c, action)
             \/ Save(r)
  BY <1>1, CreateStep, ActStep, SaveStep
<1>2. CASE (\E r \in Requests, t \in 0..2 : Deadlines(r, t)) \/ RunJob
  BY <1>2, DeadlinesStep
<1>3. CASE \E p \in Processes : Write(p) \/ Fail(p)
  BY <1>3, BatchStep, LastStep, FailStep DEF Write
<1> QED  BY <1>1, <1>2, <1>3, TickStep, EscalateStep DEF Next

\* The initial state, and any that does not change.
LEMMA BaseStart ==
  /\ Init => Base
  /\ Base /\ UNCHANGED vars => Base'
<1>1. ASSUME Init
      PROVE  Base
  <2>1. PICK row \in Undisturbed : rows = [c \in Complaints |-> IF c = 1 THEN row ELSE NoRow]
    BY <1>1 DEF Init
  <2>2. row \in Row \cup {NoRow} /\ Sound(row)
    <3>1. row \in Row \cup {NoRow}
      <4>1. /\ [status |-> "MANAGER_NOTIFIED", marks |-> {}, live |-> TRUE] \in Row
            /\ [status |-> "INVESTIGATING", marks |-> {"acked"}, live |-> TRUE] \in Row
            /\ [status |-> "CLOSED", marks |-> {"acked", "submitted", "closed"}, live |-> TRUE] \in Row
        BY DEF Row, Status, Marks
      <4>2. \/ row = NoRow
            \/ row = [status |-> "MANAGER_NOTIFIED", marks |-> {}, live |-> TRUE]
            \/ row = [status |-> "INVESTIGATING", marks |-> {"acked"}, live |-> TRUE]
            \/ row = [status |-> "CLOSED", marks |-> {"acked", "submitted", "closed"}, live |-> TRUE]
        BY Zenon DEF Undisturbed, NoRow
      <4> QED  BY <4>1, <4>2
    <3>2. \/ row.status = "ABSENT" /\ row.marks = {}
          \/ row.status = "MANAGER_NOTIFIED" /\ row.marks = {}
          \/ row.status = "INVESTIGATING" /\ row.marks = {"acked"}
          \/ row.status = "CLOSED" /\ row.marks = {"acked", "submitted", "closed"}
      BY DEF Undisturbed
    <3>3. Sound(row)
      BY <3>2 DEF Sound, Agrees, Late, AwaitingAck, AwaitingResolution
    <3> QED  BY <3>1, <3>3
  <2>3. rows \in Table /\ (\A c \in Complaints : Sound(rows[c])) /\ NoRow.marks = {}
    <3>1. Sound(NoRow)
      BY DEF NoRow, Sound, Agrees, Late
    <3> QED  BY <2>1, <2>2, <3>1 DEF Table, NoRow
  <2>4. log \in [Complaints -> SUBSET Marks]
    <3>1. \A c \in Complaints : rows[c].marks \subseteq Marks
      BY <2>3 DEF Table, Row, NoRow
    <3> QED  BY <1>1, <3>1 DEF Init
  <2>5. Empty \in Table /\ NoEvents \in [Complaints -> SUBSET Marks]
    BY EmptyTable DEF NoEvents
  <2>6. fresh = [p \in Processes |-> NoEvents]
    BY <1>1 DEF Init, NoEvents
  <2>7. TypeOK
    BY <1>1, <2>3, <2>4, <2>5, <2>6 DEF Init, TypeOK
  <2>8. LocalInv
    BY <1>1, <2>6, EmptyTable DEF Init, LocalInv, NoEvents
  <2>9. AgreeInv
    BY <1>1, <2>3, EmptyTable DEF Init, AgreeInv
  <2>10. Made(rows) = 1..0 \/ Made(rows) = 1..1
    <3>1. 1 \in Complaints => Made(rows) = {} \/ Made(rows) = {1}
      BY <2>1 DEF Made
    <3>2. 1 \notin Complaints => Complaints = {}
      BY DeskAssumption DEF Complaints
    <3> QED  BY <3>1, <3>2 DEF Made
  <2>11. \A p \in Processes : Made(next[p]) = 1..0
    BY <1>1, EmptyTable DEF Init
  <2>12. PrefixInv
    <3>1. 0 \in Nat /\ 1 \in Nat /\ 0 <= 0 + 1 /\ 0 <= 1 + 1
      OBVIOUS
    <3> QED  BY <2>10, <2>11, <3>1 DEF PrefixInv
  <2>13. StoredInv
    BY <2>6 DEF StoredInv, NoEvents
  <2> QED  BY <2>7, <2>8, <2>9, <2>12, <2>13 DEF Base
<1>2. ASSUME Base, UNCHANGED vars
      PROVE  Base'
  BY <1>2 DEF Base, TypeOK, LocalInv, AgreeInv, PrefixInv, StoredInv, Evented, EventsAt, RowAt, Count,
              Made, vars, tables, locals, bounds
<1> QED  BY <1>1, <1>2

\* What holds of rows and processes, for the whole of a behavior.
THEOREM DeskInvariant == Spec => []Base
<1>1. Base /\ [Next]_vars => Base'
  BY BaseStart, BaseStep
<1> QED  BY <1>1, BaseStart, PTL DEF Spec

\* The types of ComplaintDesk's variables.
THEOREM DeskTypeCorrect == Spec => []TypeOK
<1>1. Base => TypeOK
  BY DEF Base
<1> QED  BY <1>1, DeskInvariant, PTL

\* The fields of a complaint agree, whoever overwrote whom.
THEOREM DeskRowsAgree == Spec => []RowsAgree
<1>1. Base => RowsAgree
  BY DEF Base, AgreeInv, Sound, RowsAgree
<1> QED  BY <1>1, DeskInvariant, PTL

-----------------------------------------------------------------------------
\* The kinds of steps: a process loads, writes, escalates, fails; or time passes.
LEMMA StepKinds ==
  ASSUME Next
  PROVE  \/ \E p \in Processes, label \in Saving : \E table, events : Load(p, label, table, events)
         \/ \E p \in Processes : Batch(p)
         \/ \E p \in Processes : LastBatch(p)
         \/ Escalate
         \/ \E p \in Processes : Fail(p)
         \/ Tick
<1> DEFINE Loads == \E p \in Processes, label \in Saving : \E table, events : Load(p, label, table, events)
<1>1. ASSUME NEW r \in Requests, NEW routed \in BOOLEAN, NEW live \in BOOLEAN, Create(r, routed, live)
      PROVE  Loads
  BY <1>1 DEF Create, Processes, Saving
<1>2. ASSUME NEW r \in Requests, NEW c \in Complaints, NEW action \in Actions, Act(r, c, action)
      PROVE  Loads
  BY <1>2 DEF Act, Processes, Saving
<1>3. ASSUME NEW r \in Requests, NEW t \in 0..2, Deadlines(r, t)
      PROVE  Loads
  BY <1>3 DEF Deadlines, Processes, Saving
<1>4. ASSUME NEW r \in Requests, Save(r)
      PROVE  Loads
  BY <1>4 DEF Save, Processes, Saving
<1>5. ASSUME RunJob
      PROVE  Loads
  BY <1>5 DEF RunJob, Processes, Saving
<1> HIDE DEF Loads
<1>6. CASE \E r \in Requests :
             \/ \E routed, live \in BOOLEAN : Create(r, routed, live)
             \/ \E c \in Complaints, action \in Actions : Act(r, c, action)
             \/ \E t \in 0..2 : Deadlines(r, t)
             \/ Save(r)
  <2>1. Loads
    BY <1>1, <1>2, <1>3, <1>4, <1>6
  <2> QED  BY <2>1 DEF Loads
<1>7. CASE RunJob
  BY <1>5, <1>7 DEF Loads
<1>8. CASE \E p \in Processes : Write(p) \/ Fail(p)
  BY <1>8 DEF Write
<1> QED  BY <1>6, <1>7, <1>8 DEF Next

\* Loading gives a process what it works on, and writes nothing.
LEMMA LoadLocals ==
  ASSUME Base, NEW p \in Processes, NEW label \in Saving, NEW table, NEW events,
         Load(p, label, table, events)
  PROVE  /\ pc[p] = "idle" /\ pc'[p] = label
         /\ seen'[p] = rows /\ next'[p] = table /\ fresh'[p] = events /\ done'[p] = 0
         /\ \A q \in Processes \ {p} : UNCHANGED <<pc[q], seen[q], next[q], fresh[q], done[q]>>
         /\ UNCHANGED <<rows, log, repeated, escalated, time, lost, faults>>
BY DEF Base, TypeOK, Load, tables

\* The log only grows, and only Escalate adds to the escalations.
LEMMA LogGrows ==
  ASSUME Base, Next
  PROVE  /\ \A c \in Complaints : log[c] \subseteq log'[c]
         /\ Escalate \/ escalated' = escalated
         /\ faults \in Nat /\ (faults' = faults \/ faults' = faults + 1)
<1> USE DEF tables, bounds
<1>1. CASE \E p \in Processes, label \in Saving : \E table, events : Load(p, label, table, events)
  BY <1>1, LoadLocals DEF Base, TypeOK
<1>2. ASSUME NEW p \in Processes, Batch(p)
      PROVE  /\ \A c \in Complaints : log[c] \subseteq log'[c]
             /\ escalated' = escalated /\ faults' = faults
  BY <1>2 DEF Base, TypeOK, Batch, Commit
<1>3. ASSUME NEW p \in Processes, LastBatch(p)
      PROVE  /\ \A c \in Complaints : log[c] \subseteq log'[c]
             /\ escalated' = escalated /\ faults' = faults
  BY <1>3 DEF Base, TypeOK, LastBatch, Commit
<1>4. CASE Escalate \/ Tick \/ \E p \in Processes : Fail(p)
  BY <1>4 DEF Base, TypeOK, Escalate, Tick, Fail
<1> QED  BY <1>1, <1>2, <1>3, <1>4, StepKinds DEF Base, TypeOK

\* An escalation is never recorded before its overdue event.
THEOREM EscalationsBacked == Spec => []EscalationIsBacked
<1>1. Init => EscalationIsBacked
  BY DEF Init, EscalationIsBacked
<1>2. ASSUME Base, EscalationIsBacked, [Next]_vars
      PROVE  EscalationIsBacked'
  <2>1. CASE UNCHANGED vars
    BY <1>2, <2>1 DEF vars, tables, EscalationIsBacked
  <2>2. CASE Next
    <3>1. escalated \subseteq Complaints \X Late
      BY <1>2 DEF Base, TypeOK
    <3>2. ASSUME NEW e \in escalated
          PROVE  e[2] \in log'[e[1]]
      BY <1>2, <2>2, <3>1, LogGrows DEF EscalationIsBacked
    <3>3. ASSUME NEW e \in Escalations, Escalate
          PROVE  e[2] \in log'[e[1]]
      <4>1. /\ e[1] \in Complaints /\ e[2] \in Late
            /\ e[2] \in next[Job][e[1]].marks \ seen[Job][e[1]].marks
        BY DEF Escalations
      <4>2. pc[Job] = "escalate" /\ Job \in Processes
        BY <3>3 DEF Escalate, Processes
      <4>3. e[2] \in log[e[1]]
        BY <1>2, <4>1, <4>2 DEF Base, LocalInv
      <4> QED  BY <1>2, <2>2, <4>1, <4>3, LogGrows
    <3>4. escalated' = escalated \/ (Escalate /\ escalated' = escalated \cup Escalations)
      BY <1>2, <2>2, LogGrows DEF Escalate
    <3> QED  BY <3>2, <3>3, <3>4 DEF EscalationIsBacked
  <2> QED  BY <1>2, <2>1, <2>2
<1> QED  BY <1>1, <1>2, DeskInvariant, PTL DEF Spec

\* A batch leaves a row as it is, or as a permitted action makes it; or it overwrites
\* what the process had not read.
LEMMA CommitFollows ==
  ASSUME Base, NEW p \in Processes, pc[p] \in Saving, NEW k \in Nat, Commit(p, k),
         NEW c \in Complaints
  PROVE  \/ rows'[c].status = rows[c].status
         \/ rows[c] = NoRow
         \/ \E action \in Actions : rows[c].status = From[action] /\ rows'[c].status = To[action]
         \/ rows[c] # seen[p][c] /\ rows'[c] = next[p][c]
<1>1. rows'[c] = IF c \in RowsIn(p, k) THEN next[p][c] ELSE rows[c]
  BY CommitTables
<1>2. Follows(seen[p][c], next[p][c], fresh[p][c])
  BY DEF Base, LocalInv, Saving
<1> QED  BY <1>1, <1>2 DEF Follows

\* A status leaves the life cycle only where a row is overwritten by one who did not
\* read its last change.
THEOREM LifecycleKept == Spec => LifecycleHolds
<1>1. ASSUME Base, Next, NEW c \in Complaints
      PROVE  \/ rows'[c].status = rows[c].status
             \/ rows[c] = NoRow
             \/ \E action \in Actions : rows[c].status = From[action] /\ rows'[c].status = To[action]
             \/ \E p \in Processes : rows[c] # seen[p][c] /\ rows'[c] = next[p][c]
  <2>1. CASE \E p \in Processes, label \in Saving : \E table, events : Load(p, label, table, events)
    BY <1>1, <2>1, LoadLocals
  <2>2. ASSUME NEW p \in Processes, Batch(p)
        PROVE  \E k \in Nat : Commit(p, k) /\ pc[p] \in Saving
    <3>1. done[p] \in Nat /\ Size(p) \in Nat
      BY <1>1, Places DEF Base, TypeOK
    <3> QED  BY <2>2, <3>1 DEF Batch
  <2>3. ASSUME NEW p \in Processes, LastBatch(p)
        PROVE  \E k \in Nat : Commit(p, k) /\ pc[p] \in Saving
    <3>1. Size(p) \in Nat
      BY <1>1, Places DEF Base
    <3> QED  BY <2>3, <3>1 DEF LastBatch
  <2>4. CASE Escalate \/ Tick \/ \E p \in Processes : Fail(p)
    BY <2>4 DEF Escalate, Tick, Fail, tables
  <2>5. CASE \E p \in Processes : Batch(p) \/ LastBatch(p)
    <3>1. PICK p \in Processes, k \in Nat : Commit(p, k) /\ pc[p] \in Saving
      BY <2>2, <2>3, <2>5
    <3> QED  BY <1>1, <3>1, CommitFollows
  <2> QED  BY <1>1, <2>1, <2>4, <2>5, StepKinds
<1>2. Base /\ [Next]_vars =>
        [\A c \in Complaints :
           \/ rows'[c].status = rows[c].status
           \/ rows[c] = NoRow
           \/ \E action \in Actions : rows[c].status = From[action] /\ rows'[c].status = To[action]
           \/ \E p \in Processes : rows[c] # seen[p][c] /\ rows'[c] = next[p][c]]_vars
  BY <1>1
<1> QED  BY <1>2, DeskInvariant, PTL DEF Spec, LifecycleHolds

-----------------------------------------------------------------------------
\* A mark has its event, or a process still has it to write, or one has died.
Backed(c, mark) ==
  \/ mark \in log[c]
  \/ faults > 0
  \/ \E p \in Processes : mark \in fresh[p][c] /\ done[p] > 0

\* The marks of a row are backed, and so are those a process will write, unless it
\* is the one that has their events.
BackInv ==
  /\ \A c \in Complaints : \A mark \in rows[c].marks : Backed(c, mark)
  /\ \A p \in Processes, c \in Complaints : \A mark \in next[p][c].marks :
       mark \in fresh[p][c] \/ Backed(c, mark)

\* Once a mark is backed it stays so: a process that ends has logged its events.
LEMMA BackedStays ==
  ASSUME Base, Next, NEW c \in Complaints, NEW mark, Backed(c, mark)
  PROVE  Backed(c, mark)'
<1>1. log[c] \subseteq log'[c] /\ faults \in Nat /\ (faults > 0 => faults' > 0)
  BY LogGrows
<1>2. CASE mark \in log[c] \/ faults > 0
  BY <1>1, <1>2 DEF Backed
<1>3. ASSUME NEW p \in Processes, mark \in fresh[p][c], done[p] > 0
      PROVE  Backed(c, mark)'
  <2>1. CASE \E q \in Processes, label \in Saving : \E table, events : Load(q, label, table, events)
    <3>1. PICK q \in Processes, label \in Saving : \E table, events : Load(q, label, table, events)
      BY <2>1
    <3>2. pc[q] = "idle" /\ \A x \in Processes \ {q} : UNCHANGED <<fresh[x], done[x]>>
      BY <3>1, LoadLocals
    <3>3. q # p
      BY <1>3, <3>2 DEF Base, LocalInv, NoEvents
    <3> QED  BY <1>3, <3>2, <3>3 DEF Backed
  <2>2. ASSUME NEW q \in Processes, Batch(q)
        PROVE  Backed(c, mark)'
    <3>1. done[q] \in Nat /\ Size(q) \in Nat /\ done \in [Processes -> Nat]
      BY Places DEF Base, TypeOK
    <3>2. PICK k \in done[q] + 1..Size(q) - 1 : done' = [done EXCEPT ![q] = k]
      BY <2>2 DEF Batch
    <3>3. done'[p] > 0 /\ fresh' = fresh
      BY <1>3, <2>2, <3>1, <3>2 DEF Batch
    <3> QED  BY <1>3, <3>3 DEF Backed
  <2>3. ASSUME NEW q \in Processes, LastBatch(q)
        PROVE  Backed(c, mark)'
    <3>1. CASE q = p
      BY <1>3, <2>3, <3>1, LastLogs DEF Backed
    <3>2. CASE q # p
      <4>1. fresh'[p] = fresh[p] /\ done'[p] = done[p]
        BY <2>3, <3>2, LastLocals DEF Base, TypeOK
      <4> QED  BY <1>3, <4>1 DEF Backed
    <3> QED  BY <3>1, <3>2
  <2>4. CASE Escalate \/ Tick
    <3>1. UNCHANGED <<fresh, done>>
      BY <2>4 DEF Escalate, Tick, locals
    <3> QED  BY <1>3, <3>1 DEF Backed
  <2>5. CASE \E q \in Processes : Fail(q)
    BY <1>1, <2>5 DEF Fail, Backed
  <2> QED  BY <2>1, <2>2, <2>3, <2>4, <2>5, StepKinds
<1> QED  BY <1>2, <1>3 DEF Backed

\* Every step keeps marks backed.
LEMMA BackStep ==
  ASSUME Base, BackInv, Next
  PROVE  BackInv'
<1>1. \A c \in Complaints : \A mark : Backed(c, mark) => Backed(c, mark)'
  BY BackedStays
<1>2. \A c \in Complaints : Empty[c].marks = {}
  BY DEF Empty, NoRow
<1>3. CASE \E p \in Processes, label \in Saving : \E table, events : Load(p, label, table, events)
  <2>1. PICK p \in Processes, label \in Saving : \E table, events : Load(p, label, table, events)
    BY <1>3
  <2>2. /\ pc'[p] = label /\ seen'[p] = rows /\ rows' = rows
        /\ \A q \in Processes \ {p} : next'[q] = next[q] /\ fresh'[q] = fresh[q]
    BY <2>1, LoadLocals
  <2>3. Base'
    BY BaseStep
  <2>4. \A c \in Complaints : Follows(seen'[p][c], next'[p][c], fresh'[p][c])
    BY <2>2, <2>3 DEF Base, LocalInv, Saving
  <2>5. \A c \in Complaints : next'[p][c].marks \subseteq rows[c].marks \cup fresh'[p][c]
    BY <2>2, <2>4 DEF Follows
  <2> QED  BY <1>1, <2>2, <2>5 DEF BackInv
<1>4. ASSUME NEW p \in Processes, Batch(p)
      PROVE  BackInv'
  <2>1. done[p] \in Nat /\ Size(p) \in Nat /\ done \in [Processes -> Nat]
    BY Places DEF Base, TypeOK
  <2>2. PICK k \in done[p] + 1..Size(p) - 1 : Commit(p, k) /\ done' = [done EXCEPT ![p] = k]
    BY <1>4 DEF Batch
  <2>3. k \in Nat /\ done'[p] > 0 /\ UNCHANGED <<next, fresh>>
    BY <1>4, <2>1, <2>2 DEF Batch
  <2>4. \A c \in Complaints : rows'[c] = rows[c] \/ rows'[c] = next[p][c]
    BY <2>2, <2>3, CommitTables
  <2>5. ASSUME NEW c \in Complaints, NEW mark \in rows'[c].marks
        PROVE  Backed(c, mark)'
    <3>1. Backed(c, mark) \/ mark \in fresh[p][c]
      BY <2>4 DEF BackInv
    <3>2. mark \in fresh[p][c] => Backed(c, mark)'
      BY <2>3 DEF Backed
    <3> QED  BY <1>1, <3>1, <3>2
  <2> QED  BY <1>1, <2>3, <2>5 DEF BackInv
<1>5. ASSUME NEW p \in Processes, LastBatch(p)
      PROVE  BackInv'
  <2>1. Size(p) \in Nat /\ Commit(p, Size(p))
    BY <1>5, Places DEF Base, LastBatch
  <2>2. \A c \in Complaints : rows'[c] = rows[c] \/ rows'[c] = next[p][c]
    BY <2>1, CommitTables
  <2>3. \A c \in Complaints : fresh[p][c] \subseteq log'[c]
    BY <1>5, LastLogs
  <2>4. ASSUME NEW c \in Complaints, NEW mark \in next[p][c].marks
        PROVE  Backed(c, mark)'
    BY <1>1, <2>3 DEF BackInv, Backed
  <2>5. \A q \in Processes \ {p} : next'[q] = next[q] /\ fresh'[q] = fresh[q]
    BY <1>5, LastLocals DEF Base, TypeOK
  <2>6. next'[p] = next[p] \/ next'[p] = Empty
    BY <1>5, LastLocals DEF Base, TypeOK
  <2>7. \A c \in Complaints : \A mark \in rows'[c].marks : Backed(c, mark)'
    BY <1>1, <2>2, <2>4 DEF BackInv
  <2>8. \A c \in Complaints : \A mark \in next'[p][c].marks : Backed(c, mark)'
    BY <1>2, <2>4, <2>6
  <2> QED  BY <1>1, <2>5, <2>7, <2>8 DEF BackInv
<1>6. CASE Escalate \/ Tick
  <2>1. UNCHANGED <<rows, next, fresh>>
    BY <1>6 DEF Escalate, Tick, tables, locals
  <2> QED  BY <1>1, <2>1 DEF BackInv
<1>7. CASE \E p \in Processes : Fail(p)
  <2>1. faults' > 0
    BY <1>7, LogGrows DEF Fail
  <2> QED  BY <2>1 DEF BackInv, Backed
<1> QED  BY <1>3, <1>4, <1>5, <1>6, <1>7, StepKinds

\* What a row says happened has its event, unless a batch is still to come or was
\* lost with its invocation.
THEOREM EventsBackRows == Spec => []EventBacksRow
<1>1. Init => BackInv
  <2>1. ASSUME Init
        PROVE  /\ \A c \in Complaints : log[c] = rows[c].marks
               /\ \A p \in Processes, c \in Complaints : next[p][c].marks = {}
    BY <2>1 DEF Init, Empty, NoRow
  <2> QED  BY <2>1 DEF BackInv, Backed
<1>2. ASSUME Base, BackInv, [Next]_vars
      PROVE  BackInv'
  <2>1. CASE UNCHANGED vars
    BY <1>2, <2>1 DEF vars, tables, locals, bounds, BackInv, Backed
  <2> QED  BY <1>2, <2>1, BackStep
<1>3. BackInv => EventBacksRow
  BY DEF BackInv, Backed, EventBacksRow
<1> QED  BY <1>1, <1>2, <1>3, DeskInvariant, PTL DEF Spec

-----------------------------------------------------------------------------
\* Who flagged what, as long as no flag of the complaint was overwritten unread.
FlagOf(p, c) ==
  \A k \in fresh[p][c] \cap Late :
    Wrote(p, c) => k \in rows[c].marks /\ (Evented(p, c) \/ k \notin log[c])

FlagInv ==
  /\ \A e \in repeated : e[1] \in lost
  /\ \A c \in Complaints \ lost :
       /\ log[c] \cap Late \subseteq rows[c].marks
       /\ \A p \in Processes : FlagOf(p, c)
       /\ \A p, q \in Processes :
            Wrote(p, c) /\ Wrote(q, c) /\ p # q => fresh[p][c] \cap fresh[q][c] \cap Late = {}

\* What a batch does to the flags of a complaint that is not lost: it leaves those
\* that are set; and those the process sets were not set by another.
LEMMA CommitFlags ==
  ASSUME Base, FlagInv, NEW p \in Processes, pc[p] \in Saving, NEW k \in Nat, Commit(p, k),
         NEW c \in Complaints, c \notin lost'
  PROVE  /\ c \notin lost
         /\ rows[c].marks \cap Late \subseteq rows'[c].marks
         /\ c \in RowsIn(p, k) =>
              /\ fresh[p][c] \subseteq rows'[c].marks
              /\ fresh[p][c] \cap Late \cap rows[c].marks = {}
              /\ fresh[p][c] \cap Late \cap log[c] = {}
<1>1. c \notin lost
  BY CommitTables
<1>2. /\ rows'[c] = IF c \in RowsIn(p, k) THEN next[p][c] ELSE rows[c]
      /\ c \in RowsIn(p, k) => rows[c].marks \cap Late = seen[p][c].marks \cap Late
  BY CommitTables DEF Commit, Flags
<1>3. Follows(seen[p][c], next[p][c], fresh[p][c])
  BY DEF Base, LocalInv, Saving
<1>4. log[c] \cap Late \subseteq rows[c].marks
  BY <1>1 DEF FlagInv
<1> QED  BY <1>1, <1>2, <1>3, <1>4 DEF Follows

\* The events of a complaint are written with its row or after it.
LEMMA RowFirst ==
  ASSUME Base, NEW p \in Processes, NEW k \in Nat, NEW c \in EventsIn(p, k)
  PROVE  /\ c \in Complaints /\ ~Evented(p, c)
         /\ c \in RowsIn(p, k) \/ Wrote(p, c)
<1>1. c \in Complaints /\ c \in Made(next[p]) /\ ~Evented(p, c) /\ EventsAt(p, c) <= k
  <2>1. c \in Complaints
    BY DEF EventsIn
  <2> QED  BY <2>1, InBatch
<1>2. RowAt(p, c) <= k
  BY <1>1, InBatch
<1> QED  BY <1>1, <1>2, InBatch

\* A lateness whose event is stored already was lost by who stores it again; and
\* what is logged is flagged.
LEMMA CommitLog ==
  ASSUME Base, FlagInv, NEW p \in Processes, pc[p] \in Saving, NEW k \in Nat, Commit(p, k)
  PROVE  /\ \A e \in repeated' : e[1] \in lost'
         /\ \A c \in Complaints \ lost' : log'[c] \cap Late \subseteq rows'[c].marks
<1>1. ASSUME NEW e \in EventsIn(p, k) \X Late, e[2] \in fresh[p][e[1]] \cap log[e[1]],
             e[1] \notin lost'
      PROVE  FALSE
  <2>1. e[1] \in Complaints /\ ~Evented(p, e[1]) /\ (e[1] \in RowsIn(p, k) \/ Wrote(p, e[1]))
    BY RowFirst
  <2>2. CASE e[1] \in RowsIn(p, k)
    BY <1>1, <2>1, <2>2, CommitFlags
  <2>3. CASE Wrote(p, e[1])
    <3>1. e[1] \notin lost
      BY <1>1, <2>1, CommitFlags
    <3> QED  BY <1>1, <2>1, <2>3, <3>1 DEF FlagInv, FlagOf
  <2> QED  BY <2>1, <2>2, <2>3
<1>2. \A e \in repeated' : e[1] \in lost'
  <2>1. repeated' = repeated \cup {e \in EventsIn(p, k) \X Late : e[2] \in fresh[p][e[1]] \cap log[e[1]]}
    BY DEF Commit
  <2>2. lost \subseteq lost'
    BY CommitTables
  <2> QED  BY <1>1, <2>1, <2>2 DEF FlagInv
<1>3. ASSUME NEW c \in Complaints \ lost', NEW e \in log'[c] \cap Late
      PROVE  e \in rows'[c].marks
  <2>1. c \notin lost /\ rows[c].marks \cap Late \subseteq rows'[c].marks
    BY CommitFlags
  <2>2. CASE e \in log[c]
    BY <2>1, <2>2 DEF FlagInv
  <2>3. CASE e \notin log[c]
    <3>1. c \in EventsIn(p, k) /\ e \in fresh[p][c]
      BY <2>3, CommitTables
    <3>2. CASE c \in RowsIn(p, k)
      BY <3>1, <3>2, CommitFlags
    <3>3. CASE Wrote(p, c)
      BY <2>1, <3>1, <3>3 DEF FlagInv, FlagOf
    <3> QED  BY <3>1, <3>2, <3>3, RowFirst
  <2> QED  BY <2>2, <2>3
<1> QED  BY <1>2, <1>3

\* What is known of a process that did not write.
LEMMA FlagFrame ==
  ASSUME Base, FlagInv, NEW p \in Processes, pc[p] \in Saving, NEW k \in Nat, Commit(p, k),
         NEW c \in Complaints \ lost', NEW q \in Processes, q # p,
         next'[q] = next[q], fresh'[q] = fresh[q], done'[q] = done[q]
  PROVE  FlagOf(q, c)'
<1>1. c \notin lost /\ rows[c].marks \cap Late \subseteq rows'[c].marks
  BY CommitFlags
<1>2. (Wrote(q, c)' <=> Wrote(q, c)) /\ (Evented(q, c)' <=> Evented(q, c))
  BY PlacesFrame
<1>3. ASSUME NEW e \in fresh[q][c] \cap Late, Wrote(q, c)
      PROVE  e \in rows'[c].marks /\ (Evented(q, c) \/ e \notin log'[c])
  <2>1. e \in rows[c].marks /\ (Evented(q, c) \/ e \notin log[c])
    BY <1>1, <1>3 DEF FlagInv, FlagOf
  <2>2. ASSUME e \in log'[c], e \notin log[c]
        PROVE  FALSE
    <3>1. c \in EventsIn(p, k) /\ e \in fresh[p][c]
      BY <2>2, CommitTables
    <3>2. CASE c \in RowsIn(p, k)
      BY <2>1, <3>1, <3>2, CommitFlags
    <3>3. CASE Wrote(p, c)
      BY <1>1, <1>3, <3>1, <3>3 DEF FlagInv
    <3> QED  BY <3>1, <3>2, <3>3, RowFirst
  <2> QED  BY <1>1, <2>1, <2>2
<1> QED  BY <1>2, <1>3 DEF FlagOf

\* A batch that is not the last.
LEMMA BatchFlags ==
  ASSUME Base, FlagInv, NEW p \in Processes, Batch(p)
  PROVE  FlagInv'
<1>1. done[p] \in Nat /\ Size(p) \in Nat /\ done \in [Processes -> Nat]
  BY Places DEF Base, TypeOK
<1>2. PICK k \in done[p] + 1..Size(p) - 1 : Commit(p, k) /\ done' = [done EXCEPT ![p] = k]
  BY DEF Batch
<1>3. k \in Nat /\ pc[p] \in Saving /\ UNCHANGED <<next, fresh>> /\ k >= done[p]
  BY <1>1, <1>2 DEF Batch
<1>4. done'[p] = k /\ \A q \in Processes \ {p} : done'[q] = done[q]
  BY <1>1, <1>2
<1>5. /\ \A e \in repeated' : e[1] \in lost'
      /\ \A c \in Complaints \ lost' : log'[c] \cap Late \subseteq rows'[c].marks
  BY <1>2, <1>3, CommitLog
<1>6. ASSUME NEW c \in Complaints
      PROVE  /\ Wrote(p, c)' <=> Wrote(p, c) \/ c \in RowsIn(p, k)
             /\ Evented(p, c)' <=> Evented(p, c) \/ c \in EventsIn(p, k)
  <2>1. /\ Wrote(p, c)' <=> c \in Made(next[p]) /\ RowAt(p, c) <= k
        /\ Evented(p, c)' <=> c \in Made(next[p]) /\ EventsAt(p, c) <= k
    BY <1>3, <1>4 DEF Wrote, Evented, RowAt, EventsAt, Count, Made
  <2>2. c \in Made(next[p]) => RowAt(p, c) \in Nat /\ EventsAt(p, c) = RowAt(p, c) + 1
    BY <1>3, InBatch
  <2> QED  BY <1>1, <1>3, <2>1, <2>2, InBatch DEF Wrote, Evented
<1>7. ASSUME NEW c \in Complaints \ lost'
      PROVE  FlagOf(p, c)'
  <2>1. c \notin lost /\ rows[c].marks \cap Late \subseteq rows'[c].marks
    BY <1>2, <1>3, CommitFlags
  <2>2. ASSUME NEW e \in fresh[p][c] \cap Late, Wrote(p, c)', ~Evented(p, c)'
        PROVE  e \notin log'[c]
    <3>1. c \notin EventsIn(p, k) /\ ~Evented(p, c) /\ log'[c] = log[c]
      BY <1>2, <1>3, <1>6, <2>2, CommitTables
    <3>2. CASE c \in RowsIn(p, k)
      BY <1>2, <1>3, <2>2, <3>1, <3>2, CommitFlags
    <3>3. CASE Wrote(p, c)
      BY <2>1, <2>2, <3>1, <3>3 DEF FlagInv, FlagOf
    <3> QED  BY <1>6, <2>2, <3>2, <3>3
  <2>3. ASSUME NEW e \in fresh[p][c] \cap Late, Wrote(p, c)'
        PROVE  e \in rows'[c].marks
    <3>1. CASE c \in RowsIn(p, k)
      BY <1>2, <1>3, <2>3, <3>1, CommitFlags
    <3>2. CASE Wrote(p, c)
      BY <2>1, <2>3, <3>2 DEF FlagInv, FlagOf
    <3> QED  BY <1>6, <2>3, <3>1, <3>2
  <2> QED  BY <1>3, <2>2, <2>3 DEF FlagOf
<1>8. ASSUME NEW c \in Complaints \ lost', NEW q \in Processes, q # p
      PROVE  FlagOf(q, c)'
  BY <1>2, <1>3, <1>4, <1>8, FlagFrame
<1>9. ASSUME NEW c \in Complaints \ lost', NEW q \in Processes, q # p, Wrote(p, c)', Wrote(q, c)'
      PROVE  fresh[p][c] \cap fresh[q][c] \cap Late = {}
  <2>1. c \notin lost /\ Wrote(q, c)
    BY <1>2, <1>3, <1>4, <1>9, CommitFlags, PlacesFrame
  <2>2. CASE Wrote(p, c)
    BY <1>9, <2>1, <2>2 DEF FlagInv
  <2>3. CASE c \in RowsIn(p, k)
    <3>1. fresh[p][c] \cap Late \cap rows[c].marks = {}
      BY <1>2, <1>3, <2>3, CommitFlags
    <3>2. fresh[q][c] \cap Late \subseteq rows[c].marks
      BY <2>1 DEF FlagInv, FlagOf
    <3> QED  BY <3>1, <3>2
  <2> QED  BY <1>6, <1>9, <2>2, <2>3
<1>10. ASSUME NEW c \in Complaints \ lost', NEW x \in Processes, NEW y \in Processes, x # y,
              Wrote(x, c)', Wrote(y, c)'
       PROVE  fresh'[x][c] \cap fresh'[y][c] \cap Late = {}
  <2>1. CASE x = p \/ y = p
    BY <1>3, <1>9, <1>10, <2>1
  <2>2. CASE x # p /\ y # p
    <3>1. c \notin lost /\ Wrote(x, c) /\ Wrote(y, c)
      BY <1>2, <1>3, <1>4, <1>10, <2>2, CommitFlags, PlacesFrame
    <3> QED  BY <1>3, <1>10, <3>1 DEF FlagInv
  <2> QED  BY <2>1, <2>2
<1> QED  BY <1>5, <1>7, <1>8, <1>10 DEF FlagInv

\* A step that leaves the tables, and takes a process's events or its statements.
LEMMA QuietFlags ==
  ASSUME Base, FlagInv, UNCHANGED <<rows, log, repeated, lost>>, NEW p \in Processes,
         \A q \in Processes \ {p} : UNCHANGED <<next[q], fresh[q], done[q]>>,
         \A c \in Complaints : fresh'[p][c] = {} \/ ~Wrote(p, c)'
  PROVE  FlagInv'
<1>1. \A c \in Complaints, q \in Processes \ {p} :
        (Wrote(q, c)' <=> Wrote(q, c)) /\ (Evented(q, c)' <=> Evented(q, c))
  BY PlacesFrame
<1>2. \A c \in Complaints \ lost, q \in Processes : FlagOf(q, c)'
  BY <1>1 DEF FlagInv, FlagOf
<1>3. ASSUME NEW c \in Complaints \ lost, NEW x \in Processes, NEW y \in Processes, x # y,
             Wrote(x, c)', Wrote(y, c)'
      PROVE  fresh'[x][c] \cap fresh'[y][c] \cap Late = {}
  BY <1>1, <1>3 DEF FlagInv
<1> QED  BY <1>2, <1>3 DEF FlagInv

\* A last batch: its process is done with its events.
LEMMA LastFlags ==
  ASSUME Base, FlagInv, NEW p \in Processes, LastBatch(p)
  PROVE  FlagInv'
<1> DEFINE k == Size(p)
<1>1. k \in Nat /\ Commit(p, k) /\ pc[p] \in Saving
  BY Places DEF Base, LastBatch
<1> HIDE DEF k
<1>2. /\ \A q \in Processes \ {p} : UNCHANGED <<next[q], fresh[q], done[q]>>
      /\ \A c \in Complaints : fresh'[p][c] = {}
  BY LastLocals DEF Base, TypeOK, NoEvents
<1>3. /\ \A e \in repeated' : e[1] \in lost'
      /\ \A c \in Complaints \ lost' : log'[c] \cap Late \subseteq rows'[c].marks
  BY <1>1, CommitLog
<1>4. ASSUME NEW c \in Complaints \ lost', NEW q \in Processes
      PROVE  FlagOf(q, c)'
  <2>1. CASE q = p
    BY <1>2, <2>1 DEF FlagOf
  <2>2. CASE q # p
    BY <1>1, <1>2, <2>2, FlagFrame
  <2> QED  BY <2>1, <2>2
<1>5. ASSUME NEW c \in Complaints \ lost', NEW x \in Processes, NEW y \in Processes, x # y,
             Wrote(x, c)', Wrote(y, c)'
      PROVE  fresh'[x][c] \cap fresh'[y][c] \cap Late = {}
  <2>1. CASE x = p \/ y = p
    BY <1>2, <2>1
  <2>2. CASE x # p /\ y # p
    <3>1. c \notin lost /\ Wrote(x, c) /\ Wrote(y, c)
      BY <1>1, <1>2, <1>5, <2>2, CommitFlags, PlacesFrame
    <3> QED  BY <1>2, <1>5, <2>2, <3>1 DEF FlagInv
  <2> QED  BY <2>1, <2>2
<1> QED  BY <1>3, <1>4, <1>5 DEF FlagInv

\* Every step keeps the flags.
LEMMA FlagStep ==
  ASSUME Base, FlagInv, Next
  PROVE  FlagInv'
<1> USE DEF tables, locals, bounds
<1>1. CASE \E p \in Processes, label \in Saving : \E table, events : Load(p, label, table, events)
  <2>1. PICK p \in Processes, label \in Saving : \E table, events : Load(p, label, table, events)
    BY <1>1
  <2>2. /\ UNCHANGED <<rows, log, repeated, lost>> /\ done'[p] = 0
        /\ \A q \in Processes \ {p} : UNCHANGED <<next[q], fresh[q], done[q]>>
    BY <2>1, LoadLocals
  <2>3. PICK m \in Nat : Made(next'[p]) = 1..m
    BY BaseStep DEF Base, PrefixInv, Made
  <2>4. ASSUME NEW c \in Complaints, Wrote(p, c)'
        PROVE  FALSE
    <3>1. Count(next'[p]) = m /\ c \in 1..m
      BY <2>3, <2>4, CountPrefix DEF Wrote, Made
    <3>2. 2 * (m - c) + 1 > 0
      BY <3>1
    <3> QED  BY <2>2, <2>4, <3>1, <3>2 DEF Wrote, RowAt, Count
  <2> QED  BY <2>2, <2>4, QuietFlags
<1>2. CASE Escalate
  <2>1. Job \in Processes /\ fresh'[Job] = NoEvents
    BY <1>2 DEF Escalate, Processes, Base, LocalInv
  <2> QED  BY <1>2, <2>1, QuietFlags DEF Escalate, NoEvents
<1>3. ASSUME NEW p \in Processes, Fail(p)
      PROVE  FlagInv'
  <2>1. /\ UNCHANGED <<rows, log, repeated, lost>> /\ fresh'[p] = NoEvents
        /\ \A q \in Processes \ {p} : UNCHANGED <<next[q], fresh[q], done[q]>>
    BY <1>3 DEF Fail, Forget, Base, TypeOK
  <2> QED  BY <2>1, QuietFlags DEF NoEvents
<1>4. CASE Tick
  BY <1>4 DEF Tick, FlagInv, FlagOf, Wrote, Evented, RowAt, EventsAt, Count, Made
<1> QED  BY <1>1, <1>2, <1>3, <1>4, BatchFlags, LastFlags, StepKinds

\* A missed deadline is alerted once, unless its flag was overwritten unread.
THEOREM AlertsOnce == Spec => []AlertedOnce
<1>1. Init => FlagInv
  <2>1. ASSUME Init
        PROVE  FlagInv
    <3>1. /\ repeated = {} /\ \A c \in Complaints : log[c] = rows[c].marks
          /\ \A p \in Processes, c \in Complaints : fresh[p][c] = {}
      BY <2>1 DEF Init
    <3> QED  BY <3>1 DEF FlagInv, FlagOf
  <2> QED  BY <2>1
<1>2. ASSUME Base, FlagInv, [Next]_vars
      PROVE  FlagInv'
  <2>1. CASE UNCHANGED vars
    BY <1>2, <2>1 DEF vars, tables, locals, bounds, FlagInv, FlagOf, Wrote, Evented, RowAt, EventsAt,
                      Count, Made
  <2> QED  BY <1>2, <2>1, FlagStep
<1>3. FlagInv => AlertedOnce
  BY DEF FlagInv, AlertedOnce
<1> QED  BY <1>1, <1>2, <1>3, DeskInvariant, PTL DEF Spec
=============================================================================
