--------------------------- MODULE MailRowsProofs ---------------------------
(***************************************************************************)
(* What MailIntake promises if invocations do not overlap between a read   *)
(* of complaints and its write-back: the case id decides, follow_ups keep  *)
(* what was quoted, and the acknowledgment sees MailRows.  For every set   *)
(* of Workers and Messages, every mailbox and every bound.                 *)
(***************************************************************************)
EXTENDS MailIntakeProofs

-----------------------------------------------------------------------------
\* The inductive invariants

\* The complaint an invocation is about to write for is of its message's case;
\* one that will write a snapshot back has all the rows there are.
Decides(w) ==
  /\ pc[w] = "persistCase" => Len(snapshot[w]) = Len(complaints)
  /\ pc[w] = "markCase" => CaseOf[msg[w]] # NoCase
  /\ \/ pc[w] \in {"readFollowUps", "attachFollowUp", "markCase"}
     \/ pc[w] = "commitEvent" /\ outcome[w] \in CaseEvents
     => (CaseOf[msg[w]] # NoCase => complaints[target[w]].case = CaseOf[msg[w]])

\* What the rows of a message say.  Mail without a case id is a follow-up at most.
RowDecides(m) ==
  /\ legacy[m].complaint # 0 => legacy[m].complaint \in DOMAIN complaints
  /\ legacy[m].complaint # 0 /\ ~legacy[m].followUp => CaseOf[m] # NoCase
  /\ CaseOf[m] # NoCase =>
       /\ links[m].role # "NONE" => complaints[links[m].complaint].case = CaseOf[m]
       /\ legacy[m].complaint # 0 => complaints[legacy[m].complaint].case = CaseOf[m]

DecidedInv ==
  /\ \A w \in Workers : Decides(w)
  /\ \A m \in Messages : RowDecides(m)

-----------------------------------------------------------------------------
\* The list of complaints

\* Complaints are written by the batch of a follow-up and by persistState only.
LEMMA Writers ==
  [Next]_vars => \/ UNCHANGED complaints
                 \/ \E w \in Workers : AttachFollowUp(w) \/ PersistCase(w)
<1>1. ASSUME NEW w \in Workers, Proceed(w)
      PROVE  UNCHANGED complaints \/ AttachFollowUp(w) \/ PersistCase(w)
  BY <1>1 DEF Proceed, tables, Inspect, ReadLegacy, InsertLegacy, UpdateLegacy, ReadAttempts,
              ClaimLease, InsertRun, MarkIgnored, ResolveIdentity, ReadFollowUps,
              LoadState, MarkCase, MarkReview, CommitEvent, MarkFailed, Finish
<1>2. ASSUME NEW w \in Workers, StatementFails(w) \/ Die(w)
      PROVE  UNCHANGED complaints
  BY <1>2 DEF StatementFails, Die, tables
<1>3. ASSUME NEW m \in Messages, LeaseExpires(m) \/ \E w \in Workers : Deliver(w, m)
      PROVE  UNCHANGED complaints
  BY <1>3 DEF LeaseExpires, Deliver
<1>4. UNCHANGED vars => UNCHANGED complaints
  BY DEF vars, tables
<1> QED
  BY <1>1, <1>2, <1>3, <1>4 DEF Next

\* A follow-up changes neither how many complaints there are nor their cases.
LEMMA AttachKeepsCases ==
  ASSUME TypeInv, NEW w \in Workers, AttachFollowUp(w)
  PROVE  /\ Len(complaints') = Len(complaints)
         /\ \A c \in 1..Len(complaints) : complaints'[c].case = complaints[c].case
         /\ target[w] \in 1..Len(complaints)
         /\ complaints'[target[w]].followUps = Appended(read[w], msg[w])
         /\ \A c \in 1..Len(complaints) : c # target[w] => complaints'[c] = complaints[c]
<1> DEFINE row == [complaints[target[w]] EXCEPT !.followUps = Appended(read[w], msg[w])]
<1>1. /\ complaints \in Seq(ComplaintRow)
      /\ target[w] \in DOMAIN complaints
      /\ complaints' = [complaints EXCEPT ![target[w]] = row]
  BY DEF AttachFollowUp, TypeInv, TypeOK, LocalsOK
<1>2. complaints[target[w]] \in ComplaintRow
  BY <1>1
<1>3. row.case = complaints[target[w]].case /\ row.followUps = Appended(read[w], msg[w])
  BY <1>2 DEF ComplaintRow
<1>4. /\ Len(complaints') = Len(complaints)
      /\ target[w] \in 1..Len(complaints)
      /\ \A c \in 1..Len(complaints) :
           complaints'[c] = IF c = target[w] THEN row ELSE complaints[c]
  BY <1>1
<1> QED
  BY <1>3, <1>4

\* No complaint is ever removed, and none changes its case.
LEMMA CasesKept ==
  ASSUME TypeInv, TypeInv', [Next]_vars
  PROVE  /\ Len(complaints) <= Len(complaints')
         /\ \A c \in 1..Len(complaints) : complaints'[c].case = complaints[c].case
<1>1. complaints \in Seq(ComplaintRow) /\ complaints' \in Seq(ComplaintRow)
  BY DEF TypeInv, TypeOK
<1>2. CASE UNCHANGED complaints
  BY <1>1, <1>2
<1>3. ASSUME NEW w \in Workers, AttachFollowUp(w)
      PROVE  /\ Len(complaints) <= Len(complaints')
             /\ \A c \in 1..Len(complaints) : complaints'[c].case = complaints[c].case
  BY <1>1, <1>3, AttachKeepsCases
<1>4. ASSUME NEW w \in Workers, PersistCase(w)
      PROVE  /\ Len(complaints) <= Len(complaints')
             /\ \A c \in 1..Len(complaints) : complaints'[c].case = complaints[c].case
  <2>1. /\ msg[w] \in Messages /\ CaseOf[msg[w]] \in Cases
        /\ snapshot[w] \in Seq(ComplaintRow)
        /\ complaints' = Upserted(complaints, Created(snapshot[w], msg[w]))
    BY <1>4 DEF PersistCase, TypeInv, TypeOK, LocalsOK
  <2>2. Created(snapshot[w], msg[w]) \in Seq(ComplaintRow)
    BY <2>1, CreatedType
  <2> DEFINE rows == Created(snapshot[w], msg[w])
  <2>3. Len(complaints) <= Len(Upserted(complaints, rows))
    BY <1>1, <2>2, UpsertedType
  <2>4. \A c \in 1..Len(complaints) : Upserted(complaints, rows)[c].case = complaints[c].case
    BY <1>1, <2>2, UpsertedCases
  <2> QED
    BY <2>1, <2>3, <2>4
<1> QED
  BY <1>2, <1>3, <1>4, Writers

\* The complaint createComplaint returns is of the case of the message.
LEMMA CreatedIdCase ==
  ASSUME NEW m \in Messages, CaseOf[m] \in Cases, NEW rows \in Seq(ComplaintRow)
  PROVE  /\ CreatedId(rows, m) \in 1..(Len(rows) + 1)
         /\ Created(rows, m)[CreatedId(rows, m)].case = CaseOf[m]
<1>1. CASE CaseMatches(rows, m) # {}
  <2>1. CreatedId(rows, m) \in CaseMatches(rows, m)
    BY <1>1 DEF CreatedId
  <2>2. CreatedId(rows, m) \in 1..Len(rows) /\ rows[CreatedId(rows, m)].case = CaseOf[m]
    BY <2>1 DEF CaseMatches
  <2> QED
    BY <2>2, CreatedCases
<1>2. CASE CaseMatches(rows, m) = {}
  <2>1. /\ CreatedId(rows, m) = Len(rows) + 1
        /\ Created(rows, m) = Append(rows, [case |-> CaseOf[m], followUps |-> NoFollowUps])
    BY <1>2 DEF CreatedId, Created
  <2> QED
    BY <2>1
<1> QED
  BY <1>1, <1>2

\* persistState of a snapshot that has all the rows there are leaves, at the place
\* createComplaint gave it, a complaint of the message's case.
LEMMA PersistDecides ==
  ASSUME TypeInv, TypeInv', CaseInv, NEW w \in Workers, PersistCase(w), Decides(w)
  PROVE  complaints'[target'[w]].case = CaseOf[msg[w]]
<1> DEFINE old == snapshot[w]
           rows == Created(old, msg[w])
           id == CreatedId(old, msg[w])
<1>1. /\ complaints \in Seq(ComplaintRow) /\ old \in Seq(ComplaintRow)
      /\ msg[w] \in Messages /\ CaseOf[msg[w]] \in Cases
      /\ complaints' = Upserted(complaints, rows)
      /\ target'[w] = id
  BY DEF PersistCase, TypeInv, TypeOK, LocalsOK
<1>2. rows \in Seq(ComplaintRow) /\ id \in 1..Len(rows)
  BY <1>1, CreatedType
<1>3. /\ Len(old) = Len(complaints)
      /\ \A c \in 1..Len(old) : old[c].case = complaints[c].case
  BY DEF PersistCase, Decides, CaseInv, SnapshotIsPrefix
<1>4. id \in 1..(Len(old) + 1) /\ rows[id].case = CaseOf[msg[w]]
  BY <1>1, CreatedIdCase
<1>5. /\ \A c \in 1..Len(complaints) : complaints'[c].case = complaints[c].case
      /\ \A c \in 1..Len(rows) : c > Len(complaints) => complaints'[c] = rows[c]
  BY <1>1, <1>2, UpsertedCases
<1>6. \A c \in 1..Len(old) : rows[c].case = old[c].case
  BY <1>1, CreatedCases
<1>7. CASE id \in 1..Len(old)
  BY <1>1, <1>3, <1>4, <1>5, <1>6, <1>7
<1>8. CASE id = Len(old) + 1
  BY <1>1, <1>2, <1>3, <1>4, <1>5, <1>8
<1> QED
  BY <1>1, <1>4, <1>7, <1>8
-----------------------------------------------------------------------------
\* What a step of one invocation leaves alone

StepOf(w) ==
  \/ Proceed(w) \/ StatementFails(w) \/ Die(w)
  \/ \E m \in Messages : Deliver(w, m)

\* The locals of the other invocations.
LEMMA OthersKept ==
  ASSUME TypeInv, NEW w \in Workers, StepOf(w), NEW v \in Workers \ {w}
  PROVE  /\ pc'[v] = pc[v]
         /\ msg'[v] = msg[v]
         /\ target'[v] = target[v]
         /\ read'[v] = read[v]
         /\ snapshot'[v] = snapshot[v]
         /\ outcome'[v] = outcome[v]
<1>1. /\ pc \in [Workers -> Holding \cup {"idle", "inspect", "readLegacy", "insertLegacy",
                                           "updateLegacy", "readAttempts", "claimLease"}]
      /\ msg \in [Workers -> Messages \cup {NoMessage}]
      /\ target \in [Workers -> Nat]
      /\ read \in [Workers -> FollowUps]
      /\ snapshot \in [Workers -> Seq(ComplaintRow)]
      /\ outcome \in [Workers -> Outcomes \cup {"NONE", "FAILED"}]
  BY DEF TypeInv, TypeOK
<1>2. CASE Inspect(w) \/ InsertLegacy(w) \/ ClaimLease(w) \/ Finish(w) \/ Die(w)
  BY <1>1, <1>2 DEF Inspect, InsertLegacy, ClaimLease, Finish, Die, Return, Goto
<1>3. CASE \/ ReadLegacy(w) \/ UpdateLegacy(w) \/ ReadAttempts(w) \/ InsertRun(w)
           \/ MarkIgnored(w) \/ ResolveIdentity(w) \/ ReadFollowUps(w) \/ AttachFollowUp(w)
  BY <1>1, <1>3 DEF ReadLegacy, UpdateLegacy, ReadAttempts, InsertRun, MarkIgnored,
                    ResolveIdentity, ReadFollowUps, AttachFollowUp, Goto
<1>4. CASE \/ LoadState(w) \/ PersistCase(w) \/ MarkCase(w) \/ MarkReview(w)
           \/ CommitEvent(w) \/ MarkFailed(w)
  BY <1>1, <1>4 DEF LoadState, PersistCase, MarkCase, MarkReview, CommitEvent, MarkFailed, Goto
<1>5. CASE StatementFails(w) \/ \E m \in Messages : Deliver(w, m)
  BY <1>1, <1>5 DEF StatementFails, Deliver, Goto
<1> QED
  BY <1>2, <1>3, <1>4, <1>5 DEF StepOf, Proceed

\* The statements that write the status of a row leave what it says of complaints.
LEMMA StatusOnly ==
  ASSUME TypeInv, NEW w \in Workers,
         InsertLegacy(w) \/ UpdateLegacy(w) \/ MarkIgnored(w) \/ MarkReview(w) \/ MarkFailed(w)
  PROVE  \A m \in Messages : /\ legacy'[m].complaint = legacy[m].complaint
                             /\ legacy'[m].followUp = legacy[m].followUp
<1>1. legacy \in [Messages -> LegacyRow] /\ msg[w] \in Messages
  BY DEF TypeInv, TypeOK, LocalsOK, InsertLegacy, UpdateLegacy, MarkIgnored, MarkReview, MarkFailed
<1>2. ASSUME NEW status,
             legacy' = [legacy EXCEPT ![msg[w]].status = status]
      PROVE  \A m \in Messages : /\ legacy'[m].complaint = legacy[m].complaint
                                /\ legacy'[m].followUp = legacy[m].followUp
  <2> DEFINE row == [legacy[msg[w]] EXCEPT !.status = status]
  <2>1. row.complaint = legacy[msg[w]].complaint /\ row.followUp = legacy[msg[w]].followUp
    BY <1>1 DEF LegacyRow
  <2>2. \A m \in Messages : legacy'[m] = IF m = msg[w] THEN row ELSE legacy[m]
    BY <1>1, <1>2
  <2> QED
    BY <2>1, <2>2
<1>3. CASE UNCHANGED legacy
  BY <1>3
<1>4. CASE InsertLegacy(w) \/ UpdateLegacy(w)
  BY <1>2, <1>3, <1>4 DEF InsertLegacy, UpdateLegacy
<1>5. CASE MarkIgnored(w) \/ MarkReview(w) \/ MarkFailed(w)
  BY <1>2, <1>5 DEF MarkIgnored, MarkReview, MarkFailed
<1> QED
  BY <1>4, <1>5

\* What an invocation decided stays decided while others write.
LEMMA DecidesKept ==
  ASSUME TypeInv, TypeInv', [Next]_vars,
         NEW v \in Workers, Decides(v),
         pc'[v] = pc[v], msg'[v] = msg[v], target'[v] = target[v],
         snapshot'[v] = snapshot[v], outcome'[v] = outcome[v],
         Len(complaints') = Len(complaints) \/ pc[v] # "persistCase"
  PROVE  Decides(v)'
<1>1. complaints \in Seq(ComplaintRow) /\ target \in [Workers -> Nat]
  BY DEF TypeInv, TypeOK
<1>2. \/ pc[v] \in {"readFollowUps", "attachFollowUp", "markCase"}
      \/ pc[v] = "commitEvent" /\ outcome[v] \in CaseEvents
      => target[v] \in 1..Len(complaints)
  BY <1>1 DEF TypeInv, LocalsOK
<1>3. \A c \in 1..Len(complaints) : complaints'[c].case = complaints[c].case
  BY CasesKept
<1> QED
  BY <1>2, <1>3 DEF Decides

\* What the rows of a message say stays true while complaints are written.
LEMMA RowKept ==
  ASSUME TypeInv, TypeInv', LedgerInv, [Next]_vars,
         NEW m \in Messages, RowDecides(m),
         legacy'[m].complaint = legacy[m].complaint,
         legacy'[m].followUp = legacy[m].followUp,
         links'[m] = links[m]
  PROVE  RowDecides(m)'
<1>1. complaints \in Seq(ComplaintRow) /\ complaints' \in Seq(ComplaintRow)
  BY DEF TypeInv, TypeOK
<1>2. /\ Len(complaints) <= Len(complaints')
      /\ \A c \in 1..Len(complaints) : complaints'[c].case = complaints[c].case
  BY CasesKept
<1>3. links[m].role # "NONE" => links[m].complaint \in DOMAIN complaints
  BY DEF LedgerInv, LedgerAgrees
<1>4. DOMAIN complaints = 1..Len(complaints) /\ DOMAIN complaints' = 1..Len(complaints')
  BY <1>1
<1>5. \A c \in DOMAIN complaints : c \in DOMAIN complaints' /\ complaints'[c].case = complaints[c].case
  BY <1>1, <1>2, <1>4
<1> QED
  BY <1>3, <1>4, <1>5 DEF RowDecides

-----------------------------------------------------------------------------
\* The case id decides

LEMMA DecidedInit == Init => DecidedInv
  BY DEF Init, DecidedInv, Decides, RowDecides

\* A step that writes neither complaints nor what rows say of them.
LEMMA DecidedByLocals ==
  ASSUME TypeInv, TypeInv', LedgerInv, DecidedInv, [Next]_vars,
         NEW w \in Workers, StepOf(w),
         UNCHANGED <<complaints, links>>,
         \A m \in Messages : /\ legacy'[m].complaint = legacy[m].complaint
                             /\ legacy'[m].followUp = legacy[m].followUp,
         Decides(w)'
  PROVE  DecidedInv'
<1>1. ASSUME NEW v \in Workers \ {w}
      PROVE  Decides(v)'
  BY OthersKept, DecidesKept DEF DecidedInv
<1>2. ASSUME NEW m \in Messages
      PROVE  RowDecides(m)'
  BY RowKept DEF DecidedInv
<1> QED
  BY <1>1, <1>2 DEF DecidedInv

\* One step: identity resolution aims at a complaint of the message's case, and
\* what is aimed at is what the rows are given; persistState finds its snapshot
\* complete, because no other invocation was between its load and its write.
LEMMA DecidedStep ==
  TypeInv /\ TypeInv' /\ LedgerInv /\ LedgerInv' /\ CaseInv /\ LoadsApart /\ DecidedInv /\ [Next]_vars
    => DecidedInv'
<1> SUFFICES ASSUME TypeInv, TypeInv', LedgerInv, LedgerInv', CaseInv, LoadsApart, DecidedInv,
                    [Next]_vars
             PROVE  DecidedInv'
  OBVIOUS
<1> USE MessagesAssumption
<1>t. /\ pc \in [Workers -> Holding \cup {"idle", "inspect", "readLegacy", "insertLegacy",
                                           "updateLegacy", "readAttempts", "claimLease"}]
      /\ legacy \in [Messages -> LegacyRow]
      /\ target \in [Workers -> Nat]
      /\ links \in [Messages -> LinkRow]
      /\ outcome \in [Workers -> Outcomes \cup {"NONE", "FAILED"}]
      /\ snapshot \in [Workers -> Seq(ComplaintRow)]
      /\ \A w \in Workers : pc[w] # "idle" => msg[w] \in Messages
  BY DEF TypeInv, TypeOK, LocalsOK
<1>1. ASSUME NEW w \in Workers, Return(w), StepOf(w), UNCHANGED <<complaints, links>>,
             \A m \in Messages : /\ legacy'[m].complaint = legacy[m].complaint
                                 /\ legacy'[m].followUp = legacy[m].followUp
      PROVE  DecidedInv'
  <2>1. pc'[w] = "idle"
    BY <1>1, <1>t DEF Return, Goto
  <2> QED
    BY <1>1, <2>1, DecidedByLocals DEF Decides
<1>2. ASSUME NEW w \in Workers, NEW m \in Messages, Deliver(w, m)
      PROVE  DecidedInv'
  <2>1. pc'[w] \in {"readLegacy", "inspect"} /\ UNCHANGED <<complaints, links, legacy>>
    BY <1>2, <1>t DEF Deliver, Goto
  <2> QED
    BY <1>2, <2>1, DecidedByLocals DEF Decides, StepOf
<1>3. ASSUME NEW w \in Workers,
             \/ Inspect(w) \/ ReadLegacy(w) \/ ReadAttempts(w) \/ ClaimLease(w) \/ InsertRun(w)
      PROVE  DecidedInv'
  <2>1. /\ \/ Return(w)
           \/ pc'[w] \in {"readLegacy", "insertLegacy", "updateLegacy", "claimLease", "insertRun",
                          "normalize"}
        /\ UNCHANGED <<complaints, links, legacy>>
    BY <1>3, <1>t DEF Inspect, ReadLegacy, ReadAttempts, ClaimLease, InsertRun, Goto, tables
  <2>2. StepOf(w)
    BY <1>3 DEF StepOf, Proceed
  <2> QED
    BY <1>1, <2>1, <2>2, DecidedByLocals DEF Decides
<1>4. ASSUME NEW w \in Workers,
             InsertLegacy(w) \/ UpdateLegacy(w) \/ MarkIgnored(w) \/ MarkReview(w) \/ MarkFailed(w)
      PROVE  DecidedInv'
  <2>2. \A m \in Messages : /\ legacy'[m].complaint = legacy[m].complaint
                            /\ legacy'[m].followUp = legacy[m].followUp
    BY <1>4, StatusOnly
  <2>3. /\ \/ Return(w)
           \/ pc'[w] \in {"readAttempts", "finish"}
           \/ pc'[w] = "commitEvent" /\ outcome'[w] \notin CaseEvents
        /\ UNCHANGED <<complaints, links>>
    BY <1>4, <1>t DEF InsertLegacy, UpdateLegacy, MarkIgnored, MarkReview, MarkFailed, Goto, CaseEvents
  <2>4. StepOf(w)
    BY <1>4 DEF StepOf, Proceed
  <2> QED
    BY <1>1, <2>2, <2>3, <2>4, DecidedByLocals DEF Decides
<1>5. ASSUME NEW w \in Workers, ResolveIdentity(w)
      PROVE  DecidedInv'
  <2>1. /\ UNCHANGED <<complaints, links, legacy, msg>>
        /\ StepOf(w)
    BY <1>5 DEF ResolveIdentity, tables, StepOf, Proceed
  <2>2. CASE pc'[w] \in {"loadState", "markReview"}
    BY <2>1, <2>2, DecidedByLocals DEF Decides
  <2>3. CASE \E c \in DOMAIN complaints :
               /\ KnownComplaint(msg[w], c)
               /\ target' = [target EXCEPT ![w] = c]
               /\ Goto(w, "readFollowUps")
    <3>1. PICK c \in DOMAIN complaints :
            /\ KnownComplaint(msg[w], c)
            /\ target' = [target EXCEPT ![w] = c]
            /\ Goto(w, "readFollowUps")
      BY <2>3
    <3>2. pc'[w] = "readFollowUps" /\ target'[w] = c
      BY <1>t, <3>1 DEF Goto
    <3>3. CaseOf[msg[w]] # NoCase => complaints[c].case = CaseOf[msg[w]]
      BY <3>1 DEF KnownComplaint, CaseMatches
    <3>4. Decides(w)'
      BY <2>1, <3>2, <3>3 DEF Decides
    <3> QED
      BY <2>1, <3>4, DecidedByLocals
  <2>4. \/ pc'[w] \in {"loadState", "markReview"}
        \/ \E c \in DOMAIN complaints :
              /\ KnownComplaint(msg[w], c)
              /\ target' = [target EXCEPT ![w] = c]
              /\ Goto(w, "readFollowUps")
    BY <1>5, <1>t DEF ResolveIdentity, Goto
  <2> QED
    BY <2>2, <2>3, <2>4
<1>6. ASSUME NEW w \in Workers, ReadFollowUps(w)
      PROVE  DecidedInv'
  <2>1. /\ pc[w] = "readFollowUps" /\ pc'[w] = "attachFollowUp"
        /\ UNCHANGED <<complaints, links, legacy, msg, target>>
        /\ StepOf(w)
    BY <1>6, <1>t DEF ReadFollowUps, tables, Goto, StepOf, Proceed
  <2>2. Decides(w)'
    BY <2>1 DEF DecidedInv, Decides
  <2> QED
    BY <2>1, <2>2, DecidedByLocals
<1>7. ASSUME NEW w \in Workers, AttachFollowUp(w)
      PROVE  DecidedInv'
  <2> DEFINE row == [status |-> "FOLLOW_UP", complaint |-> target[w], followUp |-> TRUE]
  <2>1. /\ pc[w] = "attachFollowUp" /\ pc'[w] = "commitEvent"
        /\ legacy' = [legacy EXCEPT ![msg[w]] = row]
        /\ UNCHANGED <<links, msg, target, snapshot>>
        /\ StepOf(w)
    BY <1>7, <1>t DEF AttachFollowUp, Goto, StepOf, Proceed
  <2>2. /\ Len(complaints') = Len(complaints)
        /\ \A c \in 1..Len(complaints) : complaints'[c].case = complaints[c].case
        /\ target[w] \in 1..Len(complaints)
    BY <1>7, AttachKeepsCases
  <2>3. CaseOf[msg[w]] # NoCase => complaints'[target[w]].case = CaseOf[msg[w]]
    BY <2>1, <2>2 DEF DecidedInv, Decides
  <2>4. Decides(w)'
    BY <2>1, <2>3 DEF Decides
  <2>5. ASSUME NEW v \in Workers \ {w}
        PROVE  Decides(v)'
    BY <2>1, <2>2, OthersKept, DecidesKept DEF DecidedInv
  <2>6. ASSUME NEW m \in Messages
        PROVE  RowDecides(m)'
    <3>1. CASE m # msg[w]
      <4>1. legacy'[m] = legacy[m]
        BY <1>t, <2>1, <3>1
      <4> QED
        BY <2>1, <4>1, RowKept DEF DecidedInv
    <3>2. CASE m = msg[w]
      <4>1. legacy'[m] = row
        BY <1>t, <2>1, <3>2
      <4>2. target[w] \in DOMAIN complaints'
        BY <2>2 DEF TypeInv, TypeOK
      <4>3. CaseOf[m] # NoCase /\ links'[m].role # "NONE" =>
              complaints'[links'[m].complaint].case = CaseOf[m]
        <5>1. links[m].role # "NONE" => links[m].complaint \in DOMAIN complaints
          BY DEF LedgerInv, LedgerAgrees
        <5>2. DOMAIN complaints = 1..Len(complaints)
          BY DEF TypeInv, TypeOK
        <5>3. CaseOf[m] # NoCase /\ links[m].role # "NONE" =>
                complaints[links[m].complaint].case = CaseOf[m]
          BY DEF DecidedInv, RowDecides
        <5> QED
          BY <2>1, <2>2, <5>1, <5>2, <5>3
      <4> QED
        BY <2>3, <3>2, <4>1, <4>2, <4>3 DEF RowDecides
    <3> QED
      BY <3>1, <3>2
  <2> QED
    BY <2>4, <2>5, <2>6 DEF DecidedInv
<1>8. ASSUME NEW w \in Workers, LoadState(w)
      PROVE  DecidedInv'
  <2>1. /\ pc'[w] = "persistCase" /\ snapshot'[w] = complaints
        /\ UNCHANGED <<complaints, links, legacy>>
        /\ StepOf(w)
    BY <1>8, <1>t DEF LoadState, tables, Goto, StepOf, Proceed
  <2>2. Decides(w)'
    BY <2>1 DEF Decides
  <2> QED
    BY <2>1, <2>2, DecidedByLocals
<1>9. ASSUME NEW w \in Workers, PersistCase(w)
      PROVE  DecidedInv'
  <2>1. /\ pc[w] = "persistCase" /\ pc'[w] = "markCase"
        /\ UNCHANGED <<links, legacy, msg>>
        /\ StepOf(w)
    BY <1>9, <1>t DEF PersistCase, Goto, StepOf, Proceed
  <2>2. CaseOf[msg[w]] # NoCase
    BY <2>1 DEF TypeInv, LocalsOK
  <2>3. complaints'[target'[w]].case = CaseOf[msg[w]]
    BY <1>9, PersistDecides DEF DecidedInv
  <2>4. Decides(w)'
    BY <2>1, <2>2, <2>3 DEF Decides
  <2>5. ASSUME NEW v \in Workers \ {w}
        PROVE  Decides(v)'
    <3>1. pc[v] # "persistCase"
      BY <2>1 DEF LoadsApart
    <3> QED
      BY <2>1, <3>1, OthersKept, DecidesKept DEF DecidedInv
  <2>6. ASSUME NEW m \in Messages
        PROVE  RowDecides(m)'
    BY <2>1, RowKept DEF DecidedInv
  <2> QED
    BY <2>4, <2>5, <2>6 DEF DecidedInv
<1>10. ASSUME NEW w \in Workers, MarkCase(w)
      PROVE  DecidedInv'
  <2> DEFINE row == [legacy[msg[w]] EXCEPT !.status = "PROCESSED", !.complaint = target[w]]
  <2>1. /\ pc[w] = "markCase" /\ pc'[w] = "commitEvent"
        /\ legacy' = [legacy EXCEPT ![msg[w]] = row]
        /\ UNCHANGED <<complaints, links, msg, target, snapshot>>
        /\ StepOf(w)
    BY <1>10, <1>t DEF MarkCase, Goto, StepOf, Proceed
  <2>2. /\ CaseOf[msg[w]] # NoCase
        /\ complaints[target[w]].case = CaseOf[msg[w]]
        /\ target[w] \in DOMAIN complaints
    BY <2>1 DEF DecidedInv, Decides, TypeInv, LocalsOK
  <2>3. Decides(w)'
    BY <2>1, <2>2 DEF Decides
  <2>4. ASSUME NEW v \in Workers \ {w}
        PROVE  Decides(v)'
    BY <2>1, OthersKept, DecidesKept DEF DecidedInv
  <2>5. ASSUME NEW m \in Messages
        PROVE  RowDecides(m)'
    <3>1. CASE m # msg[w]
      <4>1. legacy'[m] = legacy[m]
        BY <1>t, <2>1, <3>1
      <4> QED
        BY <2>1, <4>1, RowKept DEF DecidedInv
    <3>2. CASE m = msg[w]
      <4>1. legacy'[m].complaint = target[w]
        BY <1>t, <2>1, <3>2 DEF LegacyRow
      <4> QED
        BY <2>1, <2>2, <3>2, <4>1 DEF RowDecides, DecidedInv
    <3> QED
      BY <3>1, <3>2
  <2> QED
    BY <2>3, <2>4, <2>5 DEF DecidedInv
<1>11. ASSUME NEW w \in Workers, CommitEvent(w)
      PROVE  DecidedInv'
  <2>1. /\ pc[w] = "commitEvent" /\ pc'[w] \in {"finish", "markFailed"}
        /\ links' = links \/ links' = [links EXCEPT ![msg[w]] = LinkStored(w)]
        /\ UNCHANGED <<complaints, legacy, msg, target, outcome, snapshot>>
        /\ StepOf(w)
    BY <1>11, <1>t DEF CommitEvent, Goto, StepOf, Proceed
  <2>2. Decides(w)'
    BY <2>1 DEF Decides
  <2>3. ASSUME NEW v \in Workers \ {w}
        PROVE  Decides(v)'
    BY <2>1, OthersKept, DecidesKept DEF DecidedInv
  <2>4. ASSUME NEW m \in Messages
        PROVE  RowDecides(m)'
    <3>1. CASE links'[m] = links[m]
      BY <2>1, <3>1, RowKept DEF DecidedInv
    <3>2. CASE links'[m] # links[m]
      <4>1. /\ m = msg[w]
            /\ links'[m] = LinkStored(w)
            /\ LinkStored(w) # links[m]
        BY <1>t, <2>1, <3>2
      <4>2. outcome[w] \in CaseEvents /\ links'[m].complaint = target[w]
        BY <4>1 DEF LinkStored
      <4>3. CaseOf[m] # NoCase => complaints[target[w]].case = CaseOf[m]
        BY <2>1, <4>1, <4>2 DEF DecidedInv, Decides
      <4> QED
        BY <2>1, <4>2, <4>3 DEF DecidedInv, RowDecides
    <3> QED
      BY <3>1, <3>2
  <2> QED
    BY <2>2, <2>3, <2>4 DEF DecidedInv
<1>12. ASSUME NEW w \in Workers, Finish(w) \/ Die(w)
      PROVE  DecidedInv'
  <2>1. Return(w) /\ UNCHANGED <<complaints, links, legacy>> /\ StepOf(w)
    BY <1>12 DEF Finish, Die, tables, StepOf, Proceed
  <2> QED
    BY <1>1, <2>1
<1>13. ASSUME NEW w \in Workers, StatementFails(w)
      PROVE  DecidedInv'
  <2>1. pc'[w] = "markFailed" /\ UNCHANGED <<complaints, links, legacy>> /\ StepOf(w)
    BY <1>13, <1>t DEF StatementFails, Goto, tables, StepOf
  <2> QED
    BY <2>1, DecidedByLocals DEF Decides
<1>14. ASSUME \/ UNCHANGED vars
              \/ \E m \in Messages : LeaseExpires(m)
      PROVE  DecidedInv'
  <2>1. UNCHANGED <<legacy, links, complaints, pc, msg, target, snapshot, outcome>>
    BY <1>14 DEF LeaseExpires, vars, tables, locals
  <2>2. ASSUME NEW v \in Workers
        PROVE  Decides(v)'
    BY <2>1, DecidesKept DEF DecidedInv
  <2>3. ASSUME NEW m \in Messages
        PROVE  RowDecides(m)'
    BY <2>1, RowKept DEF DecidedInv
  <2> QED
    BY <2>2, <2>3 DEF DecidedInv
<1> QED
  BY <1>2, <1>3, <1>4, <1>5, <1>6, <1>7, <1>8, <1>9, <1>10, <1>11, <1>12, <1>13, <1>14
  DEF Next, Proceed

\* Behaviors with loads apart are behaviors, and their loads stay apart.
LEMMA LoadsStayApart == LoadsApartSpec => Spec /\ []LoadsApart
<1>1. Init => LoadsApart
  BY DEF Init, LoadsApart
<1>2. LoadsApart /\ [Next /\ LoadsApart']_vars => LoadsApart'
  BY DEF LoadsApart, vars, locals
<1>3. [Next /\ LoadsApart']_vars => [Next]_vars
  OBVIOUS
<1> QED
  BY <1>1, <1>2, <1>3, PTL DEF LoadsApartSpec, Spec

LEMMA CaseAlways == Spec => []CaseInv
  BY TypeAlways, CaseInit, CaseStep, PTL DEF Spec

LEMMA DecidedAlways == LoadsApartSpec => []DecidedInv
  BY LoadsStayApart, TypeAlways, LedgerAlways, CaseAlways, DecidedInit, DecidedStep, PTL
  DEF Spec

\* With no two invocations between loadState and persistState, the case id a
\* message shows is the case of the complaint it is linked to and of the one its
\* gmail_messages row names, however the other calls interleave and fail.
THEOREM CaseIdDecided == LoadsApartSpec => []CaseIdDecides
<1>1. DecidedInv => CaseIdDecides
  BY DEF DecidedInv, RowDecides, CaseIdDecides
<1> QED
  BY <1>1, DecidedAlways, PTL

-----------------------------------------------------------------------------
\* The promise of MailRows

\* The steps that neither write complaints nor what a row says of them.
LEMMA RowsStutter ==
  ASSUME Len(complaints') = Len(complaints), TypeInv, TypeInv',
         \A c \in 1..Len(complaints) : complaints'[c].case = complaints[c].case,
         \A m \in Messages : /\ legacy'[m].complaint = legacy[m].complaint
                             /\ legacy'[m].followUp = legacy[m].followUp
  PROVE  UNCHANGED <<Known, SourceRole>>
<1>1. complaints \in Seq(ComplaintRow) /\ complaints' \in Seq(ComplaintRow)
  BY DEF TypeInv, TypeOK
<1>2. DOMAIN complaints' = DOMAIN complaints /\ DOMAIN complaints = 1..Len(complaints)
  BY <1>1
<1>3. Known' = Known
  BY <1>2 DEF Known
<1>4. SourceRole' = SourceRole
  BY DEF SourceRole, Identified
<1> QED
  BY <1>3, <1>4

LEMMA RowsInit == Init => Rows!Init
<1> SUFFICES ASSUME Init
             PROVE  Rows!Init
  OBVIOUS
<1>1. Known = [c \in Cases |-> FALSE]
  BY DEF Init, Known
<1>2. SourceRole = [m \in Identified |-> "NONE"]
  BY DEF Init, SourceRole, Identified
<1> QED
  BY <1>1, <1>2 DEF Rows!Init

\* persistState adds the complaint of its message's case, or no complaint.
LEMMA PersistOpens ==
  ASSUME TypeInv, TypeInv', CaseInv, NEW w \in Workers, PersistCase(w), Decides(w)
  PROVE  /\ msg[w] \in Identified
         /\ UNCHANGED Known \/ Rows!Open(msg[w])
<1> DEFINE m == msg[w]
           rows == Created(snapshot[w], m)
<1> USE MessagesAssumption
<1>1. /\ complaints \in Seq(ComplaintRow) /\ snapshot[w] \in Seq(ComplaintRow)
      /\ m \in Messages /\ CaseOf[m] \in Cases
      /\ complaints' = Upserted(complaints, rows)
      /\ UNCHANGED legacy
  BY DEF PersistCase, TypeInv, TypeOK, LocalsOK
<1>2. m \in Identified
  BY <1>1 DEF Identified
<1>3. /\ rows \in Seq(ComplaintRow)
      /\ Len(snapshot[w]) = Len(complaints)
      /\ \A c \in 1..Len(complaints) : snapshot[w][c].case = complaints[c].case
  BY <1>1, CreatedType DEF PersistCase, Decides, CaseInv, SnapshotIsPrefix
<1>4. /\ \A c \in 1..Len(complaints) : complaints'[c].case = complaints[c].case
      /\ \A c \in 1..Len(rows) : c > Len(complaints) => complaints'[c] = rows[c]
      /\ Len(complaints') = IF Len(complaints) > Len(rows) THEN Len(complaints) ELSE Len(rows)
      /\ complaints' \in Seq(ComplaintRow)
  <2> HIDE DEF rows
  <2>1. complaints' \in Seq(ComplaintRow)
    BY DEF TypeInv, TypeOK
  <2> QED
    BY <1>1, <1>3, <2>1, UpsertedCases
<1>d. DOMAIN complaints = 1..Len(complaints) /\ DOMAIN complaints' = 1..Len(complaints')
  BY <1>1, <1>4
<1>5. CASE Len(rows) = Len(snapshot[w])
  <2>1. Len(complaints') = Len(complaints)
    BY <1>1, <1>3, <1>4, <1>5
  <2> QED
    BY <1>2, <1>4, <1>d, <2>1 DEF Known
<1>6. CASE /\ Len(rows) = Len(snapshot[w]) + 1
           /\ rows[Len(snapshot[w]) + 1].case = CaseOf[m]
           /\ \A c \in 1..Len(snapshot[w]) : snapshot[w][c].case # CaseOf[m]
  <2>1. Len(complaints') = Len(complaints) + 1
    BY <1>1, <1>3, <1>4, <1>6
  <2>2. complaints'[Len(complaints) + 1].case = CaseOf[m]
    BY <1>1, <1>3, <1>4, <1>6
  <2>3. ~Known[CaseOf[m]]
    BY <1>1, <1>3, <1>6, <1>d DEF Known
  <2>4. Known' = [Known EXCEPT ![CaseOf[m]] = TRUE]
    <3>1. ASSUME NEW c \in Cases
          PROVE  Known'[c] = [Known EXCEPT ![CaseOf[m]] = TRUE][c]
      <4>1. CASE c = CaseOf[m]
        <5>1. Len(complaints) + 1 \in DOMAIN complaints'
          BY <1>1, <1>d, <2>1
        <5>2. Known'[c]
          BY <2>2, <4>1, <5>1 DEF Known
        <5>3. c \in DOMAIN Known
          BY DEF Known
        <5> QED
          BY <4>1, <5>2, <5>3
      <4>2. CASE c # CaseOf[m]
        <5>1. \A i \in DOMAIN complaints' :
                complaints'[i].case = c <=> i \in DOMAIN complaints /\ complaints[i].case = c
          BY <1>1, <1>4, <1>d, <2>1, <2>2, <4>2
        <5>2. \A i \in DOMAIN complaints : i \in DOMAIN complaints'
          BY <1>1, <1>d, <2>1
        <5> QED
          BY <4>2, <5>1, <5>2 DEF Known
      <4> QED
        BY <4>1, <4>2
    <3> QED
      BY <3>1 DEF Known
  <2>5. UNCHANGED SourceRole
    BY <1>1 DEF SourceRole, Identified
  <2> QED
    BY <1>2, <2>3, <2>4, <2>5 DEF Rows!Open
<1> QED
  BY <1>1, <1>5, <1>6, CreatedCases

\* Every step is a step of MailRows or a stutter.
LEMMA RowsStep ==
  TypeInv /\ TypeInv' /\ CaseInv /\ DecidedInv /\ [Next]_vars => [Rows!Next]_(Rows!vars)
<1> SUFFICES ASSUME TypeInv, TypeInv', CaseInv, DecidedInv, [Next]_vars
             PROVE  Rows!Next \/ UNCHANGED Rows!vars
  BY DEF Rows!vars
<1> USE MessagesAssumption
<1>t. /\ legacy \in [Messages -> LegacyRow]
      /\ complaints \in Seq(ComplaintRow)
      /\ target \in [Workers -> Nat]
      /\ \A w \in Workers : pc[w] # "idle" => msg[w] \in Messages
  BY DEF TypeInv, TypeOK, LocalsOK
<1>1. CASE UNCHANGED <<complaints, legacy>>
  BY <1>1 DEF Rows!vars, Known, SourceRole, Identified
<1>2. ASSUME NEW w \in Workers,
             InsertLegacy(w) \/ UpdateLegacy(w) \/ MarkIgnored(w) \/ MarkReview(w) \/ MarkFailed(w)
      PROVE  UNCHANGED Rows!vars
  <2>1. UNCHANGED complaints
    BY <1>2 DEF InsertLegacy, UpdateLegacy, MarkIgnored, MarkReview, MarkFailed
  <2> QED
    BY <1>2, <2>1, StatusOnly, RowsStutter DEF Rows!vars
<1>3. ASSUME NEW w \in Workers, AttachFollowUp(w)
      PROVE  Rows!Next \/ UNCHANGED Rows!vars
  <2> DEFINE m == msg[w]
             row == [status |-> "FOLLOW_UP", complaint |-> target[w], followUp |-> TRUE]
  <2>1. pc[w] = "attachFollowUp" /\ legacy' = [legacy EXCEPT ![m] = row] /\ m \in Messages
    BY <1>3, <1>t DEF AttachFollowUp
  <2>2. /\ Len(complaints') = Len(complaints)
        /\ \A c \in 1..Len(complaints) : complaints'[c].case = complaints[c].case
        /\ target[w] \in 1..Len(complaints)
    BY <1>3, AttachKeepsCases
  <2>3. UNCHANGED Known
    <3>1. DOMAIN complaints' = 1..Len(complaints') /\ DOMAIN complaints = 1..Len(complaints)
      BY DEF TypeInv, TypeOK
    <3> QED
      BY <2>2, <3>1 DEF Known
  <2>4. \A n \in Messages : legacy'[n] = IF n = m THEN row ELSE legacy[n]
    BY <1>t, <2>1
  <2>5. CASE m \notin Identified
    <3>1. UNCHANGED SourceRole
      BY <2>4, <2>5 DEF SourceRole, Identified
    <3> QED
      BY <2>3, <3>1 DEF Rows!vars
  <2>6. CASE m \in Identified
    <3>1. SourceRole' = [SourceRole EXCEPT ![m] = "FOLLOW_UP"]
      <4>1. ASSUME NEW n \in Identified
            PROVE  SourceRole'[n] = [SourceRole EXCEPT ![m] = "FOLLOW_UP"][n]
        BY <2>4, <2>6 DEF SourceRole, Identified
      <4> QED
        BY <4>1 DEF SourceRole, Identified
    <3>2. Known[CaseOf[m]]
      <4>1. CaseOf[m] \in Cases /\ complaints[target[w]].case = CaseOf[m]
        BY <2>1, <2>6 DEF DecidedInv, Decides, Identified
      <4>2. target[w] \in DOMAIN complaints
        BY <2>2, <1>t
      <4> QED
        BY <4>1, <4>2 DEF Known
    <3>3. Rows!Follow(m)
      BY <2>3, <3>1, <3>2 DEF Rows!Follow
    <3> QED
      BY <2>6, <3>3 DEF Rows!Next, Rows!Step
  <2> QED
    BY <2>5, <2>6
<1>4. ASSUME NEW w \in Workers, PersistCase(w)
      PROVE  Rows!Next \/ UNCHANGED Rows!vars
  <2>1. UNCHANGED SourceRole
    BY <1>4 DEF PersistCase, SourceRole, Identified
  <2>2. msg[w] \in Identified /\ (UNCHANGED Known \/ Rows!Open(msg[w]))
    BY <1>4, PersistOpens DEF DecidedInv
  <2> QED
    BY <2>1, <2>2 DEF Rows!Next, Rows!Step, Rows!vars
<1>5. ASSUME NEW w \in Workers, MarkCase(w)
      PROVE  Rows!Next \/ UNCHANGED Rows!vars
  <2> DEFINE m == msg[w]
             row == [legacy[m] EXCEPT !.status = "PROCESSED", !.complaint = target[w]]
  <2>1. /\ pc[w] = "markCase"
        /\ legacy' = [legacy EXCEPT ![m] = row]
        /\ m \in Messages
        /\ UNCHANGED complaints
    BY <1>5, <1>t DEF MarkCase
  <2>2. /\ CaseOf[m] \in Cases /\ m \in Identified
        /\ complaints[target[w]].case = CaseOf[m]
        /\ target[w] \in DOMAIN complaints
    BY <2>1 DEF DecidedInv, Decides, TypeInv, LocalsOK, Identified
  <2>3. Known[CaseOf[m]] /\ UNCHANGED Known
    BY <2>1, <2>2 DEF Known
  <2>4. row.complaint = target[w] /\ row.followUp = legacy[m].followUp
    BY <1>t, <2>1 DEF LegacyRow
  <2>5. \A n \in Messages : legacy'[n] = IF n = m THEN row ELSE legacy[n]
    BY <1>t, <2>1
  <2>6. target[w] # 0
    BY <1>t, <2>2
  <2>7. CASE SourceRole[m] = "NONE"
    <3>1. SourceRole' = [SourceRole EXCEPT ![m] = "INITIAL"]
      <4>1. ASSUME NEW n \in Identified
            PROVE  SourceRole'[n] = [SourceRole EXCEPT ![m] = "INITIAL"][n]
        BY <2>2, <2>4, <2>5, <2>6, <2>7 DEF SourceRole, Identified
      <4> QED
        BY <4>1 DEF SourceRole, Identified
    <3> QED
      BY <2>2, <2>3, <2>7, <3>1 DEF Rows!Name, Rows!Step, Rows!Next
  <2>8. CASE SourceRole[m] # "NONE"
    <3>1. ASSUME NEW n \in Identified
          PROVE  SourceRole'[n] = SourceRole[n]
      BY <2>2, <2>4, <2>5, <2>6, <2>8 DEF SourceRole, Identified
    <3>2. SourceRole' = SourceRole
      BY <3>1 DEF SourceRole, Identified
    <3> QED
      BY <2>3, <3>2 DEF Rows!vars
  <2> QED
    BY <2>7, <2>8
<1>6. ASSUME NEW w \in Workers, Proceed(w)
      PROVE  Rows!Next \/ UNCHANGED Rows!vars
  <2>1. CASE \/ Inspect(w) \/ ReadLegacy(w) \/ ReadAttempts(w) \/ ClaimLease(w) \/ InsertRun(w)
             \/ ResolveIdentity(w) \/ ReadFollowUps(w) \/ LoadState(w) \/ CommitEvent(w) \/ Finish(w)
    BY <1>1, <2>1 DEF Inspect, ReadLegacy, ReadAttempts, ClaimLease, InsertRun, ResolveIdentity,
                      ReadFollowUps, LoadState, CommitEvent, Finish, tables
  <2> QED
    BY <1>2, <1>3, <1>4, <1>5, <1>6, <2>1 DEF Proceed
<1>7. ASSUME NEW w \in Workers,
             StatementFails(w) \/ Die(w) \/ \E m \in Messages : Deliver(w, m)
      PROVE  UNCHANGED Rows!vars
  BY <1>1, <1>7 DEF StatementFails, Die, Deliver, tables, Rows!vars, Known, SourceRole, Identified
<1>8. CASE UNCHANGED vars \/ \E m \in Messages : LeaseExpires(m)
  BY <1>1, <1>8 DEF vars, tables, LeaseExpires
<1> QED
  BY <1>6, <1>7, <1>8 DEF Next

\* With loads apart, what intake shows the acknowledgment are steps of MailRows:
\* a row names a complaint only of a case that has one, and takes nothing back.
THEOREM RowsPromised == LoadsApartSpec => RowsPromise
  BY RowsInit, RowsStep, LoadsStayApart, TypeAlways, CaseAlways, DecidedAlways, PTL
  DEF Spec, RowsPromise, Rows!Spec

-----------------------------------------------------------------------------
\* What is quoted stays quoted

\* What an invocation is about to write back is what is stored, and a follow-up
\* it is about to commit is quoted.
Quotes(w) ==
  /\ pc[w] = "attachFollowUp" => read[w] = complaints[target[w]].followUps
  /\ pc[w] = "persistCase" => snapshot[w] = complaints
  /\ pc[w] = "commitEvent" /\ outcome[w] = "FOLLOW_UP" =>
       complaints[target[w]].followUps[msg[w]] > 0

Quoted(m) ==
  links[m].role = "FOLLOW_UP" => complaints[links[m].complaint].followUps[m] > 0

QuotedInv ==
  /\ \A w \in Workers : Quotes(w)
  /\ \A m \in Messages : Quoted(m)

LEMMA QuotedInit == Init => QuotedInv
  BY DEF Init, QuotedInv, Quotes, Quoted

\* Behaviors with windows apart are behaviors, and their windows stay apart.
LEMMA WindowsStayApart == WindowsApartSpec => Spec /\ []WindowsApart
<1>1. Init => WindowsApart
  BY DEF Init, WindowsApart, WritesBack
<1>2. WindowsApart /\ [Next /\ WindowsApart']_vars => WindowsApart'
  BY DEF WindowsApart, vars, locals
<1>3. [Next /\ WindowsApart']_vars => [Next]_vars
  OBVIOUS
<1> QED
  BY <1>1, <1>2, <1>3, PTL DEF WindowsApartSpec, Spec

LEMMA AppendedGrows ==
  ASSUME NEW f \in FollowUps, NEW m \in Messages
  PROVE  /\ Appended(f, m) \in FollowUps
         /\ Appended(f, m)[m] > 0
         /\ \A n \in Messages : Appended(f, m)[n] >= f[n]
  BY DEF FollowUps, Appended

LEMMA QuotedTimes ==
  ASSUME NEW rows \in Seq(ComplaintRow), NEW c \in DOMAIN rows
  PROVE  /\ rows[c] \in ComplaintRow
         /\ rows[c].followUps \in FollowUps
         /\ \A n \in Messages : rows[c].followUps[n] \in Nat
<1>1. rows[c] \in ComplaintRow
  OBVIOUS
<1>2. rows[c].followUps \in FollowUps
  BY <1>1 DEF ComplaintRow
<1> QED
  BY <1>1, <1>2 DEF FollowUps

\* createComplaint drops nothing from the rows it was given.
LEMMA CreatedGrows ==
  ASSUME NEW m \in Messages, CaseOf[m] \in Cases, NEW rows \in Seq(ComplaintRow)
  PROVE  \A c \in 1..Len(rows) : \A n \in Messages :
           Created(rows, m)[c].followUps[n] >= rows[c].followUps[n]
<1>d. DOMAIN rows = 1..Len(rows)
  OBVIOUS
<1>t. \A c \in 1..Len(rows) : /\ rows[c] \in ComplaintRow
                              /\ rows[c].followUps \in FollowUps
                              /\ \A n \in Messages : rows[c].followUps[n] \in Nat
  BY <1>d, QuotedTimes
<1>1. CASE CaseMatches(rows, m) # {}
  <2> DEFINE id == CreatedId(rows, m)
             row == [rows[id] EXCEPT !.followUps = Appended(rows[id].followUps, m)]
  <2>1. id \in 1..Len(rows)
    BY <1>1 DEF CreatedId, CaseMatches
  <2>2. row.followUps = Appended(rows[id].followUps, m)
    BY <1>t, <2>1 DEF ComplaintRow
  <2>3. Created(rows, m) = [rows EXCEPT ![id] = row]
    BY <1>1 DEF Created
  <2>4. \A c \in 1..Len(rows) : Created(rows, m)[c] = IF c = id THEN row ELSE rows[c]
    BY <2>1, <2>3
  <2>5. \A n \in Messages : row.followUps[n] >= rows[id].followUps[n]
    BY <1>t, <2>1, <2>2, AppendedGrows
  <2>6. ASSUME NEW c \in 1..Len(rows), NEW n \in Messages
        PROVE  Created(rows, m)[c].followUps[n] >= rows[c].followUps[n]
    <3>1. CASE c = id
      BY <2>4, <2>5, <3>1
    <3>2. CASE c # id
      <4>1. Created(rows, m)[c] = rows[c] /\ rows[c].followUps[n] \in Nat
        BY <1>t, <2>4, <3>2
      <4> QED
        BY <4>1
    <3> QED
      BY <3>1, <3>2
  <2> QED
    BY <2>6
<1>2. CASE CaseMatches(rows, m) = {}
  <2>1. Created(rows, m) = Append(rows, [case |-> CaseOf[m], followUps |-> NoFollowUps])
    BY <1>2 DEF Created
  <2>2. \A c \in 1..Len(rows) : Created(rows, m)[c] = rows[c]
    BY <2>1
  <2> QED
    BY <1>t, <2>2
<1> QED
  BY <1>1, <1>2

\* No step drops a follow-up: an invocation writes back what is stored, and more.
LEMMA FollowUpsGrow ==
  ASSUME TypeInv, TypeInv', QuotedInv, [Next]_vars
  PROVE  \A c \in 1..Len(complaints) : \A n \in Messages :
           complaints'[c].followUps[n] >= complaints[c].followUps[n]
<1> DEFINE Grows == \A c \in 1..Len(complaints) : \A n \in Messages :
                      complaints'[c].followUps[n] >= complaints[c].followUps[n]
<1>t. /\ complaints \in Seq(ComplaintRow)
      /\ \A c \in 1..Len(complaints) : complaints[c] \in ComplaintRow
      /\ \A c \in 1..Len(complaints) : \A n \in Messages : complaints[c].followUps[n] \in Nat
  <2>1. complaints \in Seq(ComplaintRow)
    BY DEF TypeInv, TypeOK
  <2>2. DOMAIN complaints = 1..Len(complaints)
    BY <2>1
  <2> QED
    BY <2>1, <2>2, QuotedTimes
<1>1. CASE UNCHANGED complaints
  BY <1>t, <1>1
<1>2. ASSUME NEW w \in Workers, AttachFollowUp(w)
      PROVE  Grows
  <2>1. /\ target[w] \in 1..Len(complaints)
        /\ complaints'[target[w]].followUps = Appended(read[w], msg[w])
        /\ \A c \in 1..Len(complaints) : c # target[w] => complaints'[c] = complaints[c]
    BY <1>2, AttachKeepsCases
  <2>2. /\ read[w] = complaints[target[w]].followUps
        /\ read[w] \in FollowUps
        /\ msg[w] \in Messages
    BY <1>2 DEF AttachFollowUp, QuotedInv, Quotes, TypeInv, TypeOK, LocalsOK
  <2>3. \A n \in Messages :
          complaints'[target[w]].followUps[n] >= complaints[target[w]].followUps[n]
    BY <2>1, <2>2, AppendedGrows
  <2> QED
    BY <1>t, <2>1, <2>3
<1>3. ASSUME NEW w \in Workers, PersistCase(w)
      PROVE  Grows
  <2> DEFINE rows == Created(complaints, msg[w])
  <2>1. /\ msg[w] \in Messages /\ CaseOf[msg[w]] \in Cases
        /\ complaints' = Upserted(complaints, rows)
    BY <1>3 DEF PersistCase, QuotedInv, Quotes, TypeInv, TypeOK, LocalsOK
  <2>2. /\ rows \in Seq(ComplaintRow)
        /\ Len(complaints) <= Len(rows)
        /\ \A c \in 1..Len(complaints) : \A n \in Messages :
              rows[c].followUps[n] >= complaints[c].followUps[n]
    BY <1>t, <2>1, CreatedType, CreatedGrows
  <2> HIDE DEF rows
  <2>3. ASSUME NEW c \in 1..Len(complaints)
        PROVE  complaints'[c].followUps = rows[c].followUps
    <3>1. /\ c <= Len(complaints) /\ c <= Len(rows) /\ c \in 1..Len(rows)
      BY <1>t, <2>2
    <3>2. complaints'[c] = [complaints[c] EXCEPT !.followUps = rows[c].followUps]
      BY <1>t, <2>1, <2>2, <3>1 DEF Upserted
    <3> QED
      BY <1>t, <3>2 DEF ComplaintRow
  <2> QED
    BY <2>2, <2>3
<1> QED
  BY <1>1, <1>2, <1>3, Writers

\* What an invocation holds to write back stays what is stored, if nobody writes;
\* what it wrote stays quoted in any case.
LEMMA QuotesKept ==
  ASSUME TypeInv, TypeInv', QuotedInv, [Next]_vars,
         NEW v \in Workers,
         pc'[v] = pc[v], msg'[v] = msg[v], target'[v] = target[v], read'[v] = read[v],
         snapshot'[v] = snapshot[v], outcome'[v] = outcome[v],
         UNCHANGED complaints \/ pc[v] \notin WritesBack
  PROVE  Quotes(v)'
<1>1. CASE UNCHANGED complaints
  BY <1>1 DEF QuotedInv, Quotes
<1>2. CASE pc[v] = "commitEvent" /\ outcome[v] = "FOLLOW_UP"
  <2>1. /\ target[v] \in 1..Len(complaints) /\ msg[v] \in Messages
        /\ complaints[target[v]].followUps[msg[v]] > 0
        /\ complaints[target[v]].followUps[msg[v]] \in Nat
    <3>1. complaints \in Seq(ComplaintRow) /\ target[v] \in DOMAIN complaints /\ msg[v] \in Messages
      BY <1>2 DEF TypeInv, TypeOK, LocalsOK, CaseEvents
    <3>2. complaints[target[v]].followUps[msg[v]] \in Nat
      BY <3>1, QuotedTimes
    <3> QED
      BY <1>2, <3>1, <3>2 DEF QuotedInv, Quotes
  <2>2. complaints'[target[v]].followUps[msg[v]] >= complaints[target[v]].followUps[msg[v]]
    BY <2>1, FollowUpsGrow
  <2>3. complaints'[target[v]].followUps[msg[v]] \in Nat
    <3>1. complaints' \in Seq(ComplaintRow) /\ target'[v] \in DOMAIN complaints'
      BY <1>2 DEF TypeInv, TypeOK, LocalsOK, CaseEvents
    <3>2. complaints'[target'[v]].followUps[msg[v]] \in Nat
      BY <2>1, <3>1, QuotedTimes
    <3> QED
      BY <3>2
  <2> QED
    BY <1>2, <2>1, <2>2, <2>3 DEF Quotes
<1>3. CASE pc[v] \notin WritesBack /\ ~(pc[v] = "commitEvent" /\ outcome[v] = "FOLLOW_UP")
  BY <1>3 DEF Quotes, WritesBack
<1> QED
  BY <1>1, <1>2, <1>3

\* A follow-up that is linked stays quoted.
LEMMA QuotedKept ==
  ASSUME TypeInv, TypeInv', LedgerInv, LedgerInv', QuotedInv, [Next]_vars,
         NEW m \in Messages, links'[m] = links[m]
  PROVE  Quoted(m)'
<1> SUFFICES ASSUME links[m].role = "FOLLOW_UP"
             PROVE  complaints'[links[m].complaint].followUps[m] > 0
  BY DEF Quoted
<1> DEFINE c == links[m].complaint
<1>1. /\ complaints \in Seq(ComplaintRow) /\ complaints' \in Seq(ComplaintRow)
      /\ c \in DOMAIN complaints /\ c \in DOMAIN complaints'
  BY DEF TypeInv, TypeOK, LedgerInv, LedgerAgrees
<1>2. complaints[c].followUps[m] \in Nat /\ complaints'[c].followUps[m] \in Nat
  BY <1>1, QuotedTimes
<1>3. complaints[c].followUps[m] > 0
  BY DEF QuotedInv, Quoted
<1>4. complaints'[c].followUps[m] >= complaints[c].followUps[m]
  BY <1>1, FollowUpsGrow
<1> QED
  BY <1>2, <1>3, <1>4

\* A step that writes no link, and writes complaints only in a window of its own.
LEMMA QuotedByLocals ==
  ASSUME TypeInv, TypeInv', LedgerInv, LedgerInv', QuotedInv, [Next]_vars, WindowsApart,
         NEW w \in Workers, StepOf(w),
         UNCHANGED links,
         UNCHANGED complaints \/ pc[w] \in WritesBack,
         Quotes(w)'
  PROVE  QuotedInv'
<1>1. ASSUME NEW v \in Workers \ {w}
      PROVE  Quotes(v)'
  <2>1. UNCHANGED complaints \/ pc[v] \notin WritesBack
    BY DEF WindowsApart
  <2> QED
    BY <2>1, OthersKept, QuotesKept
<1>2. ASSUME NEW m \in Messages
      PROVE  Quoted(m)'
  BY QuotedKept
<1> QED
  BY <1>1, <1>2 DEF QuotedInv

LEMMA QuotedStep ==
  TypeInv /\ TypeInv' /\ LedgerInv /\ LedgerInv' /\ WindowsApart /\ QuotedInv /\ [Next]_vars
    => QuotedInv'
<1> SUFFICES ASSUME TypeInv, TypeInv', LedgerInv, LedgerInv', WindowsApart, QuotedInv, [Next]_vars
             PROVE  QuotedInv'
  OBVIOUS
<1>t. /\ pc \in [Workers -> Holding \cup {"idle", "inspect", "readLegacy", "insertLegacy",
                                           "updateLegacy", "readAttempts", "claimLease"}]
      /\ target \in [Workers -> Nat]
      /\ read \in [Workers -> FollowUps]
      /\ links \in [Messages -> LinkRow]
      /\ outcome \in [Workers -> Outcomes \cup {"NONE", "FAILED"}]
      /\ snapshot \in [Workers -> Seq(ComplaintRow)]
      /\ complaints \in Seq(ComplaintRow)
      /\ \A w \in Workers : pc[w] # "idle" => msg[w] \in Messages
  BY DEF TypeInv, TypeOK, LocalsOK
<1>1. ASSUME NEW w \in Workers, Return(w), StepOf(w), UNCHANGED <<complaints, links>>
      PROVE  QuotedInv'
  <2>1. pc'[w] = "idle"
    BY <1>1, <1>t DEF Return, Goto
  <2> QED
    BY <1>1, <2>1, QuotedByLocals DEF Quotes
<1>2. ASSUME NEW w \in Workers,
             \/ Inspect(w) \/ ReadLegacy(w) \/ InsertLegacy(w) \/ UpdateLegacy(w) \/ ReadAttempts(w)
             \/ ClaimLease(w) \/ InsertRun(w) \/ ResolveIdentity(w) \/ MarkFailed(w)
      PROVE  QuotedInv'
  <2>1. /\ \/ Return(w)
           \/ pc'[w] \in {"readLegacy", "insertLegacy", "updateLegacy", "readAttempts", "claimLease",
                          "insertRun", "normalize", "readFollowUps", "loadState", "markReview",
                          "finish"}
        /\ UNCHANGED <<complaints, links>>
    BY <1>2, <1>t DEF Inspect, ReadLegacy, InsertLegacy, UpdateLegacy, ReadAttempts, ClaimLease,
                      InsertRun, ResolveIdentity, MarkFailed, Goto, tables
  <2>2. StepOf(w)
    BY <1>2 DEF StepOf, Proceed
  <2> QED
    BY <1>1, <2>1, <2>2, QuotedByLocals DEF Quotes
<1>3. ASSUME NEW w \in Workers, MarkIgnored(w) \/ MarkCase(w) \/ MarkReview(w)
      PROVE  QuotedInv'
  <2>1. /\ pc'[w] = "commitEvent" /\ outcome'[w] # "FOLLOW_UP"
        /\ UNCHANGED <<complaints, links>>
    BY <1>3, <1>t DEF MarkIgnored, MarkCase, MarkReview, Goto
  <2>2. StepOf(w)
    BY <1>3 DEF StepOf, Proceed
  <2> QED
    BY <2>1, <2>2, QuotedByLocals DEF Quotes
<1>4. ASSUME NEW w \in Workers, ReadFollowUps(w)
      PROVE  QuotedInv'
  <2>1. /\ pc'[w] = "attachFollowUp" /\ read'[w] = complaints[target[w]].followUps
        /\ UNCHANGED <<complaints, links, target>>
        /\ StepOf(w)
    BY <1>4, <1>t DEF ReadFollowUps, Goto, tables, StepOf, Proceed
  <2> QED
    BY <2>1, QuotedByLocals DEF Quotes
<1>5. ASSUME NEW w \in Workers, AttachFollowUp(w)
      PROVE  QuotedInv'
  <2>1. /\ pc[w] = "attachFollowUp" /\ pc'[w] = "commitEvent"
        /\ UNCHANGED <<links, target, msg>>
        /\ StepOf(w)
    BY <1>5, <1>t DEF AttachFollowUp, Goto, StepOf, Proceed
  <2>2. complaints'[target[w]].followUps[msg[w]] > 0
    BY <1>5, <1>t, <2>1, AttachKeepsCases, AppendedGrows
  <2> QED
    BY <2>1, <2>2, QuotedByLocals DEF Quotes, WritesBack
<1>6. ASSUME NEW w \in Workers, LoadState(w)
      PROVE  QuotedInv'
  <2>1. /\ pc'[w] = "persistCase" /\ snapshot'[w] = complaints
        /\ UNCHANGED <<complaints, links>>
        /\ StepOf(w)
    BY <1>6, <1>t DEF LoadState, Goto, tables, StepOf, Proceed
  <2> QED
    BY <2>1, QuotedByLocals DEF Quotes
<1>7. ASSUME NEW w \in Workers, PersistCase(w)
      PROVE  QuotedInv'
  <2>1. /\ pc[w] = "persistCase" /\ pc'[w] = "markCase"
        /\ UNCHANGED links
        /\ StepOf(w)
    BY <1>7, <1>t DEF PersistCase, Goto, StepOf, Proceed
  <2> QED
    BY <2>1, QuotedByLocals DEF Quotes, WritesBack
<1>8. ASSUME NEW w \in Workers, CommitEvent(w)
      PROVE  QuotedInv'
  <2>1. /\ pc[w] = "commitEvent" /\ pc'[w] \in {"finish", "markFailed"}
        /\ links' = links \/ links' = [links EXCEPT ![msg[w]] = LinkStored(w)]
        /\ UNCHANGED complaints
        /\ StepOf(w)
    BY <1>8, <1>t DEF CommitEvent, Goto, StepOf, Proceed
  <2>2. Quotes(w)'
    BY <2>1 DEF Quotes
  <2>3. ASSUME NEW v \in Workers \ {w}
        PROVE  Quotes(v)'
    BY <2>1, OthersKept, QuotesKept
  <2>4. ASSUME NEW m \in Messages
        PROVE  Quoted(m)'
    <3>1. CASE links'[m] = links[m]
      BY <3>1, QuotedKept
    <3>2. CASE links'[m] # links[m]
      <4>1. /\ m = msg[w]
            /\ links'[m] = LinkStored(w)
            /\ LinkStored(w) # links[m]
        BY <1>t, <2>1, <3>2
      <4>2. CASE outcome[w] = "NEW_CASE"
        BY <4>1, <4>2 DEF LinkStored, Quoted
      <4>3. CASE outcome[w] = "FOLLOW_UP"
        <5>1. links'[m].complaint = target[w]
          BY <4>1, <4>3 DEF LinkStored
        <5> QED
          BY <2>1, <4>1, <4>3, <5>1 DEF QuotedInv, Quotes, Quoted
      <4> QED
        BY <4>1, <4>2, <4>3 DEF LinkStored, CaseEvents
    <3> QED
      BY <3>1, <3>2
  <2> QED
    BY <2>2, <2>3, <2>4 DEF QuotedInv
<1>9. ASSUME NEW w \in Workers, Finish(w) \/ Die(w)
      PROVE  QuotedInv'
  <2>1. Return(w) /\ UNCHANGED <<complaints, links>> /\ StepOf(w)
    BY <1>9 DEF Finish, Die, tables, StepOf, Proceed
  <2> QED
    BY <1>1, <2>1
<1>10. ASSUME NEW w \in Workers, StatementFails(w) \/ \E m \in Messages : Deliver(w, m)
      PROVE  QuotedInv'
  <2>1. /\ pc'[w] \in {"markFailed", "readLegacy", "inspect"}
        /\ UNCHANGED <<complaints, links>>
        /\ StepOf(w)
    BY <1>10, <1>t DEF StatementFails, Deliver, Goto, tables, StepOf
  <2> QED
    BY <2>1, QuotedByLocals DEF Quotes
<1>11. ASSUME UNCHANGED vars \/ \E m \in Messages : LeaseExpires(m)
      PROVE  QuotedInv'
  <2>1. UNCHANGED <<links, complaints, pc, msg, target, read, snapshot, outcome>>
    BY <1>11 DEF LeaseExpires, vars, tables, locals
  <2> QED
    BY <2>1 DEF QuotedInv, Quotes, Quoted
<1> QED
  BY <1>2, <1>3, <1>4, <1>5, <1>6, <1>7, <1>8, <1>9, <1>10, <1>11 DEF Next, Proceed

\* With no two invocations between a read of complaints and its write-back, a
\* message that was linked as a follow-up is quoted by its complaint for good,
\* whichever invocations write follow_ups afterwards and whatever fails.
THEOREM FollowUpsQuoted == WindowsApartSpec => []FollowUpIsQuoted
<1>1. QuotedInv => FollowUpIsQuoted
  BY DEF QuotedInv, Quoted, FollowUpIsQuoted
<1> QED
  BY <1>1, WindowsStayApart, TypeAlways, LedgerAlways, QuotedInit, QuotedStep, PTL DEF Spec

\* In particular if mail is ingested by one invocation at a time.
THEOREM SerialIntake ==
  ASSUME \A v, w \in Workers : v = w
  PROVE  Spec => []CaseIdDecides /\ []FollowUpIsQuoted /\ RowsPromise
<1>1. [Next]_vars => [Next /\ LoadsApart']_vars /\ [Next /\ WindowsApart']_vars
  BY DEF LoadsApart, WindowsApart
<1>2. Spec => LoadsApartSpec /\ WindowsApartSpec
  BY <1>1, PTL DEF Spec, LoadsApartSpec, WindowsApartSpec
<1> QED
  BY <1>2, CaseIdDecided, FollowUpsQuoted, RowsPromised, PTL
=============================================================================
