-------------------------- MODULE MailIntakeProofs --------------------------
(***************************************************************************)
(* Proofs about MailIntake, for every set of Workers and Messages, every   *)
(* mailbox and every bound.                                                *)
(***************************************************************************)
EXTENDS MailIntake, TLAPS

-----------------------------------------------------------------------------
\* The inductive invariant, in the parts the theorems below need one by one

\* What an invocation knows at the call it is about to make.
LocalsOK ==
  \A w \in Workers :
    /\ pc[w] # "idle" => msg[w] \in Messages
    /\ pc[w] \in {"readFollowUps", "attachFollowUp", "markCase"} =>
         target[w] \in DOMAIN complaints
    /\ pc[w] \in {"loadState", "persistCase"} => CaseOf[msg[w]] \in Cases
    /\ pc[w] = "commitEvent" =>
         /\ outcome[w] \in Outcomes
         /\ outcome[w] \in CaseEvents => target[w] \in DOMAIN complaints
    /\ pc[w] = "finish" => outcome[w] \in Outcomes \cup {"FAILED"}

TypeInv == TypeOK /\ LocalsOK

\* Attempt numbers only grow, every run row is of an attempt that was claimed,
\* and the row of a run that is still held is PROCESSING.
RunsInv ==
  /\ \A r \in runs : r.number <= sources[r.msg].attempts
  /\ \A w \in Workers :
       /\ pc[w] # "idle" => sources[msg[w]].state # "ABSENT"
       /\ pc[w] \in Holding \ {"insertRun"} =>
            /\ \E r \in runs : r.msg = msg[w] /\ r.number = run[w]
            /\ \A r \in runs :
                 r.msg = msg[w] /\ r.number = run[w] => r.status = "PROCESSING"
  /\ ExclusiveRuns

\* Extraction is a function of the message, so whatever attempt decides, only
\* mail that is no complaint gets a NON_ACTIONABLE event.
KindInv ==
  /\ \A m \in Messages :
       events[m].type # "NONE" => (events[m].type = "NON_ACTIONABLE" <=> m \notin Complaints)
  /\ \A w \in Workers :
       /\ pc[w] \in {"readFollowUps", "attachFollowUp", "loadState", "persistCase",
                     "markCase", "markReview"} => msg[w] \in Complaints
       /\ pc[w] \in {"commitEvent", "finish"} /\ outcome[w] # "FAILED" =>
            (outcome[w] = "NON_ACTIONABLE" <=> msg[w] \notin Complaints)

\* An invocation that is about to finish has its outcome in the ledger.
FinishReady ==
  \A w \in Workers : pc[w] = "finish" =>
    /\ outcome[w] \in CaseEvents =>
         events[msg[w]].type \in CaseEvents /\ links[msg[w]].role # "NONE"
    /\ outcome[w] \in {"NON_ACTIONABLE", "REVIEW_REQUIRED"} =>
         events[msg[w]].type = outcome[w]

\* What an invocation loaded is, case by case, a prefix of what is stored: rows
\* are only added at the end and keep their external_case_id.
SnapshotIsPrefix ==
  \A w \in Workers :
    /\ Len(snapshot[w]) <= Len(complaints)
    /\ \A c \in 1..Len(snapshot[w]) : snapshot[w][c].case = complaints[c].case

LedgerInv == KindInv /\ LedgerAgrees /\ FinishReady /\ SettledStateIsBacked
CaseInv == SnapshotIsPrefix /\ OneComplaintPerCase

IInv == TypeInv /\ RunsInv /\ LedgerInv /\ CaseInv

-----------------------------------------------------------------------------
\* The list of complaints

\* createComplaint returns a well-typed list no shorter than the one it was given,
\* and the place in it of the complaint it made or found.
LEMMA CreatedType ==
  ASSUME NEW m \in Messages, CaseOf[m] \in Cases, NEW rows \in Seq(ComplaintRow)
  PROVE  /\ Created(rows, m) \in Seq(ComplaintRow)
         /\ Len(rows) <= Len(Created(rows, m))
         /\ CreatedId(rows, m) \in 1..Len(Created(rows, m))
<1> DEFINE new == [case |-> CaseOf[m], followUps |-> NoFollowUps]
<1>1. CASE CaseMatches(rows, m) # {}
  <2>1. CreatedId(rows, m) \in DOMAIN rows
    BY <1>1 DEF CreatedId, CaseMatches
  <2>2. /\ rows[CreatedId(rows, m)] \in ComplaintRow
        /\ DOMAIN rows = 1..Len(rows)
    BY <2>1
  <2>3. Appended(rows[CreatedId(rows, m)].followUps, m) \in FollowUps
    BY <2>2 DEF Appended, ComplaintRow, FollowUps
  <2>4. [rows[CreatedId(rows, m)] EXCEPT
           !.followUps = Appended(rows[CreatedId(rows, m)].followUps, m)] \in ComplaintRow
    BY <2>2, <2>3 DEF ComplaintRow
  <2>5. Created(rows, m) =
          [rows EXCEPT ![CreatedId(rows, m)] = [rows[CreatedId(rows, m)] EXCEPT
             !.followUps = Appended(rows[CreatedId(rows, m)].followUps, m)]]
    BY <1>1 DEF Created
  <2> QED
    BY <2>1, <2>2, <2>4, <2>5
<1>2. CASE CaseMatches(rows, m) = {}
  <2>1. new \in ComplaintRow
    BY DEF ComplaintRow, FollowUps, NoFollowUps
  <2>2. Created(rows, m) = Append(rows, new) /\ CreatedId(rows, m) = Len(rows) + 1
    BY <1>2 DEF Created, CreatedId
  <2> QED
    BY <2>1, <2>2
<1> QED
  BY <1>1, <1>2

\* persistState leaves a well-typed list that has every stored row and every row
\* of the snapshot.
LEMMA UpsertedType ==
  ASSUME NEW stored \in Seq(ComplaintRow), NEW rows \in Seq(ComplaintRow)
  PROVE  /\ Upserted(stored, rows) \in Seq(ComplaintRow)
         /\ Len(stored) <= Len(Upserted(stored, rows))
         /\ Len(rows) <= Len(Upserted(stored, rows))
<1> DEFINE size == IF Len(stored) > Len(rows) THEN Len(stored) ELSE Len(rows)
           up == Upserted(stored, rows)
<1>1. /\ size \in Nat
      /\ Len(stored) <= size
      /\ Len(rows) <= size
  OBVIOUS
<1>2. ASSUME NEW c \in 1..size
      PROVE  up[c] \in ComplaintRow
  <2>1. CASE c > Len(stored)
    BY <2>1 DEF Upserted
  <2>2. CASE c <= Len(stored) /\ c > Len(rows)
    BY <2>2 DEF Upserted
  <2>3. CASE c <= Len(stored) /\ c <= Len(rows)
    <3>1. stored[c] \in ComplaintRow /\ rows[c] \in ComplaintRow
      BY <2>3
    <3>2. up[c] = [stored[c] EXCEPT !.followUps = rows[c].followUps]
      BY <2>3 DEF Upserted
    <3> QED
      BY <3>1, <3>2 DEF ComplaintRow
  <2> QED
    BY <2>1, <2>2, <2>3
<1>3. up = [c \in 1..size |-> up[c]]
  BY DEF Upserted
<1>4. up \in [1..size -> ComplaintRow]
  BY <1>2, <1>3
<1>5. up \in Seq(ComplaintRow) /\ Len(up) = size
  BY <1>1, <1>4
<1> QED
  BY <1>1, <1>5
-----------------------------------------------------------------------------
\* Types

\* The tables start empty and every invocation idle.
LEMMA TypeInit == Init => TypeInv
  BY MessagesAssumption
  DEF Init, TypeInv, TypeOK, LocalsOK, SourceRow, Leases, Settled, LegacyRow, LegacyStatus,
      RunRow, EventRow, LinkRow, Outcomes, CaseEvents, FollowUps, NoFollowUps, Holding

\* What an invocation that returns leaves behind: locals of the right types, and
\* the other invocations as they were.
LEMMA ReturnType ==
  ASSUME TypeInv, NEW w \in Workers, Return(w)
  PROVE  /\ pc' \in [Workers -> Holding \cup {"idle", "inspect", "readLegacy", "insertLegacy",
                                             "updateLegacy", "readAttempts", "claimLease"}]
         /\ msg' \in [Workers -> Messages \cup {NoMessage}]
         /\ deadRun' \in [Workers -> Nat]
         /\ run' \in [Workers -> Nat]
         /\ target' \in [Workers -> Nat]
         /\ read' \in [Workers -> FollowUps]
         /\ snapshot' \in [Workers -> Seq(ComplaintRow)]
         /\ outcome' \in [Workers -> Outcomes \cup {"NONE", "FAILED"}]
         /\ pc'[w] = "idle"
         /\ \A v \in Workers \ {w} :
              /\ pc'[v] = pc[v]
              /\ msg'[v] = msg[v]
              /\ run'[v] = run[v]
              /\ target'[v] = target[v]
              /\ snapshot'[v] = snapshot[v]
              /\ outcome'[v] = outcome[v]
<1>1. NoFollowUps \in FollowUps /\ <<>> \in Seq(ComplaintRow)
  BY DEF NoFollowUps, FollowUps
<1> QED
  BY <1>1 DEF Return, Goto, TypeInv, TypeOK

\* Every step keeps the types and what an invocation knows of its own call.
LEMMA TypeStep == TypeInv /\ [Next]_vars => TypeInv'
<1> SUFFICES ASSUME TypeInv, [Next]_vars
             PROVE  TypeInv'
  OBVIOUS
<1> USE MessagesAssumption
<1>1. ASSUME NEW w \in Workers, NEW m \in Messages, Deliver(w, m)
      PROVE  TypeInv'
  <2> DEFINE row == [sources[m] EXCEPT !.state = "DISCOVERED"]
  <2>1. sources[m] \in SourceRow
    BY DEF TypeInv, TypeOK
  <2>2. row \in SourceRow
    BY <2>1 DEF SourceRow
  <2>3. sources' = sources \/ sources' = [sources EXCEPT ![m] = row]
    BY <1>1 DEF Deliver
  <2>4. sources' \in [Messages -> SourceRow]
    BY <2>2, <2>3 DEF TypeInv, TypeOK
  <2>5. deadRun' \in [Workers -> Nat]
    BY <1>1, <2>1 DEF Deliver, TypeInv, TypeOK, SourceRow
  <2>6. TypeOK'
    BY <1>1, <2>4, <2>5 DEF Deliver, TypeInv, TypeOK, Goto
  <2>7. LocalsOK'
    BY <1>1 DEF Deliver, TypeInv, TypeOK, LocalsOK, Goto
  <2> QED
    BY <2>6, <2>7 DEF TypeInv
<1>2. ASSUME NEW w \in Workers, Inspect(w)
      PROVE  TypeInv'
  <2>1. CASE Resumable(w)
    BY <1>2, <2>1 DEF Inspect, TypeInv, TypeOK, LocalsOK, tables, Goto
  <2>2. CASE ~Resumable(w)
    BY <1>2, <2>2, ReturnType DEF Inspect, TypeInv, TypeOK, LocalsOK, tables
  <2> QED
    BY <2>1, <2>2
<1>3. ASSUME NEW w \in Workers, ReadLegacy(w)
      PROVE  TypeInv'
  BY <1>3 DEF ReadLegacy, TypeInv, TypeOK, LocalsOK, tables, Goto, Holding
<1>4. ASSUME NEW w \in Workers, InsertLegacy(w)
      PROVE  TypeInv'
  <2>1. CASE legacy[msg[w]].status = "ABSENT"
    <3> DEFINE row == [legacy[msg[w]] EXCEPT !.status = "PROCESSING"]
    <3>1. row \in LegacyRow
      <4>1. legacy[msg[w]] \in LegacyRow
        BY <1>4 DEF InsertLegacy, TypeInv, TypeOK, LocalsOK
      <4> QED
        BY <4>1 DEF LegacyRow, LegacyStatus
    <3>2. legacy' = [legacy EXCEPT ![msg[w]] = row]
      BY <1>4, <2>1 DEF InsertLegacy
    <3>3. legacy' \in [Messages -> LegacyRow]
      BY <3>1, <3>2 DEF TypeInv, TypeOK
    <3> QED
      BY <1>4, <2>1, <3>3 DEF InsertLegacy, TypeInv, TypeOK, LocalsOK, Goto
  <2>2. CASE legacy[msg[w]].status # "ABSENT"
    BY <1>4, <2>2, ReturnType DEF InsertLegacy, TypeInv, TypeOK, LocalsOK
  <2> QED
    BY <2>1, <2>2
<1>5. ASSUME NEW w \in Workers, UpdateLegacy(w)
      PROVE  TypeInv'
  BY <1>5 DEF UpdateLegacy, TypeInv, TypeOK, LocalsOK, Goto, Holding, LegacyRow, LegacyStatus
<1>6. ASSUME NEW w \in Workers, ReadAttempts(w)
      PROVE  TypeInv'
  BY <1>6 DEF ReadAttempts, TypeInv, TypeOK, LocalsOK, tables, Goto, Holding, SourceRow
<1>7. ASSUME NEW w \in Workers, ClaimLease(w)
      PROVE  TypeInv'
  <2>1. CASE Claimable(w)
    <3>1. [state |-> "PROCESSING", lease |-> "LIVE", attempts |-> run[w]] \in SourceRow
      BY DEF TypeInv, TypeOK, SourceRow, Leases
    <3>2. sources' \in [Messages -> SourceRow]
      BY <1>7, <2>1, <3>1 DEF ClaimLease, TypeInv, TypeOK
    <3>3. /\ pc' = [pc EXCEPT ![w] = "insertRun"]
          /\ UNCHANGED <<legacy, runs, events, links, reviews, complaints,
                         msg, deadRun, run, target, read, snapshot, outcome, faults>>
      BY <1>7, <2>1 DEF ClaimLease, Goto
    <3>4. TypeOK'
      BY <3>2, <3>3 DEF TypeInv, TypeOK, Holding
    <3>5. LocalsOK'
      BY <1>7, <3>3 DEF ClaimLease, TypeInv, TypeOK, LocalsOK
    <3> QED
      BY <3>4, <3>5 DEF TypeInv
  <2>2. CASE ~Claimable(w)
    BY <1>7, <2>2, ReturnType DEF ClaimLease, TypeInv, TypeOK, LocalsOK
  <2> QED
    BY <2>1, <2>2
<1>8. ASSUME NEW w \in Workers, InsertRun(w)
      PROVE  TypeInv'
  BY <1>8 DEF InsertRun, TypeInv, TypeOK, LocalsOK, Goto, Holding, RunRow
<1>9. ASSUME NEW w \in Workers, MarkIgnored(w)
      PROVE  TypeInv'
  BY <1>9
  DEF MarkIgnored, TypeInv, TypeOK, LocalsOK, Goto, Holding, LegacyRow, LegacyStatus, Outcomes,
      CaseEvents
<1>10. ASSUME NEW w \in Workers, ResolveIdentity(w)
      PROVE  TypeInv'
  <2>1. CASE \E c \in DOMAIN complaints :
               /\ KnownComplaint(msg[w], c)
               /\ target' = [target EXCEPT ![w] = c]
               /\ Goto(w, "readFollowUps")
    <3>1. PICK c \in DOMAIN complaints :
            target' = [target EXCEPT ![w] = c] /\ Goto(w, "readFollowUps")
      BY <2>1
    <3>2. c \in Nat
      BY <3>1 DEF TypeInv, TypeOK
    <3> QED
      BY <1>10, <3>1, <3>2 DEF ResolveIdentity, TypeInv, TypeOK, LocalsOK, tables, Goto, Holding
  <2>2. CASE CaseOf[msg[w]] # NoCase /\ Goto(w, "loadState") /\ UNCHANGED target
    BY <1>10, <2>2 DEF ResolveIdentity, TypeInv, TypeOK, LocalsOK, tables, Goto, Holding
  <2>3. CASE Goto(w, "markReview") /\ UNCHANGED target
    BY <1>10, <2>3 DEF ResolveIdentity, TypeInv, TypeOK, LocalsOK, tables, Goto, Holding
  <2> QED
    BY <1>10, <2>1, <2>2, <2>3 DEF ResolveIdentity
<1>11. ASSUME NEW w \in Workers, ReadFollowUps(w)
      PROVE  TypeInv'
  <2>1. target[w] \in DOMAIN complaints
    BY <1>11 DEF ReadFollowUps, TypeInv, LocalsOK
  <2>2. complaints[target[w]] \in ComplaintRow
    BY <2>1 DEF TypeInv, TypeOK
  <2>3. complaints[target[w]].followUps \in FollowUps
    BY <2>2 DEF ComplaintRow
  <2> QED
    BY <1>11, <2>1, <2>3 DEF ReadFollowUps, TypeInv, TypeOK, LocalsOK, tables, Goto, Holding
<1>12. ASSUME NEW w \in Workers, AttachFollowUp(w)
      PROVE  TypeInv'
  <2> DEFINE row == [complaints[target[w]] EXCEPT !.followUps = Appended(read[w], msg[w])]
  <2>1. target[w] \in DOMAIN complaints /\ target[w] \in Nat /\ msg[w] \in Messages
    BY <1>12 DEF AttachFollowUp, TypeInv, TypeOK, LocalsOK
  <2>2. Appended(read[w], msg[w]) \in FollowUps
    <3>1. read[w] \in [Messages -> Nat] /\ read[w][msg[w]] + 1 \in Nat
      BY <2>1 DEF TypeInv, TypeOK, FollowUps
    <3> QED
      BY <3>1 DEF Appended, FollowUps
  <2>3. complaints[target[w]] \in ComplaintRow
    BY <2>1 DEF TypeInv, TypeOK
  <2>4. row \in ComplaintRow
    BY <2>2, <2>3 DEF ComplaintRow
  <2>5. complaints' = [complaints EXCEPT ![target[w]] = row]
    BY <1>12 DEF AttachFollowUp
  <2>6. complaints' \in Seq(ComplaintRow) /\ DOMAIN complaints' = DOMAIN complaints
    BY <2>1, <2>4, <2>5 DEF TypeInv, TypeOK
  <2>7. legacy' \in [Messages -> LegacyRow]
    BY <1>12, <2>1 DEF AttachFollowUp, TypeInv, TypeOK, LegacyRow, LegacyStatus
  <2>8. read' \in [Workers -> FollowUps]
    BY <1>12 DEF AttachFollowUp, TypeInv, TypeOK, FollowUps, NoFollowUps
  <2> QED
    BY <1>12, <2>1, <2>6, <2>7, <2>8
    DEF AttachFollowUp, TypeInv, TypeOK, LocalsOK, Goto, Holding, Outcomes, CaseEvents
<1>13. ASSUME NEW w \in Workers, LoadState(w)
      PROVE  TypeInv'
  BY <1>13 DEF LoadState, TypeInv, TypeOK, LocalsOK, tables, Goto, Holding
<1>14. ASSUME NEW w \in Workers, PersistCase(w)
      PROVE  TypeInv'
  <2> DEFINE rows == Created(snapshot[w], msg[w])
  <2>1. /\ msg[w] \in Messages
        /\ CaseOf[msg[w]] \in Cases
        /\ snapshot[w] \in Seq(ComplaintRow)
    BY <1>14 DEF PersistCase, TypeInv, TypeOK, LocalsOK
  <2>2. /\ rows \in Seq(ComplaintRow)
        /\ CreatedId(snapshot[w], msg[w]) \in 1..Len(rows)
    BY <2>1, CreatedType
  <2>3. /\ complaints' \in Seq(ComplaintRow)
        /\ DOMAIN complaints \subseteq DOMAIN complaints'
        /\ CreatedId(snapshot[w], msg[w]) \in DOMAIN complaints'
    BY <1>14, <2>2, UpsertedType DEF PersistCase, TypeInv, TypeOK
  <2>4. CreatedId(snapshot[w], msg[w]) \in Nat /\ <<>> \in Seq(ComplaintRow)
    BY <2>2
  <2>5. TypeOK'
    BY <1>14, <2>3, <2>4 DEF PersistCase, TypeInv, TypeOK, Goto, Holding
  <2>6. LocalsOK'
    BY <1>14, <2>3 DEF PersistCase, TypeInv, TypeOK, LocalsOK, Goto
  <2> QED
    BY <2>5, <2>6 DEF TypeInv
<1>15. ASSUME NEW w \in Workers, MarkCase(w)
      PROVE  TypeInv'
  <2> DEFINE row == [legacy[msg[w]] EXCEPT !.status = "PROCESSED", !.complaint = target[w]]
  <2>1. row \in LegacyRow
    <3>1. legacy[msg[w]] \in LegacyRow /\ target[w] \in Nat
      BY <1>15 DEF MarkCase, TypeInv, TypeOK, LocalsOK
    <3> QED
      BY <3>1 DEF LegacyRow, LegacyStatus
  <2>2. legacy' = [legacy EXCEPT ![msg[w]] = row]
    BY <1>15 DEF MarkCase
  <2>3. legacy' \in [Messages -> LegacyRow]
    BY <1>15, <2>1, <2>2 DEF TypeInv, TypeOK
  <2> QED
    BY <1>15, <2>3 DEF MarkCase, TypeInv, TypeOK, LocalsOK, Goto, Holding, Outcomes, CaseEvents
<1>16. ASSUME NEW w \in Workers, MarkReview(w)
      PROVE  TypeInv'
  BY <1>16
  DEF MarkReview, TypeInv, TypeOK, LocalsOK, Goto, Holding, LegacyRow, LegacyStatus, Outcomes,
      CaseEvents
<1>17. ASSUME NEW w \in Workers, CommitEvent(w)
      PROVE  TypeInv'
  <2>1. /\ msg[w] \in Messages
        /\ outcome[w] \in Outcomes
        /\ EventStored(w) \in EventRow
        /\ LinkStored(w) \in LinkRow
    BY <1>17 DEF CommitEvent, TypeInv, TypeOK, LocalsOK, EventStored, EventRow,
                 LinkStored, LinkRow
  <2>2. CASE CommitRejected(w)
    BY <1>17, <2>2 DEF CommitEvent, TypeInv, TypeOK, LocalsOK, Goto, Holding
  <2>3. CASE ~CommitRejected(w)
    <3>1. /\ events' = [events EXCEPT ![msg[w]] = EventStored(w)]
          /\ links' = [links EXCEPT ![msg[w]] = LinkStored(w)]
          /\ reviews' \in {reviews, [reviews EXCEPT ![msg[w]] = @ \cup {run[w]}]}
          /\ pc' = [pc EXCEPT ![w] = "finish"]
          /\ UNCHANGED <<sources, legacy, runs, complaints,
                         msg, deadRun, run, target, read, snapshot, outcome, faults>>
      BY <1>17, <2>3 DEF CommitEvent, Goto
    <3>2. events' \in [Messages -> EventRow] /\ links' \in [Messages -> LinkRow]
      BY <2>1, <3>1 DEF TypeInv, TypeOK
    <3>3. reviews' \in [Messages -> SUBSET Nat]
      <4>1. reviews \in [Messages -> SUBSET Nat] /\ run[w] \in Nat
        BY DEF TypeInv, TypeOK
      <4>2. reviews[msg[w]] \cup {run[w]} \in SUBSET Nat
        BY <2>1, <4>1
      <4> QED
        BY <3>1, <4>1, <4>2
    <3> QED
      BY <2>1, <3>1, <3>2, <3>3 DEF TypeInv, TypeOK, LocalsOK, Holding
  <2> QED
    BY <2>2, <2>3
<1>18. ASSUME NEW w \in Workers, MarkFailed(w)
      PROVE  TypeInv'
  BY <1>18 DEF MarkFailed, TypeInv, TypeOK, LocalsOK, Goto, Holding, LegacyRow, LegacyStatus
<1>19. ASSUME NEW w \in Workers, Finish(w)
      PROVE  TypeInv'
  <2> DEFINE row == [sources[msg[w]] EXCEPT !.state = FinalState(outcome[w]), !.lease = "NONE"]
  <2>1. msg[w] \in Messages /\ sources[msg[w]] \in SourceRow
    BY <1>19 DEF Finish, TypeInv, TypeOK, LocalsOK
  <2>2. FinalState(outcome[w]) \in Settled \cup {"RETRY_WAIT"}
    BY <1>19 DEF Finish, TypeInv, LocalsOK, FinalState, Settled, Outcomes, CaseEvents
  <2>3. row \in SourceRow
    BY <2>1, <2>2 DEF SourceRow, Leases
  <2>4. sources' = sources \/ sources' = [sources EXCEPT ![msg[w]] = row]
    BY <1>19 DEF Finish
  <2>5. sources' \in [Messages -> SourceRow]
    BY <2>3, <2>4 DEF TypeInv, TypeOK
  <2>6. runs' \subseteq RunRow
    BY <1>19, <2>1, <2>2 DEF Finish, FinishedRuns, TypeInv, TypeOK, RunRow
  <2>7. Return(w) /\ UNCHANGED <<legacy, events, links, reviews, complaints, faults>>
    BY <1>19 DEF Finish
  <2> QED
    BY <2>5, <2>6, <2>7, ReturnType DEF TypeInv, TypeOK, LocalsOK
<1>20. ASSUME NEW w \in Workers, StatementFails(w)
      PROVE  TypeInv'
  BY <1>20
  DEF StatementFails, TypeInv, TypeOK, LocalsOK, tables, Goto, Holding, Guarded, NoFollowUps,
      FollowUps
<1>21. ASSUME NEW w \in Workers, Die(w)
      PROVE  TypeInv'
  BY <1>21
  DEF Die, TypeInv, TypeOK, LocalsOK, tables, Goto, Holding, Return, NoFollowUps, FollowUps
<1>22. ASSUME NEW m \in Messages, LeaseExpires(m)
      PROVE  TypeInv'
  <2> DEFINE row == [sources[m] EXCEPT !.lease = "EXPIRED"]
  <2>1. row \in SourceRow
    <3>1. sources[m] \in SourceRow
      BY DEF TypeInv, TypeOK
    <3> QED
      BY <3>1 DEF SourceRow, Leases
  <2>2. sources' = [sources EXCEPT ![m] = row]
    BY <1>22 DEF LeaseExpires
  <2>3. sources' \in [Messages -> SourceRow]
    BY <2>1, <2>2 DEF TypeInv, TypeOK
  <2>4. faults' \in Nat
    BY <1>22 DEF LeaseExpires, TypeInv, TypeOK
  <2> QED
    BY <1>22, <2>3, <2>4 DEF LeaseExpires, locals, TypeInv, TypeOK, LocalsOK
<1>23. CASE UNCHANGED vars
  BY <1>23 DEF vars, locals, TypeInv, TypeOK, LocalsOK, tables, Goto, Holding
<1> QED
  BY <1>1, <1>2, <1>3, <1>4, <1>5, <1>6, <1>7, <1>8, <1>9, <1>10, <1>11, <1>12,
     <1>13, <1>14, <1>15, <1>16, <1>17, <1>18, <1>19, <1>20, <1>21, <1>22, <1>23
  DEF Next, Proceed
\* The strengthened type invariant holds throughout.
LEMMA TypeAlways == Spec => []TypeInv
  BY TypeInit, TypeStep, PTL DEF Spec

\* The tables and the locals of the invocations keep their types.
THEOREM TypeCorrect == Spec => []TypeOK
<1>1. TypeInv => TypeOK
  BY DEF TypeInv
<1> QED
  BY <1>1, TypeAlways, PTL

-----------------------------------------------------------------------------
\* Runs

\* No attempt has been made at first.
LEMMA RunsInit == Init => RunsInv
  BY DEF Init, RunsInv, ExclusiveRuns, Holding

\* Any step of one invocation that claims nothing and keeps the runs: it stays
\* idle or in front of the claim, or goes on with the run it holds, or returns.
LEMMA RunsKept ==
  ASSUME TypeInv, RunsInv, NEW w \in Workers,
         UNCHANGED runs,
         \A m \in Messages :
           /\ sources'[m].attempts = sources[m].attempts
           /\ sources[m].state # "ABSENT" => sources'[m].state # "ABSENT",
         \A v \in Workers \ {w} : pc'[v] = pc[v] /\ msg'[v] = msg[v] /\ run'[v] = run[v],
         \/ pc'[w] = "idle"
         \/ pc'[w] \notin Holding /\ sources'[msg'[w]].state # "ABSENT"
         \/ /\ {pc[w], pc'[w]} \subseteq Holding \ {"insertRun"}
            /\ msg'[w] = msg[w]
            /\ run'[w] = run[w]
  PROVE  RunsInv'
<1>1. ASSUME NEW r \in runs'
      PROVE  r.number <= sources'[r.msg].attempts
  BY DEF TypeInv, TypeOK, RunRow, RunsInv
<1>2. ASSUME NEW v \in Workers, pc'[v] # "idle"
      PROVE  sources'[msg'[v]].state # "ABSENT"
  BY <1>2 DEF TypeInv, LocalsOK, RunsInv, Holding
<1>3. ASSUME NEW v \in Workers, pc'[v] \in Holding
      PROVE  /\ pc[v] \in Holding
             /\ pc[v] # "insertRun" <=> pc'[v] # "insertRun"
             /\ msg'[v] = msg[v] /\ msg[v] \in Messages
             /\ run'[v] = run[v]
  BY <1>3 DEF TypeInv, LocalsOK, Holding
<1>4. ExclusiveRuns'
  <2>1. ASSUME NEW v \in Workers, pc'[v] \in Holding
        PROVE  /\ run'[v] \in 1..sources'[msg'[v]].attempts
               /\ pc'[v] = "insertRun" =>
                    \A r \in runs' : r.msg = msg'[v] => r.number # run'[v]
    BY <1>3, <2>1 DEF RunsInv, ExclusiveRuns
  <2>2. ASSUME NEW v \in Workers, pc'[v] \in Holding,
               NEW u \in Workers \ {v}, pc'[u] \in Holding, msg'[u] = msg'[v]
        PROVE  run'[u] # run'[v]
    BY <1>3, <2>2 DEF RunsInv, ExclusiveRuns
  <2> QED
    BY <2>1, <2>2 DEF ExclusiveRuns
<1> QED
  BY <1>1, <1>2, <1>3, <1>4 DEF RunsInv

\* Claiming, inserting the run row and finishing keep the runs apart, and no
\* other step touches them.
LEMMA RunsStep == TypeInv /\ TypeInv' /\ RunsInv /\ [Next]_vars => RunsInv'
<1> SUFFICES ASSUME TypeInv, TypeInv', RunsInv, [Next]_vars
             PROVE  RunsInv'
  OBVIOUS
<1> USE MessagesAssumption
<1>1. ASSUME NEW w \in Workers, NEW m \in Messages, Deliver(w, m)
      PROVE  RunsInv'
  <2>1. \A x \in Messages :
          /\ sources'[x].attempts = sources[x].attempts
          /\ sources[x].state # "ABSENT" => sources'[x].state # "ABSENT"
    BY <1>1 DEF Deliver, TypeInv, TypeOK, SourceRow
  <2>2. \A v \in Workers \ {w} : pc'[v] = pc[v] /\ msg'[v] = msg[v] /\ run'[v] = run[v]
    BY <1>1 DEF Deliver, TypeInv, TypeOK, Goto
  <2>3. pc'[w] \in {"readLegacy", "inspect"} /\ sources'[msg'[w]].state # "ABSENT"
    BY <1>1 DEF Deliver, TypeInv, TypeOK, SourceRow, Goto
  <2> QED
    BY <1>1, <2>1, <2>2, <2>3, RunsKept DEF Deliver, Holding
<1>2. ASSUME NEW w \in Workers, Inspect(w)
      PROVE  RunsInv'
  <2>1. CASE Resumable(w)
    BY <1>2, <2>1
    DEF Inspect, TypeInv, TypeOK, LocalsOK, RunsInv, ExclusiveRuns, tables, Goto, Holding
  <2>2. CASE ~(Resumable(w))
    <3>1. Return(w) /\ UNCHANGED <<sources, runs>>
      BY <1>2, <2>2 DEF Inspect, tables
    <3> QED
      BY <3>1, RunsKept, ReturnType
  <2> QED
    BY <2>1, <2>2
<1>3. ASSUME NEW w \in Workers, ReadLegacy(w)
      PROVE  RunsInv'
  BY <1>3 DEF ReadLegacy, TypeInv, TypeOK, LocalsOK, RunsInv, ExclusiveRuns, tables, Goto, Holding
<1>4. ASSUME NEW w \in Workers, InsertLegacy(w)
      PROVE  RunsInv'
  <2>1. CASE legacy[msg[w]].status = "ABSENT"
    BY <1>4, <2>1
    DEF InsertLegacy, TypeInv, TypeOK, LocalsOK, RunsInv, ExclusiveRuns, Goto, Holding
  <2>2. CASE ~(legacy[msg[w]].status = "ABSENT")
    <3>1. Return(w) /\ UNCHANGED <<sources, runs>>
      BY <1>4, <2>2 DEF InsertLegacy
    <3> QED
      BY <3>1, RunsKept, ReturnType
  <2> QED
    BY <2>1, <2>2
<1>5. ASSUME NEW w \in Workers, UpdateLegacy(w)
      PROVE  RunsInv'
  BY <1>5 DEF UpdateLegacy, TypeInv, TypeOK, LocalsOK, RunsInv, ExclusiveRuns, Goto, Holding
<1>6. ASSUME NEW w \in Workers, ReadAttempts(w)
      PROVE  RunsInv'
  BY <1>6
  DEF ReadAttempts, TypeInv, TypeOK, LocalsOK, RunsInv, ExclusiveRuns, tables, Goto, Holding
<1>7. ASSUME NEW w \in Workers, ClaimLease(w)
      PROVE  RunsInv'
  <2>1. CASE ~Claimable(w)
    BY <1>7, <2>1, RunsKept, ReturnType DEF ClaimLease
  <2>2. CASE Claimable(w)
    <3> DEFINE m == msg[w]
    <3>1. /\ m \in Messages
          /\ run[w] = sources[m].attempts + 1
          /\ sources' = [sources EXCEPT ![m] =
                           [state |-> "PROCESSING", lease |-> "LIVE", attempts |-> run[w]]]
          /\ pc' = [pc EXCEPT ![w] = "insertRun"]
          /\ UNCHANGED <<runs, msg, run>>
      BY <1>7, <2>2 DEF ClaimLease, Claimable, Goto, TypeInv, TypeOK, LocalsOK
    <3>2. \A x \in Messages :
            /\ sources[x].attempts \in Nat
            /\ sources'[x].attempts = IF x = m THEN sources[x].attempts + 1
                                               ELSE sources[x].attempts
            /\ sources[x].state # "ABSENT" => sources'[x].state # "ABSENT"
      BY <3>1 DEF TypeInv, TypeOK, SourceRow
    <3>3. \A r \in runs : r.msg \in Messages /\ r.number \in Nat
      BY DEF TypeInv, TypeOK, RunRow
    <3>4. ASSUME NEW v \in Workers
          PROVE  /\ pc[v] \in Holding => msg[v] \in Messages
                 /\ run[v] \in Nat
                 /\ pc'[v] = IF v = w THEN "insertRun" ELSE pc[v]
      BY <3>1 DEF TypeInv, TypeOK, LocalsOK, Holding
    <3>5. \A r \in runs : r.number <= sources'[r.msg].attempts
      BY <3>2, <3>3 DEF RunsInv
    <3>6. ExclusiveRuns'
      BY <3>1, <3>2, <3>3, <3>4 DEF RunsInv, ExclusiveRuns, Holding
    <3> QED
      BY <1>7, <3>1, <3>2, <3>4, <3>5, <3>6 DEF ClaimLease, RunsInv, TypeInv, LocalsOK
  <2> QED
    BY <2>1, <2>2
<1>8. ASSUME NEW w \in Workers, InsertRun(w)
      PROVE  RunsInv'
  <2> DEFINE row == [msg |-> msg[w], number |-> run[w], status |-> "PROCESSING"]
  <2>1. /\ runs' = runs \cup {row}
        /\ pc[w] = "insertRun"
        /\ pc' = [pc EXCEPT ![w] = "normalize"]
        /\ UNCHANGED <<sources, msg, run>>
    BY <1>8 DEF InsertRun, Goto
  <2>2. /\ run[w] \in 1..sources[msg[w]].attempts
        /\ \A r \in runs : r.msg = msg[w] => r.number # run[w]
    BY <2>1 DEF RunsInv, ExclusiveRuns, Holding
  <2>3. ASSUME NEW v \in Workers
        PROVE  pc'[v] = IF v = w THEN "normalize" ELSE pc[v]
    BY <2>1 DEF TypeInv, TypeOK
  <2>4. \A r \in runs' : r.number <= sources'[r.msg].attempts
    BY <2>1, <2>2 DEF RunsInv
  <2>5. ASSUME NEW v \in Workers, pc'[v] \in Holding \ {"insertRun"}
        PROVE  /\ \E r \in runs' : r.msg = msg'[v] /\ r.number = run'[v]
               /\ \A r \in runs' :
                    r.msg = msg'[v] /\ r.number = run'[v] => r.status = "PROCESSING"
    <3>1. CASE v = w
      <4>1. /\ row \in runs'
            /\ row.msg = msg[w] /\ row.number = run[w] /\ row.status = "PROCESSING"
        BY <2>1
      <4>2. \A r \in runs' : r.msg = msg[w] /\ r.number = run[w] => r = row
        BY <2>1, <2>2
      <4> QED
        BY <2>1, <3>1, <4>1, <4>2
    <3>2. CASE v # w
      <4>1. pc[v] \in Holding \ {"insertRun"} /\ ~(msg[v] = msg[w] /\ run[v] = run[w])
        BY <2>1, <2>3, <2>5, <3>2 DEF RunsInv, ExclusiveRuns, Holding
      <4> QED
        BY <2>1, <4>1 DEF RunsInv
    <3> QED
      BY <3>1, <3>2
  <2>6. ExclusiveRuns'
    BY <2>1, <2>3 DEF RunsInv, ExclusiveRuns, Holding
  <2> QED
    BY <2>1, <2>3, <2>4, <2>5, <2>6 DEF RunsInv
<1>9. ASSUME NEW w \in Workers, MarkIgnored(w)
      PROVE  RunsInv'
  BY <1>9 DEF MarkIgnored, TypeInv, TypeOK, LocalsOK, RunsInv, ExclusiveRuns, Goto, Holding
<1>10. ASSUME NEW w \in Workers, ResolveIdentity(w)
      PROVE  RunsInv'
  <2>1. /\ pc' \in {[pc EXCEPT ![w] = "readFollowUps"], [pc EXCEPT ![w] = "loadState"],
                    [pc EXCEPT ![w] = "markReview"]}
        /\ pc[w] = "normalize"
        /\ UNCHANGED <<sources, runs, msg, run>>
    BY <1>10 DEF ResolveIdentity, Goto, tables
  <2>2. /\ pc'[w] \in {"readFollowUps", "loadState", "markReview"}
        /\ \A v \in Workers \ {w} : pc'[v] = pc[v]
    BY <2>1 DEF TypeInv, TypeOK
  <2> QED
    BY <2>1, <2>2, RunsKept DEF Holding
<1>11. ASSUME NEW w \in Workers, ReadFollowUps(w)
      PROVE  RunsInv'
  BY <1>11
  DEF ReadFollowUps, TypeInv, TypeOK, LocalsOK, RunsInv, ExclusiveRuns, tables, Goto, Holding
<1>12. ASSUME NEW w \in Workers, AttachFollowUp(w)
      PROVE  RunsInv'
  BY <1>12 DEF AttachFollowUp, TypeInv, TypeOK, LocalsOK, RunsInv, ExclusiveRuns, Goto, Holding
<1>13. ASSUME NEW w \in Workers, LoadState(w)
      PROVE  RunsInv'
  BY <1>13 DEF LoadState, TypeInv, TypeOK, LocalsOK, RunsInv, ExclusiveRuns, tables, Goto, Holding
<1>14. ASSUME NEW w \in Workers, PersistCase(w)
      PROVE  RunsInv'
  BY <1>14 DEF PersistCase, TypeInv, TypeOK, LocalsOK, RunsInv, ExclusiveRuns, Goto, Holding
<1>15. ASSUME NEW w \in Workers, MarkCase(w)
      PROVE  RunsInv'
  BY <1>15 DEF MarkCase, TypeInv, TypeOK, LocalsOK, RunsInv, ExclusiveRuns, Goto, Holding
<1>16. ASSUME NEW w \in Workers, MarkReview(w)
      PROVE  RunsInv'
  BY <1>16 DEF MarkReview, TypeInv, TypeOK, LocalsOK, RunsInv, ExclusiveRuns, Goto, Holding
<1>17. ASSUME NEW w \in Workers, CommitEvent(w)
      PROVE  RunsInv'
  <2>1. /\ pc' \in {[pc EXCEPT ![w] = "finish"], [pc EXCEPT ![w] = "markFailed"]}
        /\ pc[w] = "commitEvent"
        /\ UNCHANGED <<sources, runs, msg, run>>
    BY <1>17 DEF CommitEvent, Goto
  <2>2. /\ pc'[w] \in {"finish", "markFailed"}
        /\ \A v \in Workers \ {w} : pc'[v] = pc[v]
    BY <2>1 DEF TypeInv, TypeOK
  <2> QED
    BY <2>1, <2>2, RunsKept DEF Holding
<1>18. ASSUME NEW w \in Workers, MarkFailed(w)
      PROVE  RunsInv'
  BY <1>18 DEF MarkFailed, TypeInv, TypeOK, LocalsOK, RunsInv, ExclusiveRuns, Goto, Holding
<1>19. ASSUME NEW w \in Workers, Finish(w)
      PROVE  RunsInv'
  <2> DEFINE row == [msg |-> msg[w], number |-> run[w], status |-> FinalState(outcome[w])]
  <2>1. /\ pc[w] = "finish"
        /\ msg[w] \in Messages
        /\ runs' = {r \in runs : ~(r.msg = msg[w] /\ r.number = run[w])} \cup {row}
        /\ Return(w)
    BY <1>19 DEF Finish, FinishedRuns, TypeInv, LocalsOK
  <2>2. /\ pc'[w] = "idle"
        /\ \A v \in Workers \ {w} : pc'[v] = pc[v] /\ msg'[v] = msg[v] /\ run'[v] = run[v]
    BY <2>1, ReturnType
  <2>3. \A m \in Messages :
          /\ sources'[m].attempts = sources[m].attempts
          /\ sources[m].state # "ABSENT" => sources'[m].state # "ABSENT"
    <3>1. FinalState(outcome[w]) # "ABSENT"
      BY <2>1 DEF FinalState, TypeInv, LocalsOK, Outcomes, CaseEvents
    <3>2. sources \in [Messages -> SourceRow]
      BY DEF TypeInv, TypeOK
    <3> QED
      BY <1>19, <2>1, <3>1, <3>2 DEF Finish, SourceRow
  <2>4. ASSUME NEW v \in Workers, pc'[v] \in Holding
        PROVE  /\ v # w
               /\ pc[v] = pc'[v] /\ pc[v] \in Holding
               /\ msg'[v] = msg[v] /\ msg[v] \in Messages
               /\ run'[v] = run[v]
               /\ msg[v] = msg[w] => run[v] # run[w]
    BY <2>1, <2>2, <2>4 DEF RunsInv, ExclusiveRuns, TypeInv, LocalsOK, Holding
  <2>5. run[w] \in 1..sources[msg[w]].attempts
    BY <2>1 DEF RunsInv, ExclusiveRuns, Holding
  <2>6. ASSUME NEW r \in runs'
        PROVE  r.number <= sources'[r.msg].attempts
    BY <2>1, <2>3, <2>5 DEF RunsInv, TypeInv, TypeOK, RunRow
  <2>7. ASSUME NEW v \in Workers, pc'[v] \in Holding \ {"insertRun"}
        PROVE  /\ \E r \in runs' : r.msg = msg'[v] /\ r.number = run'[v]
               /\ \A r \in runs' :
                    r.msg = msg'[v] /\ r.number = run'[v] => r.status = "PROCESSING"
    BY <2>1, <2>4, <2>7 DEF RunsInv
  <2>8. ExclusiveRuns'
    BY <2>1, <2>3, <2>4 DEF RunsInv, ExclusiveRuns
  <2>9. ASSUME NEW v \in Workers, pc'[v] # "idle"
        PROVE  sources'[msg'[v]].state # "ABSENT"
    BY <2>2, <2>3, <2>9 DEF RunsInv, TypeInv, LocalsOK
  <2> QED
    BY <2>6, <2>7, <2>8, <2>9 DEF RunsInv
<1>20. ASSUME NEW w \in Workers, StatementFails(w)
      PROVE  RunsInv'
  BY <1>20
  DEF StatementFails, TypeInv, TypeOK, LocalsOK, RunsInv, ExclusiveRuns, tables, Goto, Holding,
      Guarded
<1>21. ASSUME NEW w \in Workers, Die(w)
      PROVE  RunsInv'
  BY <1>21, RunsKept, ReturnType DEF Die, tables
<1>22. ASSUME NEW m \in Messages, LeaseExpires(m)
      PROVE  RunsInv'
  BY <1>22 DEF LeaseExpires, TypeInv, TypeOK, LocalsOK, RunsInv, ExclusiveRuns, Holding, locals
<1>23. CASE UNCHANGED vars
  BY <1>23
  DEF vars, locals, TypeInv, TypeOK, LocalsOK, RunsInv, ExclusiveRuns, tables, Goto, Holding
<1> QED
  BY <1>1, <1>2, <1>3, <1>4, <1>5, <1>6, <1>7, <1>8, <1>9, <1>10, <1>11, <1>12,
     <1>13, <1>14, <1>15, <1>16, <1>17, <1>18, <1>19, <1>20, <1>21, <1>22, <1>23
  DEF Next, Proceed
\* The invariant of the runs holds throughout.
LEMMA RunsAlways == Spec => []RunsInv
  BY TypeAlways, RunsInit, RunsStep, PTL DEF Spec

\* No two invocations hold the same attempt at a message.
THEOREM RunsAreExclusive == Spec => []ExclusiveRuns
<1>1. RunsInv => ExclusiveRuns
  BY DEF RunsInv
<1> QED
  BY <1>1, RunsAlways, PTL

-----------------------------------------------------------------------------
\* The ledger

\* The ledger is empty at first.
LEMMA LedgerInit == Init => LedgerInv
  BY DEF Init, LedgerInv, KindInv, LedgerAgrees, FinishReady, SettledStateIsBacked, Backed,
         CaseEvents, Settled

\* An invocation that ends without writing to the ledger.
LEMMA LedgerReturn ==
  ASSUME TypeInv, LedgerInv, NEW w \in Workers, Return(w), UNCHANGED <<events, links>>
  PROVE  KindInv' /\ FinishReady'
<1>1. /\ pc'[w] = "idle"
      /\ \A v \in Workers \ {w} : pc'[v] = pc[v] /\ msg'[v] = msg[v] /\ outcome'[v] = outcome[v]
  BY ReturnType
<1> QED
  BY <1>1 DEF LedgerInv, KindInv, FinishReady

\* Every step keeps extraction and the recorded event in agreement.
LEMMA KindStep ==
  TypeInv /\ TypeInv' /\ RunsInv /\ RunsInv' /\ LedgerInv /\ [Next]_vars =>
    KindInv'
<1> SUFFICES ASSUME TypeInv, TypeInv', RunsInv, RunsInv', LedgerInv, [Next]_vars
             PROVE  KindInv'
  OBVIOUS
<1>1. ASSUME NEW w \in Workers, NEW m \in Messages, Deliver(w, m)
      PROVE  KindInv'
  BY <1>1 DEF Deliver, TypeInv, TypeOK, Goto, LedgerInv, LocalsOK, KindInv
<1>2. ASSUME NEW w \in Workers, Inspect(w)
      PROVE  KindInv'
  <2>1. CASE Resumable(w)
    BY <1>2, <2>1 DEF Inspect, TypeInv, TypeOK, LocalsOK, tables, Goto, LedgerInv, KindInv
  <2>2. CASE ~Resumable(w)
    <3>1. Return(w) /\ UNCHANGED <<events, links>>
      BY <1>2, <2>2 DEF Inspect, tables
    <3> QED
      BY <3>1, LedgerReturn
  <2> QED
    BY <2>1, <2>2
<1>3. ASSUME NEW w \in Workers, ReadLegacy(w)
      PROVE  KindInv'
  BY <1>3 DEF ReadLegacy, TypeInv, TypeOK, tables, Goto, LedgerInv, LocalsOK, KindInv
<1>4. ASSUME NEW w \in Workers, InsertLegacy(w)
      PROVE  KindInv'
  <2>1. CASE legacy[msg[w]].status = "ABSENT"
    BY <1>4, <2>1 DEF InsertLegacy, TypeInv, TypeOK, LocalsOK, Goto, LedgerInv, KindInv
  <2>2. CASE legacy[msg[w]].status # "ABSENT"
    <3>1. Return(w) /\ UNCHANGED <<events, links>>
      BY <1>4, <2>2 DEF InsertLegacy
    <3> QED
      BY <3>1, LedgerReturn
  <2> QED
    BY <2>1, <2>2
<1>5. ASSUME NEW w \in Workers, UpdateLegacy(w)
      PROVE  KindInv'
  BY <1>5 DEF UpdateLegacy, TypeInv, TypeOK, Goto, LedgerInv, LocalsOK, KindInv
<1>6. ASSUME NEW w \in Workers, ReadAttempts(w)
      PROVE  KindInv'
  BY <1>6 DEF ReadAttempts, TypeInv, TypeOK, tables, Goto, LedgerInv, LocalsOK, KindInv
<1>7. ASSUME NEW w \in Workers, ClaimLease(w)
      PROVE  KindInv'
  <2>1. CASE Claimable(w)
    BY <1>7, <2>1 DEF ClaimLease, TypeInv, TypeOK, LocalsOK, Goto, LedgerInv, KindInv
  <2>2. CASE ~Claimable(w)
    <3>1. Return(w) /\ UNCHANGED <<events, links>>
      BY <1>7, <2>2 DEF ClaimLease
    <3> QED
      BY <3>1, LedgerReturn
  <2> QED
    BY <2>1, <2>2
<1>8. ASSUME NEW w \in Workers, InsertRun(w)
      PROVE  KindInv'
  BY <1>8 DEF InsertRun, TypeInv, TypeOK, Goto, LedgerInv, LocalsOK, KindInv
<1>9. ASSUME NEW w \in Workers, MarkIgnored(w)
      PROVE  KindInv'
  BY <1>9 DEF MarkIgnored, TypeInv, TypeOK, Goto, LedgerInv, LocalsOK, KindInv, Outcomes
<1>10. ASSUME NEW w \in Workers, ResolveIdentity(w)
      PROVE  KindInv'
  BY <1>10 DEF ResolveIdentity, TypeInv, TypeOK, tables, Goto, LedgerInv, LocalsOK, KindInv
<1>11. ASSUME NEW w \in Workers, ReadFollowUps(w)
      PROVE  KindInv'
  BY <1>11 DEF ReadFollowUps, TypeInv, TypeOK, tables, Goto, LedgerInv, LocalsOK, KindInv
<1>12. ASSUME NEW w \in Workers, AttachFollowUp(w)
      PROVE  KindInv'
  BY <1>12 DEF AttachFollowUp, TypeInv, TypeOK, Goto, LedgerInv, LocalsOK, KindInv, CaseEvents
<1>13. ASSUME NEW w \in Workers, LoadState(w)
      PROVE  KindInv'
  BY <1>13 DEF LoadState, TypeInv, TypeOK, tables, Goto, LedgerInv, LocalsOK, KindInv
<1>14. ASSUME NEW w \in Workers, PersistCase(w)
      PROVE  KindInv'
  BY <1>14 DEF PersistCase, TypeInv, TypeOK, Goto, LedgerInv, LocalsOK, KindInv
<1>15. ASSUME NEW w \in Workers, MarkCase(w)
      PROVE  KindInv'
  BY <1>15 DEF MarkCase, TypeInv, TypeOK, Goto, LedgerInv, LocalsOK, KindInv
<1>16. ASSUME NEW w \in Workers, MarkReview(w)
      PROVE  KindInv'
  BY <1>16 DEF MarkReview, TypeInv, TypeOK, Goto, LedgerInv, LocalsOK, KindInv
<1>17. ASSUME NEW w \in Workers, CommitEvent(w)
      PROVE  KindInv'
  <2>1. /\ msg[w] \in Messages
        /\ outcome[w] \in Outcomes
        /\ outcome[w] = "NON_ACTIONABLE" <=> msg[w] \notin Complaints
    BY <1>17 DEF CommitEvent, TypeInv, LocalsOK, LedgerInv, KindInv, Outcomes, CaseEvents
  <2>2. ASSUME NEW m \in Messages, events'[m].type # "NONE"
        PROVE  events'[m].type = "NON_ACTIONABLE" <=> m \notin Complaints
    <3>1. CASE m = msg[w] /\ events[m].type = "NONE" /\ ~CommitRejected(w)
      <4>1. events'[m] = EventStored(w)
        BY <1>17, <3>1 DEF CommitEvent, TypeInv, TypeOK
      <4>2. events'[m].type = outcome[w]
        BY <3>1, <4>1 DEF EventStored
      <4> QED
        BY <2>1, <3>1, <4>2
    <3>2. CASE ~(m = msg[w] /\ events[m].type = "NONE" /\ ~CommitRejected(w))
      <4>1. events'[m] = events[m]
        BY <1>17, <3>2 DEF CommitEvent, EventStored, TypeInv, TypeOK
      <4> QED
        BY <2>2, <4>1 DEF LedgerInv, KindInv
    <3> QED
      BY <3>1, <3>2
  <2>3. UNCHANGED <<msg, outcome>> /\ pc[w] = "commitEvent"
    BY <1>17 DEF CommitEvent
  <2>4. \A v \in Workers : pc'[v] = pc[v] \/ (v = w /\ pc'[v] \in {"finish", "markFailed"})
    BY <1>17 DEF CommitEvent, Goto, TypeInv, TypeOK
  <2> QED
    BY <2>1, <2>2, <2>3, <2>4 DEF LedgerInv, KindInv
<1>18. ASSUME NEW w \in Workers, MarkFailed(w)
      PROVE  KindInv'
  BY <1>18 DEF MarkFailed, TypeInv, TypeOK, Goto, LedgerInv, LocalsOK, KindInv
<1>19. ASSUME NEW w \in Workers, Finish(w)
      PROVE  KindInv'
  <2>1. Return(w) /\ UNCHANGED <<events, links>>
    BY <1>19 DEF Finish
  <2> QED
    BY <2>1, LedgerReturn
<1>20. ASSUME NEW w \in Workers, StatementFails(w)
      PROVE  KindInv'
  BY <1>20 DEF StatementFails, TypeInv, TypeOK, tables, Goto, LedgerInv, LocalsOK, KindInv
<1>21. ASSUME NEW w \in Workers, Die(w)
      PROVE  KindInv'
  <2>1. Return(w) /\ UNCHANGED <<events, links>>
    BY <1>21 DEF Die, tables
  <2> QED
    BY <2>1, LedgerReturn
<1>22. ASSUME NEW m \in Messages, LeaseExpires(m)
      PROVE  KindInv'
  BY <1>22 DEF LeaseExpires, TypeInv, TypeOK, LedgerInv, LocalsOK, KindInv, locals
<1>23. CASE UNCHANGED vars
  BY <1>23 DEF vars, locals, TypeInv, TypeOK, tables, Goto, LedgerInv, LocalsOK, KindInv
<1> QED
  BY <1>1, <1>2, <1>3, <1>4, <1>5, <1>6, <1>7, <1>8, <1>9, <1>10, <1>11, <1>12,
     <1>13, <1>14, <1>15, <1>16, <1>17, <1>18, <1>19, <1>20, <1>21, <1>22, <1>23
  DEF Next, Proceed

\* Every step keeps event, link and review items of a message in agreement.
LEMMA AgreementStep ==
  TypeInv /\ TypeInv' /\ RunsInv /\ RunsInv' /\ LedgerInv /\ [Next]_vars =>
    LedgerAgrees'
<1> SUFFICES ASSUME TypeInv, TypeInv', RunsInv, RunsInv', LedgerInv, [Next]_vars
             PROVE  LedgerAgrees'
  OBVIOUS
<1>1. ASSUME NEW w \in Workers, NEW m \in Messages, Deliver(w, m)
      PROVE  LedgerAgrees'
  BY <1>1 DEF Deliver, TypeInv, TypeOK, Goto, LedgerInv, LedgerAgrees, LocalsOK
<1>2. ASSUME NEW w \in Workers, Inspect(w)
      PROVE  LedgerAgrees'
  BY <1>2 DEF Inspect, TypeInv, TypeOK, tables, Goto, LedgerInv, LedgerAgrees, LocalsOK
<1>3. ASSUME NEW w \in Workers, ReadLegacy(w)
      PROVE  LedgerAgrees'
  BY <1>3 DEF ReadLegacy, TypeInv, TypeOK, tables, Goto, LedgerInv, LedgerAgrees, LocalsOK
<1>4. ASSUME NEW w \in Workers, InsertLegacy(w)
      PROVE  LedgerAgrees'
  BY <1>4 DEF InsertLegacy, TypeInv, TypeOK, Goto, LedgerInv, LedgerAgrees, LocalsOK
<1>5. ASSUME NEW w \in Workers, UpdateLegacy(w)
      PROVE  LedgerAgrees'
  BY <1>5 DEF UpdateLegacy, TypeInv, TypeOK, Goto, LedgerInv, LedgerAgrees, LocalsOK
<1>6. ASSUME NEW w \in Workers, ReadAttempts(w)
      PROVE  LedgerAgrees'
  BY <1>6 DEF ReadAttempts, TypeInv, TypeOK, tables, Goto, LedgerInv, LedgerAgrees, LocalsOK
<1>7. ASSUME NEW w \in Workers, ClaimLease(w)
      PROVE  LedgerAgrees'
  BY <1>7 DEF ClaimLease, TypeInv, TypeOK, Goto, LedgerInv, LedgerAgrees, LocalsOK
<1>8. ASSUME NEW w \in Workers, InsertRun(w)
      PROVE  LedgerAgrees'
  BY <1>8 DEF InsertRun, TypeInv, TypeOK, Goto, LedgerInv, LedgerAgrees, LocalsOK
<1>9. ASSUME NEW w \in Workers, MarkIgnored(w)
      PROVE  LedgerAgrees'
  BY <1>9 DEF MarkIgnored, TypeInv, TypeOK, Goto, LedgerInv, LedgerAgrees, LocalsOK
<1>10. ASSUME NEW w \in Workers, ResolveIdentity(w)
      PROVE  LedgerAgrees'
  BY <1>10 DEF ResolveIdentity, TypeInv, TypeOK, tables, Goto, LedgerInv, LedgerAgrees, LocalsOK
<1>11. ASSUME NEW w \in Workers, ReadFollowUps(w)
      PROVE  LedgerAgrees'
  BY <1>11 DEF ReadFollowUps, TypeInv, TypeOK, tables, Goto, LedgerInv, LedgerAgrees, LocalsOK
<1>12. ASSUME NEW w \in Workers, AttachFollowUp(w)
      PROVE  LedgerAgrees'
  BY <1>12 DEF AttachFollowUp, TypeInv, TypeOK, Goto, LedgerInv, LedgerAgrees, LocalsOK
<1>13. ASSUME NEW w \in Workers, LoadState(w)
      PROVE  LedgerAgrees'
  BY <1>13 DEF LoadState, TypeInv, TypeOK, tables, Goto, LedgerInv, LedgerAgrees, LocalsOK
<1>14. ASSUME NEW w \in Workers, PersistCase(w)
      PROVE  LedgerAgrees'
  <2>1. DOMAIN complaints \subseteq DOMAIN complaints'
    <3>1. /\ msg[w] \in Messages
          /\ CaseOf[msg[w]] \in Cases
          /\ snapshot[w] \in Seq(ComplaintRow)
      BY <1>14 DEF PersistCase, TypeInv, TypeOK, LocalsOK
    <3>2. Created(snapshot[w], msg[w]) \in Seq(ComplaintRow)
      BY <3>1, CreatedType
    <3>3. complaints \in Seq(ComplaintRow)
      BY DEF TypeInv, TypeOK
    <3> QED
      BY <1>14, <3>2, <3>3, UpsertedType DEF PersistCase
  <2>2. UNCHANGED <<runs, events, links, reviews>>
    BY <1>14 DEF PersistCase
  <2> QED
    BY <2>1, <2>2 DEF LedgerInv, LedgerAgrees
<1>15. ASSUME NEW w \in Workers, MarkCase(w)
      PROVE  LedgerAgrees'
  BY <1>15 DEF MarkCase, TypeInv, TypeOK, Goto, LedgerInv, LedgerAgrees, LocalsOK
<1>16. ASSUME NEW w \in Workers, MarkReview(w)
      PROVE  LedgerAgrees'
  BY <1>16 DEF MarkReview, TypeInv, TypeOK, Goto, LedgerInv, LedgerAgrees, LocalsOK
<1>17. ASSUME NEW w \in Workers, CommitEvent(w)
      PROVE  LedgerAgrees'
  <2>1. /\ msg[w] \in Messages
        /\ outcome[w] \in Outcomes
        /\ outcome[w] \in CaseEvents => target[w] \in DOMAIN complaints
        /\ \E r \in runs : r.msg = msg[w] /\ r.number = run[w]
        /\ UNCHANGED <<runs, complaints>>
    BY <1>17 DEF CommitEvent, TypeInv, LocalsOK, RunsInv, Holding
  <2>2. CASE CommitRejected(w)
    BY <1>17, <2>1, <2>2 DEF CommitEvent, LedgerInv, LedgerAgrees
  <2>3. CASE ~CommitRejected(w)
    <3> DEFINE stored == IF outcome[w] = "REVIEW_REQUIRED" THEN reviews[msg[w]] \cup {run[w]}
                                                           ELSE reviews[msg[w]]
    <3>1. /\ events' = [events EXCEPT ![msg[w]] = EventStored(w)]
          /\ links' = [links EXCEPT ![msg[w]] = LinkStored(w)]
          /\ reviews' = [reviews EXCEPT ![msg[w]] = stored]
      BY <1>17, <2>3 DEF CommitEvent, TypeInv, TypeOK
    <3>2. \A m \in Messages \ {msg[w]} :
            events'[m] = events[m] /\ links'[m] = links[m] /\ reviews'[m] = reviews[m]
      BY <3>1 DEF TypeInv, TypeOK
    <3>3. /\ events'[msg[w]] = EventStored(w)
          /\ links'[msg[w]] = LinkStored(w)
          /\ reviews'[msg[w]] = stored
      BY <2>1, <3>1 DEF TypeInv, TypeOK
    <3>4. /\ LinkStored(w).role # "NONE" =>
               /\ EventStored(w).type \in CaseEvents
               /\ LinkStored(w).complaint = EventStored(w).complaint
               /\ LinkStored(w).complaint \in DOMAIN complaints
          /\ stored = IF EventStored(w).type = "REVIEW_REQUIRED" THEN {EventStored(w).run} ELSE {}
          /\ \E r \in runs : r.msg = msg[w] /\ r.number = EventStored(w).run
      BY <2>1, <2>3 DEF CommitRejected, EventStored, LinkStored, LedgerInv, LedgerAgrees,
                        Outcomes, CaseEvents
    <3> QED
      BY <2>1, <3>2, <3>3, <3>4 DEF LedgerInv, LedgerAgrees
  <2> QED
    BY <2>2, <2>3
<1>18. ASSUME NEW w \in Workers, MarkFailed(w)
      PROVE  LedgerAgrees'
  BY <1>18 DEF MarkFailed, TypeInv, TypeOK, Goto, LedgerInv, LedgerAgrees, LocalsOK
<1>19. ASSUME NEW w \in Workers, Finish(w)
      PROVE  LedgerAgrees'
  <2> DEFINE row == [msg |-> msg[w], number |-> run[w], status |-> FinalState(outcome[w])]
  <2>1. /\ runs' = {r \in runs : ~(r.msg = msg[w] /\ r.number = run[w])} \cup {row}
        /\ UNCHANGED <<events, links, reviews, complaints>>
    BY <1>19 DEF Finish, FinishedRuns
  <2>2. ASSUME NEW r \in runs
        PROVE  \E q \in runs' : q.msg = r.msg /\ q.number = r.number
    <3>1. CASE r.msg = msg[w] /\ r.number = run[w]
      <4>1. row \in runs' /\ row.msg = msg[w] /\ row.number = run[w]
        BY <2>1
      <4> QED
        BY <3>1, <4>1
    <3>2. CASE ~(r.msg = msg[w] /\ r.number = run[w])
      BY <2>1, <3>2
    <3> QED
      BY <3>1, <3>2
  <2> QED
    BY <2>1, <2>2 DEF LedgerInv, LedgerAgrees
<1>20. ASSUME NEW w \in Workers, StatementFails(w)
      PROVE  LedgerAgrees'
  BY <1>20 DEF StatementFails, TypeInv, TypeOK, tables, Goto, LedgerInv, LedgerAgrees, LocalsOK
<1>21. ASSUME NEW w \in Workers, Die(w)
      PROVE  LedgerAgrees'
  BY <1>21 DEF Die, TypeInv, TypeOK, tables, LedgerInv, LedgerAgrees, LocalsOK
<1>22. ASSUME NEW m \in Messages, LeaseExpires(m)
      PROVE  LedgerAgrees'
  BY <1>22 DEF LeaseExpires, TypeInv, TypeOK, LedgerInv, LedgerAgrees, LocalsOK, locals
<1>23. CASE UNCHANGED vars
  BY <1>23 DEF vars, locals, TypeInv, TypeOK, tables, Goto, LedgerInv, LedgerAgrees, LocalsOK
<1> QED
  BY <1>1, <1>2, <1>3, <1>4, <1>5, <1>6, <1>7, <1>8, <1>9, <1>10, <1>11, <1>12,
     <1>13, <1>14, <1>15, <1>16, <1>17, <1>18, <1>19, <1>20, <1>21, <1>22, <1>23
  DEF Next, Proceed

\* An invocation reaches finishProcessing only with its outcome in the ledger or
\* as FAILED, and no later step takes it back.
LEMMA ReadyStep ==
  TypeInv /\ TypeInv' /\ RunsInv /\ RunsInv' /\ LedgerInv /\ [Next]_vars =>
    FinishReady'
<1> SUFFICES ASSUME TypeInv, TypeInv', RunsInv, RunsInv', LedgerInv, [Next]_vars
             PROVE  FinishReady'
  OBVIOUS
<1>1. ASSUME NEW w \in Workers, NEW m \in Messages, Deliver(w, m)
      PROVE  FinishReady'
  BY <1>1 DEF Deliver, TypeInv, TypeOK, Goto, LedgerInv, FinishReady, LocalsOK
<1>2. ASSUME NEW w \in Workers, Inspect(w)
      PROVE  FinishReady'
  <2>1. CASE Resumable(w)
    BY <1>2, <2>1 DEF Inspect, TypeInv, TypeOK, LocalsOK, tables, Goto, LedgerInv, FinishReady
  <2>2. CASE ~Resumable(w)
    <3>1. Return(w) /\ UNCHANGED <<events, links>>
      BY <1>2, <2>2 DEF Inspect, tables
    <3> QED
      BY <3>1, LedgerReturn
  <2> QED
    BY <2>1, <2>2
<1>3. ASSUME NEW w \in Workers, ReadLegacy(w)
      PROVE  FinishReady'
  BY <1>3 DEF ReadLegacy, TypeInv, TypeOK, tables, Goto, LedgerInv, FinishReady, LocalsOK
<1>4. ASSUME NEW w \in Workers, InsertLegacy(w)
      PROVE  FinishReady'
  <2>1. CASE legacy[msg[w]].status = "ABSENT"
    BY <1>4, <2>1 DEF InsertLegacy, TypeInv, TypeOK, LocalsOK, Goto, LedgerInv, FinishReady
  <2>2. CASE legacy[msg[w]].status # "ABSENT"
    <3>1. Return(w) /\ UNCHANGED <<events, links>>
      BY <1>4, <2>2 DEF InsertLegacy
    <3> QED
      BY <3>1, LedgerReturn
  <2> QED
    BY <2>1, <2>2
<1>5. ASSUME NEW w \in Workers, UpdateLegacy(w)
      PROVE  FinishReady'
  BY <1>5 DEF UpdateLegacy, TypeInv, TypeOK, Goto, LedgerInv, FinishReady, LocalsOK
<1>6. ASSUME NEW w \in Workers, ReadAttempts(w)
      PROVE  FinishReady'
  BY <1>6 DEF ReadAttempts, TypeInv, TypeOK, tables, Goto, LedgerInv, FinishReady, LocalsOK
<1>7. ASSUME NEW w \in Workers, ClaimLease(w)
      PROVE  FinishReady'
  <2>1. CASE Claimable(w)
    BY <1>7, <2>1 DEF ClaimLease, TypeInv, TypeOK, LocalsOK, Goto, LedgerInv, FinishReady
  <2>2. CASE ~Claimable(w)
    <3>1. Return(w) /\ UNCHANGED <<events, links>>
      BY <1>7, <2>2 DEF ClaimLease
    <3> QED
      BY <3>1, LedgerReturn
  <2> QED
    BY <2>1, <2>2
<1>8. ASSUME NEW w \in Workers, InsertRun(w)
      PROVE  FinishReady'
  BY <1>8 DEF InsertRun, TypeInv, TypeOK, Goto, LedgerInv, FinishReady, LocalsOK
<1>9. ASSUME NEW w \in Workers, MarkIgnored(w)
      PROVE  FinishReady'
  BY <1>9 DEF MarkIgnored, TypeInv, TypeOK, Goto, LedgerInv, FinishReady, LocalsOK
<1>10. ASSUME NEW w \in Workers, ResolveIdentity(w)
      PROVE  FinishReady'
  BY <1>10 DEF ResolveIdentity, TypeInv, TypeOK, tables, Goto, LedgerInv, FinishReady, LocalsOK
<1>11. ASSUME NEW w \in Workers, ReadFollowUps(w)
      PROVE  FinishReady'
  BY <1>11 DEF ReadFollowUps, TypeInv, TypeOK, tables, Goto, LedgerInv, FinishReady, LocalsOK
<1>12. ASSUME NEW w \in Workers, AttachFollowUp(w)
      PROVE  FinishReady'
  BY <1>12 DEF AttachFollowUp, TypeInv, TypeOK, Goto, LedgerInv, FinishReady, LocalsOK
<1>13. ASSUME NEW w \in Workers, LoadState(w)
      PROVE  FinishReady'
  BY <1>13 DEF LoadState, TypeInv, TypeOK, tables, Goto, LedgerInv, FinishReady, LocalsOK
<1>14. ASSUME NEW w \in Workers, PersistCase(w)
      PROVE  FinishReady'
  BY <1>14 DEF PersistCase, TypeInv, TypeOK, Goto, LedgerInv, FinishReady, LocalsOK
<1>15. ASSUME NEW w \in Workers, MarkCase(w)
      PROVE  FinishReady'
  BY <1>15 DEF MarkCase, TypeInv, TypeOK, Goto, LedgerInv, FinishReady, LocalsOK
<1>16. ASSUME NEW w \in Workers, MarkReview(w)
      PROVE  FinishReady'
  BY <1>16 DEF MarkReview, TypeInv, TypeOK, Goto, LedgerInv, FinishReady, LocalsOK
<1>17. ASSUME NEW w \in Workers, CommitEvent(w)
      PROVE  FinishReady'
  <2>1. /\ msg[w] \in Messages
        /\ outcome[w] \in Outcomes
        /\ outcome[w] = "NON_ACTIONABLE" <=> msg[w] \notin Complaints
        /\ UNCHANGED <<msg, outcome>>
        /\ pc[w] = "commitEvent"
    BY <1>17 DEF CommitEvent, TypeInv, LocalsOK, LedgerInv, KindInv, Outcomes, CaseEvents
  <2>2. \A v \in Workers : pc'[v] = pc[v] \/ (v = w /\ pc'[v] \in {"finish", "markFailed"})
    BY <1>17 DEF CommitEvent, Goto, TypeInv, TypeOK
  <2>3. CASE CommitRejected(w)
    <3>1. UNCHANGED <<events, links>> /\ pc' = [pc EXCEPT ![w] = "markFailed"]
      BY <1>17, <2>3 DEF CommitEvent, Goto
    <3> QED
      BY <2>1, <3>1 DEF FinishReady, LedgerInv, TypeInv, TypeOK
  <2>4. CASE ~CommitRejected(w)
    <3>1. /\ events' = [events EXCEPT ![msg[w]] = EventStored(w)]
          /\ links' = [links EXCEPT ![msg[w]] = LinkStored(w)]
      BY <1>17, <2>4 DEF CommitEvent
    <3>2. \A m \in Messages :
            /\ events[m].type # "NONE" => events'[m].type = events[m].type
            /\ links[m].role # "NONE" => links'[m].role # "NONE"
      BY <2>1, <3>1 DEF EventStored, LinkStored, TypeInv, TypeOK
    <3>3. events'[msg[w]] = EventStored(w) /\ links'[msg[w]] = LinkStored(w)
      BY <2>1, <3>1 DEF TypeInv, TypeOK
    <3>4. /\ outcome[w] \in CaseEvents =>
               EventStored(w).type \in CaseEvents /\ LinkStored(w).role # "NONE"
          /\ outcome[w] \in {"NON_ACTIONABLE", "REVIEW_REQUIRED"} =>
               EventStored(w).type = outcome[w]
      BY <2>1, <2>4 DEF CommitRejected, EventStored, LinkStored, LedgerInv, LedgerAgrees,
                        KindInv, CaseEvents
    <3>5. ASSUME NEW v \in Workers, pc'[v] = "finish"
          PROVE  /\ outcome'[v] \in CaseEvents =>
                      events'[msg'[v]].type \in CaseEvents /\ links'[msg'[v]].role # "NONE"
                 /\ outcome'[v] \in {"NON_ACTIONABLE", "REVIEW_REQUIRED"} =>
                      events'[msg'[v]].type = outcome'[v]
      <4>1. CASE v = w
        BY <2>1, <3>3, <3>4, <4>1
      <4>2. CASE v # w
        <5>1. pc[v] = "finish" /\ msg[v] \in Messages
          BY <2>2, <3>5, <4>2 DEF TypeInv, LocalsOK
        <5> QED
          BY <2>1, <3>2, <5>1 DEF LedgerInv, FinishReady, CaseEvents
      <4> QED
        BY <4>1, <4>2
    <3> QED
      BY <3>5 DEF FinishReady
  <2> QED
    BY <2>3, <2>4
<1>18. ASSUME NEW w \in Workers, MarkFailed(w)
      PROVE  FinishReady'
  <2>1. /\ outcome' = [outcome EXCEPT ![w] = "FAILED"]
        /\ pc' = [pc EXCEPT ![w] = "finish"]
        /\ UNCHANGED <<events, links, msg>>
    BY <1>18 DEF MarkFailed, Goto
  <2> QED
    BY <2>1 DEF LedgerInv, FinishReady, TypeInv, TypeOK, CaseEvents
<1>19. ASSUME NEW w \in Workers, Finish(w)
      PROVE  FinishReady'
  <2>1. Return(w) /\ UNCHANGED <<events, links>>
    BY <1>19 DEF Finish
  <2> QED
    BY <2>1, LedgerReturn
<1>20. ASSUME NEW w \in Workers, StatementFails(w)
      PROVE  FinishReady'
  BY <1>20 DEF StatementFails, TypeInv, TypeOK, tables, Goto, LedgerInv, FinishReady, LocalsOK
<1>21. ASSUME NEW w \in Workers, Die(w)
      PROVE  FinishReady'
  <2>1. Return(w) /\ UNCHANGED <<events, links>>
    BY <1>21 DEF Die, tables
  <2> QED
    BY <2>1, LedgerReturn
<1>22. ASSUME NEW m \in Messages, LeaseExpires(m)
      PROVE  FinishReady'
  BY <1>22 DEF LeaseExpires, TypeInv, TypeOK, LedgerInv, FinishReady, LocalsOK, locals
<1>23. CASE UNCHANGED vars
  BY <1>23 DEF vars, locals, TypeInv, TypeOK, tables, Goto, LedgerInv, FinishReady, LocalsOK
<1> QED
  BY <1>1, <1>2, <1>3, <1>4, <1>5, <1>6, <1>7, <1>8, <1>9, <1>10, <1>11, <1>12,
     <1>13, <1>14, <1>15, <1>16, <1>17, <1>18, <1>19, <1>20, <1>21, <1>22, <1>23
  DEF Next, Proceed

\* Only finishProcessing settles a row, and it then has what Backed asks for.
LEMMA SettledStep ==
  TypeInv /\ TypeInv' /\ RunsInv /\ RunsInv' /\ LedgerInv /\ [Next]_vars =>
    SettledStateIsBacked'
<1> SUFFICES ASSUME TypeInv, TypeInv', RunsInv, RunsInv', LedgerInv, [Next]_vars
             PROVE  SettledStateIsBacked'
  OBVIOUS
<1>1. ASSUME NEW w \in Workers, NEW m \in Messages, Deliver(w, m)
      PROVE  SettledStateIsBacked'
  <2>1. \A x \in Messages :
          sources'[x].state = sources[x].state \/ sources'[x].state = "DISCOVERED"
    <3>1. CASE UNCHANGED sources
      BY <3>1
    <3>2. CASE sources' = [sources EXCEPT ![m].state = "DISCOVERED"]
      BY <3>2 DEF TypeInv, TypeOK, SourceRow
    <3> QED
      BY <1>1, <3>1, <3>2 DEF Deliver
  <2>2. UNCHANGED <<runs, events, links, reviews>>
    BY <1>1 DEF Deliver
  <2> QED
    BY <2>1, <2>2 DEF LedgerInv, SettledStateIsBacked, Backed, Settled
<1>2. ASSUME NEW w \in Workers, Inspect(w)
      PROVE  SettledStateIsBacked'
  BY <1>2
  DEF Inspect, TypeInv, TypeOK, tables, Goto, LedgerInv, SettledStateIsBacked, Backed, LocalsOK
<1>3. ASSUME NEW w \in Workers, ReadLegacy(w)
      PROVE  SettledStateIsBacked'
  BY <1>3
  DEF ReadLegacy, TypeInv, TypeOK, tables, Goto, LedgerInv, SettledStateIsBacked, Backed, LocalsOK
<1>4. ASSUME NEW w \in Workers, InsertLegacy(w)
      PROVE  SettledStateIsBacked'
  <2>1. UNCHANGED <<sources, runs, events, links, reviews>>
    BY <1>4 DEF InsertLegacy
  <2> QED
    BY <2>1 DEF LedgerInv, SettledStateIsBacked, Backed
<1>5. ASSUME NEW w \in Workers, UpdateLegacy(w)
      PROVE  SettledStateIsBacked'
  BY <1>5
  DEF UpdateLegacy, TypeInv, TypeOK, Goto, LedgerInv, SettledStateIsBacked, Backed, LocalsOK
<1>6. ASSUME NEW w \in Workers, ReadAttempts(w)
      PROVE  SettledStateIsBacked'
  BY <1>6
  DEF ReadAttempts, TypeInv, TypeOK, tables, Goto, LedgerInv, SettledStateIsBacked, Backed,
      LocalsOK
<1>7. ASSUME NEW w \in Workers, ClaimLease(w)
      PROVE  SettledStateIsBacked'
  <2>1. /\ UNCHANGED <<runs, events, links, reviews>>
        /\ \/ sources' = [sources EXCEPT ![msg[w]] =
                           [state |-> "PROCESSING", lease |-> "LIVE", attempts |-> run[w]]]
           \/ UNCHANGED sources
    BY <1>7 DEF ClaimLease
  <2>2. \A x \in Messages :
          sources'[x].state = sources[x].state \/ sources'[x].state = "PROCESSING"
    <3>1. DOMAIN sources = Messages
      BY DEF TypeInv, TypeOK
    <3>2. CASE sources' = [sources EXCEPT ![msg[w]] =
                             [state |-> "PROCESSING", lease |-> "LIVE", attempts |-> run[w]]]
      BY <3>1, <3>2
    <3> QED
      BY <2>1, <3>2
  <2> QED
    BY <2>1, <2>2 DEF LedgerInv, SettledStateIsBacked, Backed, Settled
<1>8. ASSUME NEW w \in Workers, InsertRun(w)
      PROVE  SettledStateIsBacked'
  BY <1>8 DEF InsertRun, TypeInv, TypeOK, Goto, LedgerInv, SettledStateIsBacked, Backed, LocalsOK
<1>9. ASSUME NEW w \in Workers, MarkIgnored(w)
      PROVE  SettledStateIsBacked'
  BY <1>9
  DEF MarkIgnored, TypeInv, TypeOK, Goto, LedgerInv, SettledStateIsBacked, Backed, LocalsOK
<1>10. ASSUME NEW w \in Workers, ResolveIdentity(w)
      PROVE  SettledStateIsBacked'
  BY <1>10
  DEF ResolveIdentity, TypeInv, TypeOK, tables, Goto, LedgerInv, SettledStateIsBacked, Backed,
      LocalsOK
<1>11. ASSUME NEW w \in Workers, ReadFollowUps(w)
      PROVE  SettledStateIsBacked'
  BY <1>11
  DEF ReadFollowUps, TypeInv, TypeOK, tables, Goto, LedgerInv, SettledStateIsBacked, Backed,
      LocalsOK
<1>12. ASSUME NEW w \in Workers, AttachFollowUp(w)
      PROVE  SettledStateIsBacked'
  BY <1>12
  DEF AttachFollowUp, TypeInv, TypeOK, Goto, LedgerInv, SettledStateIsBacked, Backed, LocalsOK
<1>13. ASSUME NEW w \in Workers, LoadState(w)
      PROVE  SettledStateIsBacked'
  BY <1>13
  DEF LoadState, TypeInv, TypeOK, tables, Goto, LedgerInv, SettledStateIsBacked, Backed, LocalsOK
<1>14. ASSUME NEW w \in Workers, PersistCase(w)
      PROVE  SettledStateIsBacked'
  BY <1>14
  DEF PersistCase, TypeInv, TypeOK, Goto, LedgerInv, SettledStateIsBacked, Backed, LocalsOK
<1>15. ASSUME NEW w \in Workers, MarkCase(w)
      PROVE  SettledStateIsBacked'
  BY <1>15 DEF MarkCase, TypeInv, TypeOK, Goto, LedgerInv, SettledStateIsBacked, Backed, LocalsOK
<1>16. ASSUME NEW w \in Workers, MarkReview(w)
      PROVE  SettledStateIsBacked'
  BY <1>16
  DEF MarkReview, TypeInv, TypeOK, Goto, LedgerInv, SettledStateIsBacked, Backed, LocalsOK
<1>17. ASSUME NEW w \in Workers, CommitEvent(w)
      PROVE  SettledStateIsBacked'
  <2>1. UNCHANGED <<sources, runs>> /\ LedgerAgrees
    BY <1>17 DEF CommitEvent, LedgerInv
  <2>2. ASSUME NEW m \in Messages
        PROVE  /\ events[m].type # "NONE" => events'[m] = events[m]
               /\ links[m].role # "NONE" => links'[m] = links[m]
    BY <1>17 DEF CommitEvent, EventStored, LinkStored, TypeInv, TypeOK
  <2>3. ASSUME NEW m \in Messages, events'[m].type = "REVIEW_REQUIRED"
        PROVE  reviews'[m] = {events'[m].run} /\ links'[m].role = "NONE"
    BY <2>3, AgreementStep DEF LedgerAgrees, CaseEvents
  <2> QED
    BY <2>1, <2>2, <2>3 DEF LedgerInv, SettledStateIsBacked, Backed, CaseEvents
<1>18. ASSUME NEW w \in Workers, MarkFailed(w)
      PROVE  SettledStateIsBacked'
  BY <1>18
  DEF MarkFailed, TypeInv, TypeOK, Goto, LedgerInv, SettledStateIsBacked, Backed, LocalsOK
<1>19. ASSUME NEW w \in Workers, Finish(w)
      PROVE  SettledStateIsBacked'
  <2> DEFINE row == [msg |-> msg[w], number |-> run[w], status |-> FinalState(outcome[w])]
  <2>1. /\ runs' = {r \in runs : ~(r.msg = msg[w] /\ r.number = run[w])} \cup {row}
        /\ pc[w] = "finish"
        /\ msg[w] \in Messages
        /\ outcome[w] \in Outcomes \cup {"FAILED"}
        /\ UNCHANGED <<events, links, reviews>>
    BY <1>19 DEF Finish, FinishedRuns, TypeInv, LocalsOK
  <2>2. /\ row \in runs'
        /\ row.msg = msg[w] /\ row.status = FinalState(outcome[w])
    BY <2>1
  <2>3. ASSUME NEW m \in Messages, NEW r \in runs, r.msg = m, r.status \in Settled
        PROVE  r \in runs'
    BY <2>1, <2>3 DEF RunsInv, Holding, Settled
  <2>4. ASSUME NEW m \in Messages, sources'[m].state = sources[m].state
        PROVE  Backed(m)'
    BY <2>1, <2>3, <2>4 DEF LedgerInv, SettledStateIsBacked, Backed
  <2>5. ASSUME NEW m \in Messages, sources'[m].state # sources[m].state
        PROVE  m = msg[w] /\ sources'[m].state = FinalState(outcome[w])
    BY <1>19, <2>1, <2>5 DEF Finish, TypeInv, TypeOK, SourceRow
  <2>6. /\ outcome[w] \in CaseEvents =>
             FinalState(outcome[w]) = "COMPLETED" /\ links[msg[w]].role # "NONE"
        /\ outcome[w] = "FAILED" => FinalState(outcome[w]) = "RETRY_WAIT"
        /\ outcome[w] \in {"NON_ACTIONABLE", "REVIEW_REQUIRED"} =>
             FinalState(outcome[w]) = outcome[w] /\ events[msg[w]].type = outcome[w]
    BY <2>1 DEF FinalState, LedgerInv, FinishReady, CaseEvents
  <2>7. ASSUME NEW m \in Messages, sources'[m].state # sources[m].state
        PROVE  Backed(m)'
    BY <2>1, <2>2, <2>5, <2>6, <2>7
    DEF LedgerInv, FinishReady, LedgerAgrees, Backed, Outcomes, CaseEvents, Settled
  <2> QED
    BY <2>4, <2>7 DEF SettledStateIsBacked
<1>20. ASSUME NEW w \in Workers, StatementFails(w)
      PROVE  SettledStateIsBacked'
  BY <1>20
  DEF StatementFails, TypeInv, TypeOK, tables, Goto, LedgerInv, SettledStateIsBacked, Backed,
      LocalsOK
<1>21. ASSUME NEW w \in Workers, Die(w)
      PROVE  SettledStateIsBacked'
  BY <1>21 DEF Die, TypeInv, TypeOK, tables, LedgerInv, SettledStateIsBacked, Backed, LocalsOK
<1>22. ASSUME NEW m \in Messages, LeaseExpires(m)
      PROVE  SettledStateIsBacked'
  BY <1>22
  DEF LeaseExpires, TypeInv, TypeOK, LedgerInv, SettledStateIsBacked, Backed, LocalsOK, locals
<1>23. CASE UNCHANGED vars
  BY <1>23
  DEF vars, locals, TypeInv, TypeOK, tables, Goto, LedgerInv, SettledStateIsBacked, Backed,
      LocalsOK
<1> QED
  BY <1>1, <1>2, <1>3, <1>4, <1>5, <1>6, <1>7, <1>8, <1>9, <1>10, <1>11, <1>12,
     <1>13, <1>14, <1>15, <1>16, <1>17, <1>18, <1>19, <1>20, <1>21, <1>22, <1>23
  DEF Next, Proceed
\* The invariant of the ledger holds throughout.
LEMMA LedgerAlways == Spec => []LedgerInv
<1>1. TypeInv /\ TypeInv' /\ RunsInv /\ RunsInv' /\ LedgerInv /\ [Next]_vars => LedgerInv'
  BY KindStep, AgreementStep, ReadyStep, SettledStep DEF LedgerInv
<1> QED
  BY <1>1, TypeAlways, RunsAlways, LedgerInit, PTL DEF Spec

\* The event, the link and the review items of a message never contradict
\* each other.
THEOREM LedgerAgreement == Spec => []LedgerAgrees
<1>1. LedgerInv => LedgerAgrees
  BY DEF LedgerInv
<1> QED
  BY <1>1, LedgerAlways, PTL

\* A settled message has the rows its state stands for.
THEOREM SettledIsBacked == Spec => []SettledStateIsBacked
<1>1. LedgerInv => SettledStateIsBacked
  BY DEF LedgerInv
<1> QED
  BY <1>1, LedgerAlways, PTL

-----------------------------------------------------------------------------
\* One complaint per case

\* createComplaint keeps the case of every row; a row it adds is at the end
\* and has the case of the message, which no other row had.
LEMMA CreatedCases ==
  ASSUME NEW m \in Messages, CaseOf[m] \in Cases, NEW rows \in Seq(ComplaintRow)
  PROVE  /\ \A c \in 1..Len(rows) : Created(rows, m)[c].case = rows[c].case
         /\ \/ Len(Created(rows, m)) = Len(rows)
            \/ /\ Len(Created(rows, m)) = Len(rows) + 1
               /\ Created(rows, m)[Len(rows) + 1].case = CaseOf[m]
               /\ \A c \in 1..Len(rows) : rows[c].case # CaseOf[m]
<1>1. CASE CaseMatches(rows, m) # {}
  <2> DEFINE id == CreatedId(rows, m)
             row == [rows[id] EXCEPT !.followUps = Appended(rows[id].followUps, m)]
  <2>1. id \in DOMAIN rows
    BY <1>1 DEF CreatedId, CaseMatches
  <2>2. rows[id] \in ComplaintRow
    BY <2>1
  <2>3. row.case = rows[id].case
    BY <2>2 DEF ComplaintRow
  <2>4. Created(rows, m) = [rows EXCEPT ![id] = row]
    BY <1>1 DEF Created
  <2>5. \A c \in 1..Len(rows) : Created(rows, m)[c] = IF c = id THEN row ELSE rows[c]
    BY <2>1, <2>4
  <2>6. Len(Created(rows, m)) = Len(rows)
    BY <2>1, <2>4
  <2> QED
    BY <2>3, <2>5, <2>6
<1>2. CASE CaseMatches(rows, m) = {}
  <2>1. Created(rows, m) = Append(rows, [case |-> CaseOf[m], followUps |-> NoFollowUps])
    BY <1>2 DEF Created
  <2>2. \A c \in 1..Len(rows) : rows[c].case # CaseOf[m]
    BY <1>2 DEF CaseMatches
  <2> QED
    BY <2>1, <2>2
<1> QED
  BY <1>1, <1>2

\* persistState keeps the case of every stored row, and adds the rest of the
\* snapshot as it is.
LEMMA UpsertedCases ==
  ASSUME NEW stored \in Seq(ComplaintRow), NEW rows \in Seq(ComplaintRow)
  PROVE  /\ Len(Upserted(stored, rows)) = IF Len(stored) > Len(rows) THEN Len(stored)
                                                                     ELSE Len(rows)
         /\ \A c \in 1..Len(stored) : Upserted(stored, rows)[c].case = stored[c].case
         /\ \A c \in 1..Len(rows) : c > Len(stored) => Upserted(stored, rows)[c] = rows[c]
<1> DEFINE size == IF Len(stored) > Len(rows) THEN Len(stored) ELSE Len(rows)
           up == Upserted(stored, rows)
<1>1. up \in Seq(ComplaintRow) /\ DOMAIN up = 1..size /\ size \in Nat
  BY UpsertedType DEF Upserted
<1>2. Len(up) = size
  BY <1>1
<1>3. ASSUME NEW c \in 1..Len(stored)
      PROVE  up[c].case = stored[c].case
  <2>1. stored[c] \in ComplaintRow /\ c \in 1..size
    OBVIOUS
  <2>2. up[c] = IF c > Len(rows) THEN stored[c]
                                 ELSE [stored[c] EXCEPT !.followUps = rows[c].followUps]
    BY <2>1 DEF Upserted
  <2> QED
    BY <2>1, <2>2 DEF ComplaintRow
<1>4. ASSUME NEW c \in 1..Len(rows), c > Len(stored)
      PROVE  up[c] = rows[c]
  BY <1>4 DEF Upserted
<1> QED
  BY <1>2, <1>3, <1>4

\* There are no complaints at first.
LEMMA CaseInit == Init => CaseInv
  BY DEF Init, CaseInv, SnapshotIsPrefix, OneComplaintPerCase

\* A step that only adds rows to complaints, or none.
LEMMA CaseKept ==
  ASSUME TypeInv, TypeInv', CaseInv,
         Len(complaints) <= Len(complaints'),
         \A c \in 1..Len(complaints) : complaints'[c].case = complaints[c].case,
         \A v \in Workers : snapshot'[v] \in {snapshot[v], <<>>, complaints}
  PROVE  SnapshotIsPrefix'
<1> SUFFICES ASSUME NEW v \in Workers
             PROVE  /\ Len(snapshot'[v]) <= Len(complaints')
                    /\ \A c \in 1..Len(snapshot'[v]) :
                         snapshot'[v][c].case = complaints'[c].case
  BY DEF SnapshotIsPrefix
<1>1. /\ complaints \in Seq(ComplaintRow)
      /\ complaints' \in Seq(ComplaintRow)
      /\ snapshot[v] \in Seq(ComplaintRow)
  BY DEF TypeInv, TypeOK
<1>2. CASE snapshot'[v] = snapshot[v]
  BY <1>1, <1>2 DEF CaseInv, SnapshotIsPrefix
<1>3. CASE snapshot'[v] = <<>>
  BY <1>1, <1>3
<1>4. CASE snapshot'[v] = complaints
  BY <1>1, <1>4
<1> QED
  BY <1>2, <1>3, <1>4

\* Only persistState adds a complaint, and then of a case that had none.
LEMMA CaseStep == TypeInv /\ TypeInv' /\ CaseInv /\ [Next]_vars => CaseInv'
<1> SUFFICES ASSUME TypeInv, TypeInv', CaseInv, [Next]_vars
             PROVE  CaseInv'
  OBVIOUS
<1>1. complaints \in Seq(ComplaintRow) /\ snapshot \in [Workers -> Seq(ComplaintRow)]
  BY DEF TypeInv, TypeOK
<1>2. CASE UNCHANGED complaints
  <2>1. \A v \in Workers : snapshot'[v] \in {snapshot[v], <<>>, complaints}
    <3>1. ASSUME NEW w \in Workers, Proceed(w)
          PROVE  \/ UNCHANGED snapshot
                 \/ snapshot' = [snapshot EXCEPT ![w] = <<>>]
                 \/ snapshot' = [snapshot EXCEPT ![w] = complaints]
      BY <3>1 DEF Proceed, Inspect, ReadLegacy, InsertLegacy, UpdateLegacy, ReadAttempts,
                  ClaimLease, InsertRun, MarkIgnored, ResolveIdentity, ReadFollowUps,
                  AttachFollowUp, LoadState, PersistCase, MarkCase, MarkReview,
                  CommitEvent, MarkFailed, Finish, Return
    <3>2. ASSUME NEW w \in Workers, StatementFails(w) \/ Die(w)
          PROVE  snapshot' = [snapshot EXCEPT ![w] = <<>>]
      BY <3>2 DEF StatementFails, Die, Return
    <3>3. ASSUME NEW w \in Workers, NEW m \in Messages, Deliver(w, m)
          PROVE  UNCHANGED snapshot
      BY <3>3 DEF Deliver
    <3>4. ASSUME NEW m \in Messages, LeaseExpires(m)
          PROVE  UNCHANGED snapshot
      BY <3>4 DEF LeaseExpires, locals
    <3>5. CASE UNCHANGED vars
      BY <3>5 DEF vars, locals
    <3> QED
      BY <1>1, <3>1, <3>2, <3>3, <3>4, <3>5 DEF Next
  <2>2. SnapshotIsPrefix'
    BY <1>1, <1>2, <2>1, CaseKept
  <2> QED
    BY <1>2, <2>2 DEF CaseInv, OneComplaintPerCase
<1>3. ASSUME NEW w \in Workers, AttachFollowUp(w)
      PROVE  CaseInv'
  <2> DEFINE row == [complaints[target[w]] EXCEPT !.followUps = Appended(read[w], msg[w])]
  <2>1. /\ complaints' = [complaints EXCEPT ![target[w]] = row]
        /\ target[w] \in DOMAIN complaints
        /\ UNCHANGED snapshot
    BY <1>3 DEF AttachFollowUp, TypeInv, LocalsOK
  <2>2. complaints[target[w]] \in ComplaintRow
    BY <1>1, <2>1
  <2>3. row.case = complaints[target[w]].case
    BY <2>2 DEF ComplaintRow
  <2>4. /\ Len(complaints') = Len(complaints)
        /\ \A c \in 1..Len(complaints) : complaints'[c].case = complaints[c].case
    BY <1>1, <2>1, <2>3
  <2>5. SnapshotIsPrefix'
    BY <1>1, <2>1, <2>4, CaseKept
  <2>6. complaints' \in Seq(ComplaintRow)
    BY DEF TypeInv, TypeOK
  <2> QED
    BY <1>1, <2>4, <2>5, <2>6 DEF CaseInv, OneComplaintPerCase
<1>4. ASSUME NEW w \in Workers, PersistCase(w)
      PROVE  CaseInv'
  <2> DEFINE old == snapshot[w]
             rows == Created(old, msg[w])
  <2>1. /\ msg[w] \in Messages /\ CaseOf[msg[w]] \in Cases
        /\ old \in Seq(ComplaintRow)
        /\ complaints' = Upserted(complaints, rows)
        /\ snapshot' = [snapshot EXCEPT ![w] = <<>>]
    BY <1>1, <1>4 DEF PersistCase, TypeInv, LocalsOK
  <2>2. rows \in Seq(ComplaintRow)
    BY <2>1, CreatedType
  <2>3. /\ Len(complaints') = IF Len(complaints) > Len(rows) THEN Len(complaints) ELSE Len(rows)
        /\ \A c \in 1..Len(complaints) : complaints'[c].case = complaints[c].case
        /\ \A c \in 1..Len(rows) : c > Len(complaints) => complaints'[c] = rows[c]
    BY <1>1, <2>1, <2>2, UpsertedCases
  <2>4. /\ Len(old) <= Len(complaints)
        /\ \A c \in 1..Len(old) : old[c].case = complaints[c].case
    BY DEF CaseInv, SnapshotIsPrefix
  <2>5. SnapshotIsPrefix'
    BY <1>1, <2>1, <2>2, <2>3, CaseKept
  <2>6. complaints' \in Seq(ComplaintRow)
    BY DEF TypeInv, TypeOK
  <2>7. CASE Len(complaints') = Len(complaints)
    <3>1. DOMAIN complaints' = 1..Len(complaints) /\ DOMAIN complaints = 1..Len(complaints)
      BY <1>1, <2>6, <2>7
    <3> QED
      BY <2>3, <2>5, <3>1 DEF CaseInv, OneComplaintPerCase
  <2>8. CASE Len(complaints') # Len(complaints)
    <3> DEFINE n == Len(complaints)
    <3>1. /\ n \in Nat /\ Len(old) \in Nat /\ Len(rows) \in Nat
          /\ Len(rows) > n /\ Len(rows) # Len(old)
      BY <1>1, <2>1, <2>2, <2>3, <2>4, <2>8
    <3>2. /\ Len(rows) = Len(old) + 1
          /\ rows[Len(old) + 1].case = CaseOf[msg[w]]
          /\ \A c \in 1..Len(old) : old[c].case # CaseOf[msg[w]]
      BY <2>1, <3>1, CreatedCases
    <3>3. Len(old) = n /\ Len(rows) = n + 1 /\ Len(complaints') = n + 1
      BY <2>3, <2>4, <3>1, <3>2
    <3>4. /\ complaints'[n + 1].case = CaseOf[msg[w]]
          /\ \A c \in 1..n : complaints'[c].case # CaseOf[msg[w]]
      BY <2>3, <2>4, <3>1, <3>2, <3>3
    <3>5. ASSUME NEW c \in 1..(n + 1), NEW d \in 1..(n + 1),
                 complaints'[c].case = complaints'[d].case
          PROVE  c = d
      <4>1. CASE c \in 1..n /\ d \in 1..n
        BY <1>1, <2>3, <3>5, <4>1 DEF CaseInv, OneComplaintPerCase
      <4>2. CASE c = n + 1 \/ d = n + 1
        BY <3>1, <3>4, <3>5, <4>2
      <4> QED
        BY <3>1, <4>1, <4>2
    <3>6. DOMAIN complaints' = 1..(n + 1)
      BY <2>6, <3>3
    <3> QED
      BY <2>5, <3>5, <3>6 DEF CaseInv, OneComplaintPerCase
  <2> QED
    BY <2>7, <2>8
<1>5. ASSUME NEW w \in Workers, Proceed(w)
      PROVE  UNCHANGED complaints \/ AttachFollowUp(w) \/ PersistCase(w)
  BY <1>5 DEF Proceed, tables, Inspect, ReadLegacy, InsertLegacy, UpdateLegacy, ReadAttempts,
              ClaimLease, InsertRun, MarkIgnored, ResolveIdentity, ReadFollowUps,
              LoadState, MarkCase, MarkReview, CommitEvent, MarkFailed, Finish
<1>6. ASSUME NEW w \in Workers, StatementFails(w) \/ Die(w)
      PROVE  UNCHANGED complaints
  BY <1>6 DEF StatementFails, Die, tables
<1>7. ASSUME NEW m \in Messages, LeaseExpires(m) \/ \E w \in Workers : Deliver(w, m)
      PROVE  UNCHANGED complaints
  BY <1>7 DEF LeaseExpires, Deliver
<1>8. CASE UNCHANGED vars
  BY <1>2, <1>8 DEF vars, tables
<1> QED
  BY <1>2, <1>3, <1>4, <1>5, <1>6, <1>7, <1>8 DEF Next

\* However many invocations find the same case new, it gets one complaint.
THEOREM OneComplaint == Spec => []OneComplaintPerCase
<1>1. CaseInv => OneComplaintPerCase
  BY DEF CaseInv
<1> QED
  BY <1>1, TypeAlways, CaseInit, CaseStep, PTL DEF Spec
-----------------------------------------------------------------------------
\* The promise of MailSource

\* An empty database is an initial state of MailSource.
LEMMA SourceInit == Init => Source!Init
<1> SUFFICES ASSUME Init
             PROVE  Source!Init
  OBVIOUS
<1>1. [m \in Messages |-> sources[m].state] = [m \in Messages |-> "ABSENT"]
  BY DEF Init
<1>2. [m \in Messages |-> sources[m].attempts] = [m \in Messages |-> 0]
  BY DEF Init
<1>3. [m \in Messages |-> events[m].type] = [m \in Messages |-> "NONE"]
  BY DEF Init
<1> QED
  BY <1>1, <1>2, <1>3 DEF Source!Init

\* Every step is a step of MailSource or leaves its variables alone: discovery,
\* the claim, the commit of the first event and finishProcessing are its actions.
LEMMA SourceStep ==
  TypeInv /\ RunsInv /\ LedgerInv /\ [Next]_vars => [Source!Next]_(Source!vars)
<1> SUFFICES ASSUME TypeInv, RunsInv, LedgerInv, [Next]_vars
             PROVE  Source!Next \/ UNCHANGED Source!vars
  OBVIOUS
<1> DEFINE state == [m \in Messages |-> sources[m].state]
           attempts == [m \in Messages |-> sources[m].attempts]
           event == [m \in Messages |-> events[m].type]
<1>1. sources \in [Messages -> SourceRow] /\ events \in [Messages -> EventRow]
  BY DEF TypeInv, TypeOK
<1>2. ASSUME UNCHANGED <<sources, events>>
      PROVE  UNCHANGED Source!vars
  BY <1>2 DEF Source!vars
<1>3. ASSUME NEW w \in Workers, NEW m \in Messages, Deliver(w, m)
      PROVE  Source!Next \/ UNCHANGED Source!vars
  <2>1. CASE sources[m].state = "ABSENT"
    <3>1. /\ sources' = [sources EXCEPT ![m].state = "DISCOVERED"]
          /\ UNCHANGED events
      BY <1>3, <2>1 DEF Deliver
    <3>2. /\ state' = [state EXCEPT ![m] = "DISCOVERED"]
          /\ attempts' = attempts
          /\ event' = event
      BY <1>1, <3>1 DEF SourceRow
    <3>3. Source!Discover(m)
      BY <2>1, <3>2 DEF Source!Discover
    <3> QED
      BY <3>3 DEF Source!Next
  <2>2. CASE sources[m].state # "ABSENT"
    BY <1>2, <1>3, <2>2 DEF Deliver
  <2> QED
    BY <2>1, <2>2
<1>4. ASSUME NEW w \in Workers, ClaimLease(w)
      PROVE  Source!Next \/ UNCHANGED Source!vars
  <2> PICK m \in Messages : m = msg[w]
    BY <1>4 DEF ClaimLease, TypeInv, LocalsOK
  <2>1. CASE Claimable(w)
    <3>1. /\ m \in Messages
          /\ run[w] = sources[m].attempts + 1
          /\ sources[m].state \in {"DISCOVERED", "RETRY_WAIT", "PROCESSING"}
          /\ sources' = [sources EXCEPT ![m] =
                           [state |-> "PROCESSING", lease |-> "LIVE", attempts |-> run[w]]]
          /\ UNCHANGED events
      BY <1>1, <1>4, <2>1
      DEF ClaimLease, Claimable, Resumable, TypeInv, TypeOK, LocalsOK, SourceRow
    <3>2. /\ state' = [state EXCEPT ![m] = "PROCESSING"]
          /\ attempts' = [attempts EXCEPT ![m] = attempts[m] + 1]
          /\ event' = event
      BY <1>1, <3>1
    <3>3. Source!Claim(m)
      BY <3>1, <3>2 DEF Source!Claim, Source!OpenStates
    <3> QED
      BY <3>1, <3>3 DEF Source!Next
  <2>2. CASE ~Claimable(w)
    BY <1>2, <1>4, <2>2 DEF ClaimLease
  <2> QED
    BY <2>1, <2>2
<1>5. ASSUME NEW w \in Workers, CommitEvent(w)
      PROVE  Source!Next \/ UNCHANGED Source!vars
  <2> PICK m \in Messages : m = msg[w]
    BY <1>5 DEF CommitEvent, TypeInv, LocalsOK
  <2>1. /\ m \in Messages
        /\ outcome[w] \in Outcomes
        /\ run[w] \in 1..sources[m].attempts
        /\ sources[m].state # "ABSENT"
        /\ UNCHANGED sources
    BY <1>5 DEF CommitEvent, TypeInv, LocalsOK, RunsInv, ExclusiveRuns, Holding
  <2>2. CASE events[m].type = "NONE"
    <3>1. ~CommitRejected(w) /\ events' = [events EXCEPT ![m] = EventStored(w)]
      BY <1>5, <2>2 DEF CommitEvent, CommitRejected
    <3>2. EventStored(w).type = outcome[w]
      BY <2>2 DEF EventStored
    <3>3. /\ event' = [event EXCEPT ![m] = outcome[w]]
          /\ state' = state
          /\ attempts' = attempts
      BY <1>1, <2>1, <3>1, <3>2
    <3>4. attempts[m] > 0
      BY <1>1, <2>1 DEF SourceRow, TypeInv, TypeOK
    <3>5. sources[m].state \in Source!OpenStates
      BY <1>1, <2>1, <2>2
      DEF SourceRow, Settled, Source!OpenStates, LedgerInv, SettledStateIsBacked, Backed, CaseEvents
    <3>6. PICK type \in Source!EventTypes : type = outcome[w]
      BY <2>1 DEF Source!EventTypes, Source!CaseEvents, Outcomes, CaseEvents
    <3>7. Source!Record(m, type)
      BY <2>1, <2>2, <3>3, <3>4, <3>5, <3>6 DEF Source!Record
    <3> QED
      BY <3>6, <3>7 DEF Source!Next
  <2>3. CASE events[m].type # "NONE"
    <3>1. UNCHANGED events
      BY <1>1, <1>5, <2>1, <2>3 DEF CommitEvent, EventStored
    <3> QED
      BY <1>2, <2>1, <3>1
  <2> QED
    BY <2>2, <2>3
<1>6. ASSUME NEW w \in Workers, Finish(w)
      PROVE  Source!Next \/ UNCHANGED Source!vars
  <2> PICK m \in Messages : m = msg[w]
    BY <1>6 DEF Finish, TypeInv, LocalsOK
  <2>1. /\ m \in Messages
        /\ outcome[w] \in Outcomes \cup {"FAILED"}
        /\ UNCHANGED events
    BY <1>6 DEF Finish, TypeInv, LocalsOK
  <2>2. CASE ~Finishable(w)
    BY <1>2, <1>6, <2>1, <2>2 DEF Finish
  <2>3. CASE Finishable(w)
    <3>1. sources' = [sources EXCEPT ![m].state = FinalState(outcome[w]),
                                     ![m].lease = "NONE"]
      BY <1>6, <2>3 DEF Finish
    <3>2. /\ state' = [state EXCEPT ![m] = FinalState(outcome[w])]
          /\ attempts' = attempts
          /\ event' = event
          /\ state[m] = "PROCESSING"
      BY <1>1, <2>1, <2>3, <3>1 DEF SourceRow, Finishable
    <3>3. CASE outcome[w] = "FAILED"
      BY <2>1, <3>2, <3>3 DEF Source!Retry, Source!Next, FinalState, CaseEvents
    <3>4. CASE outcome[w] \in Outcomes
      <4>1. /\ events[m].type # "NONE"
            /\ FinalState(outcome[w]) = Source!SettledAs(events[m].type)
        BY <1>6, <2>1, <3>4
        DEF Finish, LedgerInv, FinishReady, FinalState, Source!SettledAs, Source!CaseEvents,
            Outcomes, CaseEvents
      <4>2. Source!Settle(m)
        BY <2>1, <3>2, <4>1 DEF Source!Settle
      <4> QED
        BY <2>1, <4>2 DEF Source!Next
    <3> QED
      BY <2>1, <3>3, <3>4
  <2> QED
    BY <2>2, <2>3
<1>7. ASSUME NEW m \in Messages, LeaseExpires(m)
      PROVE  UNCHANGED Source!vars
  <2>1. sources' = [sources EXCEPT ![m].lease = "EXPIRED"] /\ UNCHANGED events
    BY <1>7 DEF LeaseExpires
  <2>2. state' = state /\ attempts' = attempts /\ event' = event
    BY <1>1, <2>1 DEF SourceRow
  <2> QED
    BY <2>2 DEF Source!vars
<1>8. ASSUME NEW w \in Workers, Proceed(w)
      PROVE  ClaimLease(w) \/ CommitEvent(w) \/ Finish(w) \/ UNCHANGED <<sources, events>>
  BY <1>8 DEF Proceed, tables, Inspect, ReadLegacy, InsertLegacy, UpdateLegacy, ReadAttempts,
              InsertRun, MarkIgnored, ResolveIdentity, ReadFollowUps, AttachFollowUp,
              LoadState, PersistCase, MarkCase, MarkReview, MarkFailed
<1>9. ASSUME NEW w \in Workers, StatementFails(w) \/ Die(w)
      PROVE  UNCHANGED <<sources, events>>
  BY <1>9 DEF StatementFails, Die, tables
<1>10. CASE UNCHANGED vars
  BY <1>2, <1>10 DEF vars, tables
<1> QED
  BY <1>2, <1>3, <1>4, <1>5, <1>6, <1>7, <1>8, <1>9, <1>10 DEF Next

\* The intake implements MailSource.
THEOREM IntakeKeepsPromise == Spec => SourcePromise
  BY TypeAlways, RunsAlways, LedgerAlways, SourceInit, SourceStep, PTL
  DEF Spec, SourcePromise, Source!Spec, LedgerInv
=============================================================================
