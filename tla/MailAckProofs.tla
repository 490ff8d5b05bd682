--------------------------- MODULE MailAckProofs ---------------------------
(***************************************************************************)
(* Theorems about MailAck, for every set of jobs, mailbox and bound.       *)
(*                                                                         *)
(* OneReplyInLock is an argument by counting.  A job is detached when it   *)
(* runs without the lock; there are at most as many of them as overruns,   *)
(* so at most overruns + 1 jobs run at all.  A sender of a complaint is a  *)
(* job that saw its row PENDING and has not sent yet.  While a row is      *)
(* PENDING nothing was sent for it, and senders only appear while it is:   *)
(* replies and senders together stay within overruns + 1, and that is one  *)
(* when no lock ran out under a job.                                       *)
(***************************************************************************)
EXTENDS MailAck, FiniteSetTheorems, TLAPS

\* Jobs that run, and those that run without the lock.
Running == {j \in Jobs : pc[j] # "idle"}
Detached == {j \in Running : ~(lock.held /\ lock.owner = j)}

\* Jobs about to send the reply of c.
Senders(c) == {j \in Jobs : case[j] = c /\ pc[j] \in {"claim", "send"}}

LockInv == Cardinality(Detached) <= overruns

Fresh == {"NONE", "PENDING"}

\* What the place of a job says about the row of its complaint.
RowInv ==
  /\ \A c \in Cases : replies[c] > 0 => ack[c] \notin Fresh
  /\ \A j \in Jobs :
       /\ pc[j] \in {"read", "claim"} => ack[case[j]] # "NONE"
       /\ pc[j] \in {"send", "record", "event", "fail"} => ack[case[j]] \notin Fresh
       /\ pc[j] = "record" => replies[case[j]] > 0

CountInv == \A c \in Cases : replies[c] + Cardinality(Senders(c)) <= 1 + overruns

IInv == TypeOK /\ LockInv /\ RowInv /\ SentIsProven /\ CountInv

-----------------------------------------------------------------------------
\* The sets that are counted are finite.
LEMMA Finite ==
  ASSUME NEW c
  PROVE  /\ IsFiniteSet(Running) /\ Cardinality(Running) \in Nat
         /\ IsFiniteSet(Detached) /\ Cardinality(Detached) \in Nat
         /\ IsFiniteSet(Senders(c)) /\ Cardinality(Senders(c)) \in Nat
<1>1. Running \subseteq Jobs /\ Detached \subseteq Jobs /\ Senders(c) \subseteq Jobs
  BY DEF Running, Detached, Senders
<1>2. IsFiniteSet(Jobs)
  BY MailAckAssumption
<1>3. IsFiniteSet(Running) /\ IsFiniteSet(Detached) /\ IsFiniteSet(Senders(c))
  BY <1>1, <1>2, FS_Subset
<1> QED  BY <1>3, FS_CardinalityType

\* All running jobs but one are at most overruns.
LEMMA OthersBounded ==
  ASSUME TypeOK, LockInv, NEW j \in Running
  PROVE  Cardinality(Running \ {j}) <= overruns
<1>1. IsFiniteSet(Running) /\ IsFiniteSet(Detached)
  BY Finite
<1>2. Cardinality(Running) \in Nat /\ Cardinality(Detached) \in Nat
  BY Finite
<1>3. overruns \in Nat
  BY DEF TypeOK
<1>4. Cardinality(Running \ {j}) = Cardinality(Running) - 1
  BY <1>1, FS_RemoveElement
<1>5. CASE lock.owner \in Running /\ lock.held
  <2>1. Detached = Running \ {lock.owner}
    BY <1>5 DEF Detached
  <2>2. Cardinality(Detached) = Cardinality(Running) - 1
    BY <1>1, <1>5, <2>1, FS_RemoveElement
  <2> QED  BY <1>4, <2>2 DEF LockInv
<1>6. CASE ~(lock.owner \in Running /\ lock.held)
  <2>1. Detached = Running
    BY <1>6 DEF Detached
  <2> QED  BY <1>2, <1>3, <1>4, <2>1 DEF LockInv
<1> QED  BY <1>5, <1>6

\* Fewer detached jobs, or as many, keep the bound of the lock.
LEMMA FewerDetached ==
  ASSUME TypeOK, TypeOK', LockInv, Detached' \subseteq Detached, overruns' >= overruns
  PROVE  LockInv'
<1>1. IsFiniteSet(Detached) /\ Cardinality(Detached) \in Nat
  BY Finite
<1>2. Cardinality(Detached') <= Cardinality(Detached) /\ Cardinality(Detached') \in Nat
  BY <1>1, FS_Subset, FS_CardinalityType
<1>3. overruns \in Nat /\ overruns' \in Nat
  BY DEF TypeOK
<1> QED  BY <1>1, <1>2, <1>3 DEF LockInv

\* A step of a running job that leaves the lock alone.
LEMMA LockKept ==
  ASSUME TypeOK, TypeOK', LockInv, NEW j \in Jobs, NEW label \in Labels,
         pc[j] # "idle", pc' = [pc EXCEPT ![j] = label],
         lock' = lock, overruns' = overruns
  PROVE  LockInv'
<1>1. pc \in [Jobs -> Labels]
  BY DEF TypeOK
<1>2. Detached' \subseteq Detached
  BY <1>1 DEF Detached, Running
<1>3. overruns' >= overruns
  BY DEF TypeOK
<1> QED  BY <1>2, <1>3, FewerDetached

\* A step that touches no acknowledgment and leads to no place that says
\* something of one.
LEMMA QuietStep ==
  ASSUME TypeOK, TypeOK', RowInv, SentIsProven, CountInv,
         NEW j \in Jobs,
         \A i \in Jobs \ {j} : pc'[i] = pc[i] /\ case'[i] = case[i],
         \/ pc'[j] = pc[j] /\ case'[j] = case[j]
         \/ pc'[j] \in {"idle", "prepare", "list", "ingest", "source", "insert", "unlock"},
         UNCHANGED acks, overruns' >= overruns
  PROVE  RowInv' /\ SentIsProven' /\ CountInv'
<1>1. UNCHANGED <<ack, proof, replies>>
  BY DEF acks
<1>2. RowInv'
  <2>1. \A c \in Cases : replies'[c] > 0 => ack'[c] \notin Fresh
    BY <1>1 DEF RowInv
  <2>2. ASSUME NEW i \in Jobs
        PROVE  /\ pc'[i] \in {"read", "claim"} => ack'[case'[i]] # "NONE"
               /\ pc'[i] \in {"send", "record", "event", "fail"} => ack'[case'[i]] \notin Fresh
               /\ pc'[i] = "record" => replies'[case'[i]] > 0
    BY <1>1 DEF RowInv
  <2> QED  BY <2>1, <2>2 DEF RowInv, Fresh
<1>3. SentIsProven'
  BY <1>1 DEF SentIsProven
<1>4. ASSUME NEW c \in Cases
      PROVE  replies'[c] + Cardinality(Senders(c)') <= 1 + overruns'
  <2>1. Senders(c)' \subseteq Senders(c)
    BY DEF Senders
  <2>2. IsFiniteSet(Senders(c)) /\ Cardinality(Senders(c)) \in Nat
    BY Finite
  <2>3. Cardinality(Senders(c)') <= Cardinality(Senders(c)) /\ Cardinality(Senders(c)') \in Nat
    BY <2>1, <2>2, FS_Subset, FS_CardinalityType
  <2>4. replies[c] + Cardinality(Senders(c)) <= 1 + overruns
    BY DEF CountInv
  <2>5. replies[c] \in Nat /\ overruns \in Nat /\ overruns' \in Nat
    BY DEF TypeOK
  <2> QED  BY <1>1, <2>2, <2>3, <2>4, <2>5
<1>5. CountInv'
  BY <1>4 DEF CountInv, Senders
<1> QED  BY <1>2, <1>3, <1>5

\* Every step keeps the types.
LEMMA TypePreserved ==
  ASSUME TypeOK, Next
  PROVE  TypeOK'
<1> USE MailAckAssumption DEF TypeOK, Goto, Fault, mailbox, acks, locals, Labels, AckStatus
<1>1. CASE Arrive
  BY <1>1 DEF Arrive
<1>2. CASE LockExpires
  <2>1. lock' \in [held : BOOLEAN, owner : Jobs \cup {NoJob}]
    BY <1>2 DEF LockExpires
  <2>2. overruns' \in Nat
    BY <1>2 DEF LockExpires
  <2> QED  BY <1>2, <2>1, <2>2 DEF LockExpires
<1>3. ASSUME NEW m \in Messages, Settle(m)
      PROVE  known' \in [Cases -> BOOLEAN] /\ source' \in [Messages -> {"NONE", "INITIAL", "FOLLOW_UP"}]
  BY <1>3 DEF Settle
<1>4. ASSUME NEW m \in Messages, Intake(m)
      PROVE  TypeOK'
  <2>1. known' \in [Cases -> BOOLEAN] /\ source' \in [Messages -> {"NONE", "INITIAL", "FOLLOW_UP"}]
    BY <1>4 DEF Intake, Rows!Step, Rows!Open, Rows!Name, Rows!Follow
  <2> QED  BY <1>4, <2>1 DEF Intake
<1>5. ASSUME NEW j \in Jobs, Claim(j)
      PROVE  TypeOK'
  BY <1>5 DEF Claim
<1>6. ASSUME NEW j \in Jobs, Prepare(j) \/ EndPoll(j) \/ ReadSource(j) \/ ReadAck(j) \/ RecordEvent(j)
                             \/ Throws(j)
      PROVE  TypeOK'
  <2>1. pc' \in [Jobs -> Labels]
    BY <1>6 DEF Prepare, EndPoll, ReadSource, ReadAck, RecordEvent, Throws
  <2>2. faults' \in Nat
    BY <1>6 DEF Prepare, EndPoll, ReadSource, ReadAck, RecordEvent, Throws
  <2>3. UNCHANGED <<arrived, lock, mailbox, acks, todo, case, overruns>>
    BY <1>6 DEF Prepare, EndPoll, ReadSource, ReadAck, RecordEvent, Throws
  <2> QED  BY <2>1, <2>2, <2>3
<1>7. ASSUME NEW j \in Jobs, Unlock(j) \/ Dies(j) \/ List(j)
      PROVE  TypeOK'
  <2>1. lock' \in [held : BOOLEAN, owner : Jobs \cup {NoJob}]
    BY <1>7 DEF Unlock, Dies, List
  <2>2. pc' \in [Jobs -> Labels]
    BY <1>7 DEF Unlock, Dies, List
  <2>3. Listed \subseteq Messages
    BY DEF Listed, Messages
  <2>4. todo' \in [Jobs -> SUBSET Messages]
    BY <1>7, <2>3 DEF Unlock, Dies, List
  <2>5. faults' \in Nat
    BY <1>7 DEF Unlock, Dies, List
  <2>6. UNCHANGED <<arrived, mailbox, acks, case, overruns>>
    BY <1>7 DEF Unlock, Dies, List
  <2> QED  BY <2>1, <2>2, <2>4, <2>5, <2>6
<1>8. ASSUME NEW j \in Jobs, NEW m \in Messages, Ingest(j, m)
      PROVE  TypeOK'
  <2>1. known' \in [Cases -> BOOLEAN] /\ source' \in [Messages -> {"NONE", "INITIAL", "FOLLOW_UP"}]
    BY <1>3, <1>8 DEF Ingest
  <2>2. pc' \in [Jobs -> Labels]
    BY <1>8 DEF Ingest
  <2>3. todo' \in [Jobs -> SUBSET Messages]
    BY <1>8 DEF Ingest
  <2>4. case' \in [Jobs -> Cases]
    BY <1>8 DEF Ingest
  <2>5. faults' \in Nat
    BY <1>8 DEF Ingest
  <2>6. UNCHANGED <<arrived, lock, acks, overruns>>
    BY <1>8 DEF Ingest
  <2> QED  BY <2>1, <2>2, <2>3, <2>4, <2>5, <2>6
<1>9. ASSUME NEW j \in Jobs, InsertAck(j) \/ ClaimAck(j) \/ FailAck(j)
      PROVE  TypeOK'
  <2>1. case[j] \in Cases
    OBVIOUS
  <2>2. ack' \in [Cases -> AckStatus]
    BY <1>9, <2>1 DEF InsertAck, ClaimAck, FailAck, Inserted, Claimed
  <2>3. pc' \in [Jobs -> Labels] /\ faults' \in Nat
    BY <1>9 DEF InsertAck, ClaimAck, FailAck
  <2>4. UNCHANGED <<arrived, lock, mailbox, proof, replies, todo, case, overruns>>
    BY <1>9 DEF InsertAck, ClaimAck, FailAck
  <2> QED  BY <2>2, <2>3, <2>4
<1>10. ASSUME NEW j \in Jobs, SendAck(j) \/ RecordAck(j)
       PROVE  TypeOK'
  <2>1. case[j] \in Cases
    OBVIOUS
  <2>2. ack' \in [Cases -> AckStatus]
    BY <1>10, <2>1 DEF SendAck, RecordAck
  <2>3. proof' \in [Cases -> Nat] /\ replies' \in [Cases -> Nat]
    BY <1>10, <2>1 DEF SendAck, RecordAck
  <2>4. pc' \in [Jobs -> Labels] /\ faults' \in Nat
    BY <1>10 DEF SendAck, RecordAck
  <2>5. UNCHANGED <<arrived, lock, mailbox, todo, case, overruns>>
    BY <1>10 DEF SendAck, RecordAck
  <2> QED  BY <2>2, <2>3, <2>4, <2>5
<1> QED
  BY <1>1, <1>2, <1>4, <1>5, <1>6, <1>7, <1>8, <1>9, <1>10 DEF Next, Work, Acknowledge

-----------------------------------------------------------------------------
\* The steps that touch no acknowledgment: all of the scheduled job, mail, the
\* lock, throws and deaths.
LEMMA QuietPreserves ==
  ASSUME IInv, TypeOK',
         \/ Arrive
         \/ LockExpires
         \/ \E m \in Messages : Intake(m)
         \/ \E j \in Jobs :
              \/ Claim(j) \/ Prepare(j) \/ List(j) \/ EndPoll(j) \/ Unlock(j) \/ ReadSource(j)
              \/ Throws(j) \/ Dies(j)
              \/ \E m \in Messages : Ingest(j, m)
  PROVE  LockInv' /\ RowInv' /\ SentIsProven' /\ CountInv'
<1> USE DEF IInv, Goto, Fault
<1>0. /\ pc \in [Jobs -> Labels] /\ case \in [Jobs -> Cases]
      /\ overruns \in Nat /\ overruns' \in Nat
  BY DEF TypeOK
<1>1. CASE Arrive \/ \E m \in Messages : Intake(m)
  <2>1. UNCHANGED <<lock, acks, pc, case, overruns>>
    BY <1>1 DEF Arrive, Intake, locals
  <2>2. LockInv'
    BY <2>1 DEF LockInv, Detached, Running
  <2>3. RowInv' /\ SentIsProven' /\ CountInv'
    BY <2>1 DEF RowInv, SentIsProven, CountInv, Senders, acks
  <2> QED  BY <2>2, <2>3
<1>2. CASE LockExpires
  <2>1. UNCHANGED <<acks, pc, case>>
    BY <1>2 DEF LockExpires, locals
  <2>2. overruns' >= overruns
    BY <1>0, <1>2 DEF LockExpires
  <2>3. RowInv' /\ SentIsProven'
    BY <2>1 DEF RowInv, SentIsProven, acks
  <2>4. CountInv'
    <3> SUFFICES ASSUME NEW c \in Cases
                 PROVE  replies'[c] + Cardinality(Senders(c)') <= 1 + overruns'
      BY DEF CountInv, Senders
    <3>1. Senders(c)' = Senders(c) /\ replies' = replies
      BY <2>1 DEF Senders, acks
    <3>2. Cardinality(Senders(c)) \in Nat /\ replies[c] \in Nat
      BY Finite DEF TypeOK
    <3>3. replies[c] + Cardinality(Senders(c)) <= 1 + overruns
      BY DEF CountInv
    <3> QED  BY <1>0, <2>2, <3>1, <3>2, <3>3
  <2>5. LockInv'
    <3>1. Running' = Running
      BY <2>1 DEF Running
    <3>2. IsFiniteSet(Detached) /\ Cardinality(Detached) \in Nat
      BY Finite
    <3>3. lock'.held = FALSE /\ lock'.owner = lock.owner
      BY <1>2 DEF LockExpires, TypeOK
    <3>4. Detached' = Running
      BY <3>1, <3>3 DEF Detached
    <3>5. CASE lock.owner \in Running
      <4>1. overruns' = overruns + 1
        BY <1>2, <3>5 DEF LockExpires, Running
      <4>2. Running \ {lock.owner} = Detached
        BY <1>2 DEF LockExpires, Detached
      <4>3. IsFiniteSet(Running) /\ Cardinality(Running) \in Nat
        BY Finite
      <4>4. Cardinality(Detached) = Cardinality(Running) - 1
        BY <3>5, <4>2, <4>3, FS_RemoveElement
      <4> QED  BY <1>0, <3>2, <3>4, <4>1, <4>3, <4>4 DEF LockInv
    <3>6. CASE lock.owner \notin Running
      <4>1. Detached' = Detached
        BY <3>4, <3>6 DEF Detached
      <4> QED  BY <2>2, <4>1, FewerDetached
    <3> QED  BY <3>5, <3>6
  <2> QED  BY <2>3, <2>4, <2>5
<1>3. ASSUME NEW j \in Jobs, Claim(j)
      PROVE  LockInv' /\ RowInv' /\ SentIsProven' /\ CountInv'
  <2>1. pc' = [pc EXCEPT ![j] = "prepare"] /\ UNCHANGED <<acks, case, overruns>>
    BY <1>3 DEF Claim
  <2>2. Detached = Running
    BY <1>3 DEF Claim, Takable, Detached
  <2>3. lock' = [held |-> TRUE, owner |-> j]
    BY <1>3 DEF Claim
  <2>4. Detached' \subseteq Running
    BY <1>0, <2>1, <2>3 DEF Detached, Running
  <2>5. overruns' >= overruns
    BY <1>0, <2>1
  <2>6. LockInv'
    BY <2>2, <2>4, <2>5, FewerDetached
  <2>7. \A i \in Jobs \ {j} : pc'[i] = pc[i] /\ case'[i] = case[i]
    BY <1>0, <2>1
  <2>8. pc'[j] = "prepare"
    BY <1>0, <2>1
  <2> QED  BY <2>1, <2>5, <2>6, <2>7, <2>8, QuietStep
<1>4. ASSUME NEW j \in Jobs,
             \/ Prepare(j) \/ List(j) \/ EndPoll(j) \/ Throws(j) \/ Dies(j)
             \/ ReadSource(j)
      PROVE  LockInv' /\ RowInv' /\ SentIsProven' /\ CountInv'
  <2>1. PICK label \in {"idle", "list", "ingest", "insert", "unlock"} : pc' = [pc EXCEPT ![j] = label]
    BY <1>4 DEF Prepare, List, EndPoll, Throws, Dies, ReadSource
  <2>2. pc[j] # "idle" /\ UNCHANGED <<lock, acks, case, overruns>>
    BY <1>4 DEF Prepare, List, EndPoll, Throws, Dies, ReadSource
  <2>3. label \in Labels
    BY <2>1 DEF Labels
  <2>4. LockInv'
    BY <2>1, <2>2, <2>3, LockKept
  <2>5. \A i \in Jobs \ {j} : pc'[i] = pc[i] /\ case'[i] = case[i]
    BY <1>0, <2>1, <2>2
  <2>6. pc'[j] = label /\ overruns' >= overruns
    BY <1>0, <2>1, <2>2
  <2> QED  BY <2>1, <2>2, <2>4, <2>5, <2>6, QuietStep
<1>5. ASSUME NEW j \in Jobs, Unlock(j)
      PROVE  LockInv' /\ RowInv' /\ SentIsProven' /\ CountInv'
  <2>1. pc' = [pc EXCEPT ![j] = "idle"] /\ UNCHANGED <<acks, case, overruns>>
    BY <1>5 DEF Unlock
  <2>2. lock' = IF lock.owner = j THEN [lock EXCEPT !.held = FALSE] ELSE lock
    BY <1>5 DEF Unlock
  <2>3. lock'.owner = lock.owner /\ (lock'.held # lock.held => lock.owner = j)
    BY <2>2 DEF TypeOK
  <2>4. Detached' \subseteq Detached
    BY <1>0, <2>1, <2>3 DEF Detached, Running
  <2>5. overruns' >= overruns
    BY <1>0, <2>1
  <2>6. LockInv'
    BY <2>4, <2>5, FewerDetached
  <2>7. \A i \in Jobs \ {j} : pc'[i] = pc[i] /\ case'[i] = case[i]
    BY <1>0, <2>1
  <2>8. pc'[j] = "idle"
    BY <1>0, <2>1
  <2> QED  BY <2>1, <2>5, <2>6, <2>7, <2>8, QuietStep
<1>6. ASSUME NEW j \in Jobs, NEW m \in Messages, Ingest(j, m)
      PROVE  LockInv' /\ RowInv' /\ SentIsProven' /\ CountInv'
  <2>1. /\ pc[j] = "ingest"
        /\ \/ pc' = [pc EXCEPT ![j] = "source"]
           \/ pc' = pc /\ case' = case
        /\ UNCHANGED <<lock, acks, overruns>>
    BY <1>6 DEF Ingest
  <2>2. \A i \in Jobs \ {j} : pc'[i] = pc[i] /\ case'[i] = case[i]
    BY <1>0, <1>6 DEF Ingest
  <2>3. pc'[j] \in {"source", "ingest"} /\ overruns' >= overruns
    BY <1>0, <2>1
  <2>4. Detached' = Detached
    BY <1>0, <2>1 DEF Detached, Running
  <2>5. LockInv'
    BY <2>3, <2>4, FewerDetached
  <2> QED  BY <2>1, <2>2, <2>3, <2>5, QuietStep
<1> QED  BY <1>1, <1>2, <1>3, <1>4, <1>5, <1>6

-----------------------------------------------------------------------------
\* A step of a job that sends nothing and adds no sender keeps the count.
LEMMA CountKept ==
  ASSUME TypeOK, TypeOK', CountInv, UNCHANGED <<case, replies, overruns>>,
         \A i \in Jobs : pc'[i] \in {"claim", "send"} => pc[i] \in {"claim", "send"}
  PROVE  CountInv'
<1> SUFFICES ASSUME NEW c \in Cases
             PROVE  replies'[c] + Cardinality(Senders(c)') <= 1 + overruns'
  BY DEF CountInv, Senders
<1>1. Senders(c)' \subseteq Senders(c)
  BY DEF Senders
<1>2. IsFiniteSet(Senders(c)) /\ Cardinality(Senders(c)) \in Nat
  BY Finite
<1>3. Cardinality(Senders(c)') <= Cardinality(Senders(c)) /\ Cardinality(Senders(c)') \in Nat
  BY <1>1, <1>2, FS_Subset, FS_CardinalityType
<1>4. replies[c] + Cardinality(Senders(c)) <= 1 + overruns
  BY DEF CountInv
<1>5. replies[c] \in Nat /\ overruns \in Nat
  BY DEF TypeOK
<1> QED  BY <1>2, <1>3, <1>4, <1>5

\* The steps of acknowledgeComplaint that write or read the row.
LEMMA AckPreserves ==
  ASSUME IInv, TypeOK', NEW j \in Jobs,
         \/ InsertAck(j) \/ ReadAck(j) \/ ClaimAck(j) \/ SendAck(j)
         \/ RecordAck(j) \/ RecordEvent(j) \/ FailAck(j)
  PROVE  LockInv' /\ RowInv' /\ SentIsProven' /\ CountInv'
<1> USE DEF IInv, Goto, Fault
<1> DEFINE d == case[j]
<1>0. /\ pc \in [Jobs -> Labels] /\ case \in [Jobs -> Cases] /\ d \in Cases
      /\ ack \in [Cases -> AckStatus] /\ proof \in [Cases -> Nat] /\ replies \in [Cases -> Nat]
      /\ overruns \in Nat /\ faults \in Nat
  BY DEF TypeOK
<1>1. CASE InsertAck(j)
  <2>1. /\ pc[j] = "insert"
        /\ pc' = [pc EXCEPT ![j] = "read"]
        /\ ack' = [ack EXCEPT ![d] = Inserted(@)]
        /\ UNCHANGED <<lock, case, proof, replies, overruns>>
    BY <1>1 DEF InsertAck
  <2>2. LockInv'
    BY <2>1, LockKept DEF Labels
  <2>3. RowInv'
    BY <1>0, <2>1 DEF RowInv, Inserted, Fresh
  <2>4. SentIsProven'
    BY <1>0, <2>1 DEF SentIsProven, Inserted
  <2>5. CountInv'
    BY <1>0, <2>1, CountKept
  <2> QED  BY <2>2, <2>3, <2>4, <2>5
<1>2. CASE ReadAck(j) /\ ack[d] # "PENDING"
  <2>1. /\ pc[j] = "read"
        /\ pc' = [pc EXCEPT ![j] = "ingest"]
        /\ UNCHANGED <<lock, case, acks, overruns>>
    BY <1>2 DEF ReadAck
  <2>2. LockInv'
    BY <2>1, LockKept DEF Labels
  <2>3. \A i \in Jobs \ {j} : pc'[i] = pc[i] /\ case'[i] = case[i]
    BY <1>0, <2>1
  <2>4. pc'[j] = "ingest" /\ overruns' >= overruns
    BY <1>0, <2>1
  <2> QED  BY <2>1, <2>2, <2>3, <2>4, QuietStep
<1>3. CASE ReadAck(j) /\ ack[d] = "PENDING"
  <2>1. /\ pc[j] = "read"
        /\ pc' = [pc EXCEPT ![j] = "claim"]
        /\ UNCHANGED <<lock, case, ack, proof, replies, overruns>>
    BY <1>3 DEF ReadAck, acks
  <2>2. LockInv'
    BY <2>1, LockKept DEF Labels
  <2>3. RowInv'
    BY <1>0, <2>1 DEF RowInv
  <2>4. SentIsProven'
    BY <2>1 DEF SentIsProven
  <2>5. replies[d] = 0
    BY <1>0, <1>3 DEF RowInv, Fresh
  <2>6. ASSUME NEW c \in Cases \ {d}
        PROVE  Senders(c)' = Senders(c)
    BY <1>0, <2>1 DEF Senders
  <2>7. j \in Running
    BY <2>1 DEF Running
  <2>8. Senders(d)' \ {j} \subseteq Running \ {j}
    BY <1>0, <2>1 DEF Senders, Running
  <2>9. Cardinality(Senders(d)') <= overruns + 1
    <3>1. IsFiniteSet(Running \ {j})
      BY Finite, FS_RemoveElement
    <3>2. IsFiniteSet(Senders(d)' \ {j}) /\ Cardinality(Senders(d)' \ {j}) <= Cardinality(Running \ {j})
      BY <2>8, <3>1, FS_Subset
    <3>3. Cardinality(Running \ {j}) \in Nat /\ Cardinality(Senders(d)' \ {j}) \in Nat
      BY <3>1, <3>2, FS_CardinalityType
    <3>4. Cardinality(Running \ {j}) <= overruns
      BY <2>7, OthersBounded
    <3>5. Senders(d)' = (Senders(d)' \ {j}) \cup {j}
      BY <1>0, <2>1 DEF Senders
    <3>6. Cardinality(Senders(d)') = Cardinality(Senders(d)' \ {j}) + 1
      BY <3>2, <3>5, FS_AddElement
    <3> QED  BY <1>0, <3>2, <3>3, <3>4, <3>6
  <2>10. Senders(d)' \subseteq Jobs
    BY <2>1 DEF Senders
  <2>11. Cardinality(Senders(d)') \in Nat
    BY <2>10, MailAckAssumption, FS_Subset, FS_CardinalityType
  <2>12. replies'[d] + Cardinality(Senders(d)') <= 1 + overruns'
    BY <1>0, <2>1, <2>5, <2>9, <2>11
  <2>13. ASSUME NEW c \in Cases
         PROVE  replies'[c] + Cardinality(Senders(c)') <= 1 + overruns'
    BY <2>1, <2>6, <2>12 DEF CountInv
  <2>14. CountInv'
    BY <2>13 DEF CountInv, Senders
  <2> QED  BY <2>2, <2>3, <2>4, <2>14
<1>4. CASE ClaimAck(j)
  <2>1. /\ pc[j] = "claim"
        /\ pc' = [pc EXCEPT ![j] = "send"]
        /\ ack' = [ack EXCEPT ![d] = Claimed(@)]
        /\ UNCHANGED <<lock, case, proof, replies, overruns>>
    BY <1>4 DEF ClaimAck
  <2>2. LockInv'
    BY <2>1, LockKept DEF Labels
  <2>3. ack'[d] \notin Fresh
    BY <1>0, <2>1 DEF RowInv, Claimed, Fresh
  <2>4. \A c \in Cases \ {d} : ack'[c] = ack[c]
    BY <1>0, <2>1
  <2>5. RowInv'
    BY <1>0, <2>1, <2>3, <2>4 DEF RowInv, Fresh
  <2>6. SentIsProven'
    BY <1>0, <2>1 DEF SentIsProven, Claimed
  <2>7. CountInv'
    BY <1>0, <2>1, CountKept
  <2> QED  BY <2>2, <2>5, <2>6, <2>7
<1>5. CASE SendAck(j) /\ UNCHANGED replies
  <2>1. PICK label \in {"record", "fail"} : pc' = [pc EXCEPT ![j] = label]
    BY <1>5 DEF SendAck
  <2>2. pc[j] = "send" /\ UNCHANGED <<lock, case, ack, proof, replies, overruns>>
    BY <1>5 DEF SendAck
  <2>3. label = "fail"
    <3>1. replies[d] # replies[d] + 1
      BY <1>0
    <3>2. replies' # [replies EXCEPT ![d] = @ + 1]
      BY <1>0, <2>2, <3>1
    <3> QED  BY <1>5, <1>0, <2>1, <3>2 DEF SendAck
  <2>4. LockInv'
    BY <2>1, <2>2, LockKept DEF Labels
  <2>5. RowInv'
    BY <1>0, <2>1, <2>2, <2>3 DEF RowInv
  <2>6. SentIsProven'
    BY <2>2 DEF SentIsProven
  <2>7. CountInv'
    BY <1>0, <2>1, <2>2, CountKept
  <2> QED  BY <2>4, <2>5, <2>6, <2>7
<1>6. CASE SendAck(j) /\ ~UNCHANGED replies
  <2>1. PICK label \in {"record", "fail"} : pc' = [pc EXCEPT ![j] = label]
    BY <1>6 DEF SendAck
  <2>2. /\ pc[j] = "send"
        /\ replies' = [replies EXCEPT ![d] = @ + 1]
        /\ UNCHANGED <<lock, case, ack, proof, overruns>>
    BY <1>6 DEF SendAck
  <2>3. replies'[d] = replies[d] + 1 /\ \A c \in Cases \ {d} : replies'[c] = replies[c]
    BY <1>0, <2>2
  <2>4. LockInv'
    BY <2>1, <2>2, LockKept DEF Labels
  <2>5. RowInv'
    <3>1. \A c \in Cases : replies'[c] > 0 => ack'[c] \notin Fresh
      BY <1>0, <2>2, <2>3 DEF RowInv
    <3>2. \A c \in Cases : replies'[c] >= replies[c]
      BY <1>0, <2>3
    <3>3. replies'[d] > 0
      BY <1>0, <2>3
    <3>4. ASSUME NEW i \in Jobs
          PROVE  pc'[i] = "record" => replies'[case'[i]] > 0
      <4>1. CASE i = j
        BY <2>2, <3>3, <4>1
      <4>2. CASE i # j
        <5>1. pc'[i] = pc[i] /\ case'[i] = case[i] /\ case[i] \in Cases
          BY <1>0, <2>1, <2>2, <4>2
        <5>2. replies[case[i]] \in Nat /\ replies'[case[i]] >= replies[case[i]]
          BY <1>0, <3>2, <5>1
        <5>3. replies'[case[i]] \in Nat
          BY <5>1 DEF TypeOK
        <5>4. pc[i] = "record" => replies[case[i]] > 0
          BY DEF RowInv
        <5>5. replies'[case'[i]] \in Nat /\ replies'[case'[i]] >= replies[case[i]]
          BY <5>1, <5>2, <5>3
        <5> QED  BY <5>1, <5>2, <5>4, <5>5
      <4> QED  BY <4>1, <4>2
    <3>5. ASSUME NEW i \in Jobs
          PROVE  /\ pc'[i] \in {"read", "claim"} => ack'[case'[i]] # "NONE"
                 /\ pc'[i] \in {"send", "record", "event", "fail"} => ack'[case'[i]] \notin Fresh
      BY <1>0, <2>1, <2>2 DEF RowInv
    <3> QED  BY <3>1, <3>4, <3>5 DEF RowInv, Fresh
  <2>6. SentIsProven'
    BY <1>0, <2>2, <2>3 DEF SentIsProven
  <2>7. ASSUME NEW c \in Cases
        PROVE  replies'[c] + Cardinality(Senders(c)') <= 1 + overruns'
    <3>1. IsFiniteSet(Senders(c)) /\ Cardinality(Senders(c)) \in Nat
      BY Finite
    <3>2. replies[c] + Cardinality(Senders(c)) <= 1 + overruns
      BY DEF CountInv
    <3>3. CASE c = d
      <4>1. j \in Senders(c)
        BY <2>2, <3>3 DEF Senders
      <4>2. Senders(c)' = Senders(c) \ {j}
        BY <1>0, <2>1, <2>2, <3>3 DEF Senders
      <4>3. Cardinality(Senders(c)') = Cardinality(Senders(c)) - 1
        BY <3>1, <4>1, <4>2, FS_RemoveElement
      <4> QED  BY <1>0, <2>2, <2>3, <3>1, <3>2, <3>3, <4>3
    <3>4. CASE c # d
      <4>1. Senders(c)' = Senders(c)
        BY <1>0, <2>1, <2>2, <3>4 DEF Senders
      <4> QED  BY <2>2, <2>3, <3>2, <3>4, <4>1
    <3> QED  BY <3>3, <3>4
  <2>8. CountInv'
    BY <2>7 DEF CountInv, Senders
  <2> QED  BY <2>4, <2>5, <2>6, <2>8
<1>7. CASE RecordAck(j)
  <2>1. PICK label \in {"event", "fail"} : pc' = [pc EXCEPT ![j] = label]
    BY <1>7 DEF RecordAck
  <2>2. /\ pc[j] = "record"
        /\ UNCHANGED <<lock, case, replies, overruns>>
    BY <1>7 DEF RecordAck
  <2>3. \/ /\ ack' = [ack EXCEPT ![d] = IF @ = "IN_FLIGHT" THEN "SENT" ELSE @]
           /\ proof' = [proof EXCEPT ![d] = @ + 1]
        \/ UNCHANGED <<ack, proof>>
    BY <1>7 DEF RecordAck
  <2>4. LockInv'
    BY <2>1, <2>2, LockKept DEF Labels
  <2>5. RowInv'
    BY <1>0, <2>1, <2>2, <2>3 DEF RowInv, Fresh
  <2>6. replies[d] > 0
    BY <1>0, <2>2 DEF RowInv
  <2>7. SentIsProven'
    BY <1>0, <2>2, <2>3, <2>6 DEF SentIsProven
  <2>8. CountInv'
    BY <1>0, <2>1, <2>2, CountKept
  <2> QED  BY <2>4, <2>5, <2>7, <2>8
<1>8. CASE RecordEvent(j)
  <2>1. PICK label \in {"ingest", "fail"} : pc' = [pc EXCEPT ![j] = label]
    BY <1>8 DEF RecordEvent
  <2>2. pc[j] = "event" /\ UNCHANGED <<lock, case, ack, proof, replies, overruns>>
    BY <1>8 DEF RecordEvent, acks
  <2>3. LockInv'
    BY <2>1, <2>2, LockKept DEF Labels
  <2>4. RowInv'
    BY <1>0, <2>1, <2>2 DEF RowInv
  <2>5. SentIsProven'
    BY <2>2 DEF SentIsProven
  <2>6. CountInv'
    BY <1>0, <2>1, <2>2, CountKept
  <2> QED  BY <2>3, <2>4, <2>5, <2>6
<1>9. CASE FailAck(j)
  <2>1. /\ pc[j] = "fail"
        /\ pc' = [pc EXCEPT ![j] = "ingest"]
        /\ ack' = [ack EXCEPT ![d] = "FAILED"] \/ ack' = ack
        /\ UNCHANGED <<lock, case, proof, replies, overruns>>
    BY <1>9 DEF FailAck
  <2>2. LockInv'
    BY <2>1, LockKept DEF Labels
  <2>3. RowInv'
    BY <1>0, <2>1 DEF RowInv, Fresh
  <2>4. SentIsProven'
    BY <1>0, <2>1 DEF SentIsProven
  <2>5. CountInv'
    BY <1>0, <2>1, CountKept
  <2> QED  BY <2>2, <2>3, <2>4, <2>5
<1> QED  BY <1>1, <1>2, <1>3, <1>4, <1>5, <1>6, <1>7, <1>8, <1>9

-----------------------------------------------------------------------------
\* The invariant of the whole: types, at most overruns jobs without the lock, the
\* place of a job fits its row, SENT is proven, replies are counted.
THEOREM MailAckInvariant == Spec => []IInv
<1>1. Init => IInv
  <2> SUFFICES ASSUME Init
               PROVE  IInv
    OBVIOUS
  <2>1. TypeOK
    BY MailAckAssumption DEF Init, Rows!Init, TypeOK, Labels, AckStatus
  <2>2. Running = {} /\ \A c \in Cases : Senders(c) = {}
    BY DEF Init, Running, Senders
  <2>3. Detached = {}
    BY <2>2 DEF Detached
  <2>4. Cardinality({}) = 0
    BY FS_EmptySet
  <2>5. LockInv
    BY <2>3, <2>4 DEF Init, LockInv
  <2>6. CountInv
    <3> SUFFICES ASSUME NEW c \in Cases
                 PROVE  replies[c] + Cardinality(Senders(c)) <= 1 + overruns
      BY DEF CountInv
    <3>1. replies[c] = 0 /\ overruns = 0
      BY DEF Init
    <3>2. Cardinality(Senders(c)) = 0
      BY <2>2, <2>4
    <3> QED  BY <3>1, <3>2
  <2>7. RowInv /\ SentIsProven
    BY DEF Init, RowInv, SentIsProven
  <2> QED  BY <2>1, <2>5, <2>6, <2>7 DEF IInv
<1>2. IInv /\ [Next]_vars => IInv'
  <2> SUFFICES ASSUME IInv, [Next]_vars
               PROVE  IInv'
    OBVIOUS
  <2>1. CASE Next
    <3>1. TypeOK'
      BY <2>1, TypePreserved DEF IInv
    <3>2. LockInv' /\ RowInv' /\ SentIsProven' /\ CountInv'
      BY <2>1, <3>1, QuietPreserves, AckPreserves DEF Next, Work, Acknowledge
    <3> QED  BY <3>1, <3>2 DEF IInv
  <2>2. CASE UNCHANGED vars
    BY <2>2 DEF vars, mailbox, acks, locals, IInv, TypeOK, LockInv, Detached, Running,
                RowInv, SentIsProven, CountInv, Senders
  <2> QED  BY <2>1, <2>2
<1> QED  BY <1>1, <1>2, PTL DEF Spec

\* Types of all variables of the acknowledgment.
THEOREM MailAckTypeCorrect == Spec => []TypeOK
<1>1. IInv => TypeOK
  BY DEF IInv
<1> QED  BY <1>1, MailAckInvariant, PTL

\* Each lock that ran out under a job can add one reply, and nothing else can.
LEMMA RepliesCounted ==
  ASSUME IInv, NEW c \in Cases
  PROVE  replies[c] <= 1 + overruns
<1>1. replies[c] + Cardinality(Senders(c)) <= 1 + overruns
  BY DEF IInv, CountInv
<1>2. Cardinality(Senders(c)) \in Nat /\ replies[c] \in Nat /\ overruns \in Nat
  BY Finite DEF IInv, TypeOK
<1> QED  BY <1>1, <1>2

\* acknowledgeComplaint answers a complaint at most once as long as every job ends
\* before its lock of runScheduledOperations does.
THEOREM OneReplyWithinLock == Spec => []OneReplyInLock
<1>1. IInv => OneReplyInLock
  <2> SUFFICES ASSUME IInv, overruns = 0, NEW c \in Cases
               PROVE  replies[c] <= 1
    BY DEF OneReplyInLock, OneReply
  <2>1. replies[c] <= 1 + overruns
    BY RepliesCounted
  <2> QED  BY <2>1
<1> QED  BY <1>1, MailAckInvariant, PTL

\* An acknowledgment marked SENT was sent, and its DUNKIN_ACKNOWLEDGED event is
\* stored with it.
THEOREM SentProven == Spec => []SentIsProven
<1>1. IInv => SentIsProven
  BY DEF IInv
<1> QED  BY <1>1, MailAckInvariant, PTL

\* A row that left PENDING never returns, so no later job sends it.
THEOREM AmbiguousKept == Spec => AmbiguousStays
<1> DEFINE Ambiguous == {"IN_FLIGHT", "SENT", "FAILED"}
           Stays == \A c \in Cases : ack[c] \in Ambiguous => ack'[c] \in Ambiguous
<1>1. TypeOK /\ [Next]_vars => [Stays]_vars
  <2> SUFFICES ASSUME TypeOK, Next
               PROVE  Stays
    BY DEF vars, acks
  <2>1. ack \in [Cases -> AckStatus]
    BY DEF TypeOK
  <2>2. CASE UNCHANGED ack
    BY <2>2
  <2>3. ASSUME NEW j \in Jobs, InsertAck(j) \/ ClaimAck(j) \/ RecordAck(j) \/ FailAck(j)
        PROVE  Stays
    BY <2>1, <2>3 DEF InsertAck, ClaimAck, RecordAck, FailAck, Inserted, Claimed
  <2>4. CASE Arrive \/ LockExpires \/ \E m \in Messages : Intake(m)
    BY <2>2, <2>4 DEF Arrive, LockExpires, Intake, acks
  <2>5. ASSUME NEW j \in Jobs,
               \/ Claim(j) \/ Prepare(j) \/ List(j) \/ EndPoll(j) \/ Unlock(j) \/ ReadSource(j)
               \/ ReadAck(j) \/ SendAck(j) \/ RecordEvent(j) \/ Throws(j) \/ Dies(j)
               \/ \E m \in Messages : Ingest(j, m)
        PROVE  UNCHANGED ack
    BY <2>5 DEF Claim, Prepare, List, EndPoll, Unlock, ReadSource, ReadAck, SendAck, RecordEvent,
                Throws, Dies, Ingest, acks
  <2> QED  BY <2>2, <2>3, <2>4, <2>5 DEF Next, Work, Acknowledge
<1> QED  BY <1>1, MailAckTypeCorrect, PTL DEF Spec, AmbiguousStays
=============================================================================
