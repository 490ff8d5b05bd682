------------------------- MODULE ResponseDeskProofs -------------------------
(***************************************************************************)
(* Theorems about ResponseDesk, for any number of people, rows and items.  *)
(*                                                                         *)
(* Everything rests on what a request knows: the row it read exists, and   *)
(* the state it read is one from which its transition starts - so never a  *)
(* decision.  An UPDATE that asks for that state cannot meet a decision,   *)
(* and what an answer showed stays true.                                   *)
(***************************************************************************)
EXTENDS ResponseDesk, TLAPS

\* The row a request is at exists, and what it saw is where it may start from.
WantInv ==
  \A p \in People :
    pc[p] # "idle" => rows[want[p].on] \in Row /\ seen[p] \in From(want[p].op)

\* A resolution that was answered closed its item.
ClosedInv == \A t \in told : t.op = "resolve" => items[t.on] = t.item /\ ~items[t.on].open

IInv == TypeOK /\ WantInv /\ AnswerIsFinal /\ ClosedInv

-----------------------------------------------------------------------------
\* A row is there or it is NoRow.
LEMMA RowOrNone ==
  ASSUME TypeOK, NEW a \in Actions
  PROVE  /\ a \in Made <=> rows[a] \in Row
         /\ a \notin Made <=> rows[a] = NoRow
         /\ rows[a].state \in Decisions => rows[a] \in Row
         /\ rows[a].complaint \in Complaints => rows[a] \in Row
<1>1. rows[a] \in Row \cup {NoRow}
  BY DEF TypeOK
<1>2. NoRow \notin Row
  BY ResponseDeskAssumption DEF NoRow, Row
<1>3. NoRow.state = None /\ NoRow.complaint = None
  BY DEF NoRow
<1>4. None \notin Decisions /\ None \notin Complaints
  BY ResponseDeskAssumption DEF Decisions, States
<1> QED  BY <1>1, <1>2, <1>3, <1>4 DEF Made

\* What the UPDATE makes of a row.
LEMMA Updated ==
  ASSUME NEW row \in Row, NEW op \in Verdicts, NEW p \in People
  PROVE  /\ Moved(row, op, p) \in Row
         /\ Moved(row, op, p).complaint = row.complaint
         /\ Moved(row, op, p).kind = row.kind
<1>1. To(op) \in States
  BY DEF To, Verdicts, States
<1> QED  BY <1>1 DEF Row, Moved

\* What the UPDATE does to the table: nothing, or it moves one row that is not a
\* decision.
LEMMA WriteStep ==
  ASSUME IInv, NEW p \in People, Write(p)
  PROVE  /\ rows' \in [Actions -> Row \cup {NoRow}]
         /\ \A a \in Actions :
              /\ rows[a] \in Row => /\ rows'[a] \in Row
                                    /\ rows'[a].complaint = rows[a].complaint
                                    /\ rows'[a].kind = rows[a].kind
              /\ rows[a].state \in Decisions => rows'[a] = rows[a]
<1> DEFINE b == want[p].on
           op == want[p].op
           new == Moved(rows[b], op, p)
<1>1. rows \in [Actions -> Row \cup {NoRow}] /\ b \in Actions /\ op \in Verdicts
  BY DEF IInv, TypeOK, Want
<1>2. pc[p] = "write" /\ (rows' = rows \/ (Holds(p) /\ rows' = [rows EXCEPT ![b] = new]))
  BY DEF Write
<1>3. rows[b] \in Row /\ seen[p] \in From(op)
  BY <1>2 DEF IInv, WantInv
<1>4. new \in Row /\ new.complaint = rows[b].complaint /\ new.kind = rows[b].kind
  BY <1>1, <1>3, Updated
<1>5. Holds(p) => rows[b].state \notin Decisions
  BY <1>3 DEF Holds, From, Decisions
<1> HIDE DEF new
<1> QED  BY <1>1, <1>2, <1>3, <1>4, <1>5

\* Every step keeps the types.
LEMMA TypePreserved ==
  ASSUME IInv, Next
  PROVE  TypeOK'
<1> USE DEF IInv, TypeOK, Goto, Fault
<1>1. ASSUME NEW t, t \in Judged \cup Resolved, Answer(t)
      PROVE  told' \subseteq Judged \cup Resolved /\ faults' \in Nat
  BY <1>1 DEF Answer
<1>2. ASSUME NEW p \in People, NEW a \in Actions, NEW c \in Complaints, NEW k \in Kinds,
             Draft(p, a, c, k)
      PROVE  TypeOK'
  <2> DEFINE new == [complaint |-> c, kind |-> k, state |-> "DRAFT", by |-> None]
  <2>1. new \in Row
    BY DEF Row, States
  <2>2. rows' = [rows EXCEPT ![a] = new] \/ rows' = rows
    BY <1>2 DEF Draft
  <2>3. ops' \in Nat /\ UNCHANGED <<items, pc, want, seen, told, faults>>
    BY <1>2 DEF Draft, Begin
  <2> HIDE DEF new
  <2>4. rows' \in [Actions -> Row \cup {NoRow}]
    BY <2>1, <2>2
  <2> QED  BY <2>3, <2>4
<1>3. ASSUME NEW p \in People, NEW a \in Actions, NEW op \in Verdicts, Read(p, op, a)
      PROVE  TypeOK'
  <2>1. rows[a].state \in States
    BY <1>3, RowOrNone DEF Read, Row
  <2>2. [op |-> op, on |-> a] \in Want
    BY DEF Want
  <2>3. want' \in [People -> Want] /\ seen' \in [People -> States]
    BY <1>3, <2>1, <2>2 DEF Read
  <2> QED  BY <1>3, <2>3 DEF Read, Begin
<1>4. ASSUME NEW p \in People, Write(p)
      PROVE  TypeOK'
  <2>1. rows' \in [Actions -> Row \cup {NoRow}]
    BY <1>4, WriteStep
  <2>2. pc' \in [People -> {"idle", "write", "reread"}]
    BY <1>4 DEF Write
  <2>3. UNCHANGED <<items, want, seen, told, ops, faults>>
    BY <1>4 DEF Write
  <2> QED  BY <2>1, <2>2, <2>3
<1>5. ASSUME NEW p \in People, Reread(p)
      PROVE  TypeOK'
  <2> DEFINE t == [op |-> "judge", on |-> want[p].on, row |-> ReadBack(p)]
  <2>1. rows[want[p].on] \in Row /\ want[p].on \in Actions
    BY <1>5 DEF Reread, WantInv, Want
  <2>2. t \in Judged
    BY <2>1 DEF Judged, ReadBack
  <2>3. Answer(t)
    BY <1>5 DEF Reread
  <2>4. told' \subseteq Judged \cup Resolved /\ faults' \in Nat
    BY <1>1, <2>2, <2>3
  <2>5. pc' \in [People -> {"idle", "write", "reread"}] /\ UNCHANGED <<rows, items, want, seen, ops>>
    BY <1>5 DEF Reread
  <2> HIDE DEF t
  <2> QED  BY <2>4, <2>5
<1>6. ASSUME NEW p \in People, Throws(p)
      PROVE  TypeOK'
  BY <1>6 DEF Throws
<1>7. ASSUME NEW p \in People, NEW i \in Items, NEW action \in {"link", "dismiss"},
             NEW c \in Complaints \cup {None}, Resolve(p, i, action, c)
      PROVE  TypeOK'
  <2> DEFINE item == [open |-> FALSE,
                      complaint |-> IF c = None THEN items[i].complaint ELSE c,
                      reviewer |-> p,
                      resolution |-> <<[action |-> action, complaint |-> c, by |-> p]>>]
             t == [op |-> "resolve", on |-> i, item |-> item]
  <2>1. [action |-> action, complaint |-> c, by |-> p] \in Resolution
    BY DEF Resolution
  <2>2. items[i].complaint \in Complaints \cup {None}
    BY DEF Item
  <2>3. item \in Item
    BY <2>1, <2>2 DEF Item
  <2>4. t \in Resolved
    BY <2>3 DEF Resolved
  <2>5. items' = [items EXCEPT ![i] = item] /\ Answer(t)
    BY <1>7 DEF Resolve
  <2>6. ops' \in Nat /\ UNCHANGED <<rows, pc, want, seen>>
    BY <1>7 DEF Resolve, Begin
  <2> HIDE DEF item, t
  <2>7. told' \subseteq Judged \cup Resolved /\ faults' \in Nat
    BY <1>1, <2>4, <2>5
  <2>8. items' \in [Items -> Item]
    BY <2>3, <2>5
  <2> QED  BY <2>6, <2>7, <2>8
<1>8. ASSUME NEW p \in People, NEW i \in Items, NEW assignee \in People, Assign(p, i, assignee)
      PROVE  TypeOK'
  <2> DEFINE item == [items[i] EXCEPT !.reviewer = assignee]
  <2>1. item \in Item
    BY DEF Item
  <2>2. items' = [items EXCEPT ![i] = item]
    BY <1>8 DEF Assign
  <2> HIDE DEF item
  <2>3. items' \in [Items -> Item]
    BY <2>1, <2>2
  <2> QED  BY <1>8, <2>3 DEF Assign, Begin
<1> QED  BY <1>2, <1>3, <1>4, <1>5, <1>6, <1>7, <1>8 DEF Next

-----------------------------------------------------------------------------
\* No step touches a decision, or removes a row or changes what it is about.
LEMMA RowsStand ==
  ASSUME IInv, [Next]_vars
  PROVE  \A a \in Actions :
           /\ rows[a] \in Row => /\ rows'[a] \in Row
                                 /\ rows'[a].complaint = rows[a].complaint
                                 /\ rows'[a].kind = rows[a].kind
           /\ rows[a].state \in Decisions => rows'[a] = rows[a]
<1>1. CASE UNCHANGED rows
  BY <1>1
<1>2. ASSUME NEW p \in People, NEW b \in Actions, NEW c \in Complaints, NEW k \in Kinds,
             Draft(p, b, c, k)
      PROVE  \A a \in Actions : rows[a] \in Row \/ rows[a].state \in Decisions => rows'[a] = rows[a]
  <2> SUFFICES ASSUME NEW a \in Actions, rows[a] \in Row \/ rows[a].state \in Decisions
               PROVE  rows'[a] = rows[a]
    OBVIOUS
  <2>1. a \in Made
    BY RowOrNone DEF IInv
  <2>2. b \notin Made
    BY <1>2 DEF Draft
  <2>3. rows \in [Actions -> Row \cup {NoRow}]
    BY DEF IInv, TypeOK
  <2> QED  BY <1>2, <2>1, <2>2, <2>3 DEF Draft
<1>3. ASSUME NEW p \in People, Write(p)
      PROVE  \A a \in Actions :
               /\ rows[a] \in Row => /\ rows'[a] \in Row
                                     /\ rows'[a].complaint = rows[a].complaint
                                     /\ rows'[a].kind = rows[a].kind
               /\ rows[a].state \in Decisions => rows'[a] = rows[a]
  BY <1>3, WriteStep
<1>4. CASE UNCHANGED vars
  BY <1>1, <1>4 DEF vars
<1> QED  BY <1>1, <1>2, <1>3, <1>4 DEF Next, Read, Reread, Throws, Resolve, Assign

\* Every step keeps what requests know.
LEMMA WantPreserved ==
  ASSUME IInv, Next
  PROVE  WantInv'
<1>0. pc \in [People -> {"idle", "write", "reread"}] /\ want \in [People -> Want]
      /\ seen \in [People -> States]
  BY DEF IInv, TypeOK
<1> SUFFICES ASSUME NEW q \in People, pc'[q] # "idle"
             PROVE  rows'[want'[q].on] \in Row /\ seen'[q] \in From(want'[q].op)
  BY DEF WantInv, From
<1>1. ASSUME NEW a \in Actions, rows[a] \in Row
      PROVE  rows'[a] \in Row
  BY <1>1, RowsStand
<1>2. CASE pc[q] # "idle" /\ want'[q] = want[q] /\ seen'[q] = seen[q]
  BY <1>0, <1>1, <1>2 DEF IInv, WantInv, Want
<1>3. ASSUME NEW p \in People, NEW a \in Actions, NEW op \in Verdicts, Read(p, op, a)
      PROVE  rows'[want'[q].on] \in Row /\ seen'[q] \in From(want'[q].op)
  <2>1. CASE q = p
    <3>1. want'[q] = [op |-> op, on |-> a] /\ seen'[q] = rows[a].state
      BY <1>0, <1>3, <2>1 DEF Read
    <3>2. rows[a] \in Row /\ rows[a].state \in From(op) /\ rows' = rows
      BY <1>3, RowOrNone DEF Read, IInv
    <3> QED  BY <3>1, <3>2
  <2>2. CASE q # p
    BY <1>0, <1>2, <1>3, <2>2 DEF Read, Goto
  <2> QED  BY <2>1, <2>2
<1>4. ASSUME NEW p \in People, Write(p) \/ Reread(p) \/ Throws(p)
      PROVE  rows'[want'[q].on] \in Row /\ seen'[q] \in From(want'[q].op)
  <2>1. pc[q] # "idle"
    BY <1>0, <1>4 DEF Write, Reread, Throws, Goto
  <2>2. UNCHANGED <<want, seen>>
    BY <1>4 DEF Write, Reread, Throws
  <2> QED  BY <1>2, <2>1, <2>2
<1>5. CASE UNCHANGED <<pc, want, seen>>
  BY <1>2, <1>5
<1> QED  BY <1>3, <1>4, <1>5 DEF Next, Draft, Resolve, Assign

\* Every step keeps what answers showed of responses.
LEMMA AnswerPreserved ==
  ASSUME IInv, Next
  PROVE  AnswerIsFinal'
<1> SUFFICES ASSUME NEW t \in told', t.op = "judge", t.row.state \in Decisions
             PROVE  rows'[t.on] = t.row
  BY DEF AnswerIsFinal, Decisions
<1>1. CASE t \in told
  <2>1. rows[t.on] = t.row
    BY <1>1 DEF IInv, AnswerIsFinal
  <2>2. t.on \in Actions
    BY <1>1 DEF IInv, TypeOK, Judged, Resolved
  <2> QED  BY <2>1, <2>2, RowsStand
<1>2. CASE t \notin told
  <2>1. ASSUME NEW p \in People, Reread(p)
        PROVE  rows'[t.on] = t.row
    BY <1>2, <2>1 DEF Reread, Answer, ReadBack
  <2>2. ASSUME NEW p \in People, NEW i \in Items, NEW action \in {"link", "dismiss"},
               NEW c \in Complaints \cup {None}, Resolve(p, i, action, c)
        PROVE  FALSE
    BY <1>2, <2>2 DEF Resolve, Answer
  <2>3. CASE UNCHANGED told
    BY <1>2, <2>3
  <2> QED  BY <2>1, <2>2, <2>3 DEF Next, Draft, Read, Write, Throws, Assign
<1> QED  BY <1>1, <1>2

\* Every step keeps what answers showed of review items.
LEMMA ClosedPreserved ==
  ASSUME IInv, Next
  PROVE  ClosedInv'
<1>0. items \in [Items -> Item] /\ told \subseteq Judged \cup Resolved
  BY DEF IInv, TypeOK
<1> SUFFICES ASSUME NEW t \in told', t.op = "resolve"
             PROVE  items'[t.on] = t.item /\ ~items'[t.on].open
  BY DEF ClosedInv
<1>1. ASSUME t \in told
      PROVE  items[t.on] = t.item /\ ~items[t.on].open /\ t.on \in Items
  BY <1>0, <1>1 DEF IInv, ClosedInv, Judged, Resolved
<1>2. CASE UNCHANGED items /\ t \in told
  BY <1>1, <1>2
<1>3. ASSUME NEW p \in People, NEW i \in Items, NEW action \in {"link", "dismiss"},
             NEW c \in Complaints \cup {None}, Resolve(p, i, action, c)
      PROVE  items'[t.on] = t.item /\ ~items'[t.on].open
  <2> DEFINE item == [open |-> FALSE,
                      complaint |-> IF c = None THEN items[i].complaint ELSE c,
                      reviewer |-> p,
                      resolution |-> <<[action |-> action, complaint |-> c, by |-> p]>>]
             u == [op |-> "resolve", on |-> i, item |-> item]
  <2>1. items' = [items EXCEPT ![i] = item] /\ told' \subseteq told \cup {u} /\ items[i].open
    BY <1>3 DEF Resolve, Answer, IsOpen
  <2>2. ~item.open /\ u.on = i /\ u.item = item
    OBVIOUS
  <2> HIDE DEF item, u
  <2>3. CASE t \in told
    BY <1>0, <1>1, <2>1, <2>3
  <2>4. CASE t \notin told
    BY <1>0, <2>1, <2>2, <2>4
  <2> QED  BY <2>3, <2>4
<1>4. ASSUME NEW p \in People, NEW i \in Items, NEW assignee \in People, Assign(p, i, assignee)
      PROVE  items'[t.on] = t.item /\ ~items'[t.on].open
  <2>1. t \in told /\ items[i].open
    BY <1>4 DEF Assign, IsOpen
  <2>2. t.on # i
    BY <1>1, <2>1
  <2>3. items'[t.on] = items[t.on]
    BY <1>0, <1>1, <1>4, <2>1, <2>2 DEF Assign
  <2> QED  BY <1>1, <2>1, <2>3
<1>5. ASSUME NEW p \in People, NEW u, u.op # "resolve", Answer(u), UNCHANGED items
      PROVE  items'[t.on] = t.item /\ ~items'[t.on].open
  <2>1. t \in told
    BY <1>5 DEF Answer
  <2> QED  BY <1>2, <1>5, <2>1
<1>6. ASSUME NEW p \in People, Reread(p)
      PROVE  items'[t.on] = t.item /\ ~items'[t.on].open
  <2>1. [op |-> "judge", on |-> want[p].on, row |-> ReadBack(p)].op # "resolve"
    OBVIOUS
  <2> QED  BY <1>5, <1>6, <2>1 DEF Reread
<1> QED  BY <1>2, <1>3, <1>4, <1>6 DEF Next, Draft, Read, Write, Throws

-----------------------------------------------------------------------------
\* The invariant of the whole: types, what requests know, what answers showed.
THEOREM DeskInvariant == Spec => []IInv
<1>1. Init => IInv
  <2> SUFFICES ASSUME Init
               PROVE  IInv
    OBVIOUS
  <2>1. \A a \in Actions : rows[a] \in Row \cup {NoRow}
    BY DEF Init
  <2>2. items \in [Items -> Item]
    BY DEF Init, Item
  <2>3. [op |-> "submit", on |-> CHOOSE a \in Actions : TRUE] \in Want
    BY ResponseDeskAssumption DEF Want, Verdicts
  <2>4. TypeOK
    BY <2>1, <2>2, <2>3 DEF Init, TypeOK, States
  <2>5. WantInv /\ AnswerIsFinal /\ ClosedInv
    BY DEF Init, WantInv, AnswerIsFinal, ClosedInv
  <2> QED  BY <2>4, <2>5 DEF IInv
<1>2. IInv /\ [Next]_vars => IInv'
  <2> SUFFICES ASSUME IInv, [Next]_vars
               PROVE  IInv'
    OBVIOUS
  <2>1. CASE Next
    BY <2>1, TypePreserved, WantPreserved, AnswerPreserved, ClosedPreserved DEF IInv
  <2>2. CASE UNCHANGED vars
    BY <2>2 DEF vars, IInv, TypeOK, WantInv, From, AnswerIsFinal, ClosedInv
  <2> QED  BY <2>1, <2>2
<1> QED  BY <1>1, <1>2, PTL DEF Spec

\* Types of all variables.
THEOREM DeskTypeCorrect == Spec => []TypeOK
<1>1. IInv => TypeOK
  BY DEF IInv
<1> QED  BY <1>1, DeskInvariant, PTL

\* transitionState never overwrites a decision: neither an approval nor a
\* rejection, nor who took it.
THEOREM DecisionsStand == Spec => DecisionStands
<1> DEFINE Stand == \A a \in Actions : rows[a].state \in Decisions => rows'[a] = rows[a]
<1>1. IInv /\ [Next]_vars => [Stand]_vars
  BY RowsStand
<1> QED  BY <1>1, DeskInvariant, PTL DEF Spec, DecisionStands

\* A decision that a route answered with is on record from then on.
THEOREM AnswersFinal == Spec => []AnswerIsFinal
<1>1. IInv => AnswerIsFinal
  BY DEF IInv
<1> QED  BY <1>1, DeskInvariant, PTL

\* A resolution that the review route answered ok is never replaced.
THEOREM ResolutionsStand == Spec => []ResolutionStands
<1>1. IInv => ResolutionStands
  BY DEF IInv, ClosedInv, ResolutionStands
<1> QED  BY <1>1, DeskInvariant, PTL
=============================================================================
