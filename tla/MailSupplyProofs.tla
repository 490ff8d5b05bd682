-------------------------- MODULE MailSupplyProofs --------------------------
(***************************************************************************)
(* Theorems about MailSupply, for every mailbox, page size and number of   *)
(* requests.                                                               *)
(*                                                                         *)
(* CursorIsCovered needs to be known of every place a cursor may be taken  *)
(* from: of the value a request read to put it back, and of the link of a  *)
(* run.  Behind a link, each change has been seen to, is the one the run   *)
(* is at, or is on its page; and a run has no page except where it works   *)
(* through one.  Mail left to another invocation stays seen to when that   *)
(* invocation ends (LeaseInv): a message is PROCESSING only if somebody    *)
(* is at it or it has failed, and waiting only if it has failed.  So no    *)
(* step of another request disturbs this.                                  *)
(***************************************************************************)
EXTENDS MailSupply, TLAPS

\* Taken in; or left by discovery, and failed or still under way.
Seen == Settled \cup (left \cap (failed \cup AtWork))

Covered(n) == 1..n \subseteq Seen

\* Every value that may become the cursor's is covered.
CoverInv == Covered(cursor.value) /\ \A r \in Requests : Covered(peeked[r].value)

\* A lease is that of an invocation at work, or of one that failed; what waits has
\* failed; what is at work has a row.
LeaseInv ==
  /\ \A m \in Messages : source[m] \in Processing => m \in failed \cup AtWork
  /\ \A m \in Messages : source[m] = "waiting" => m \in failed
  /\ \A m \in Messages : m \in AtWork => source[m] # "new"

\* Places at which the link of a run is set, and before the end of its last page.
Walking == {"fetch", "page", "save", "park", "parking"}
Reading == {"start", "started", "read", "fetch", "page"}

\* What a run is past has been seen to, but for what is left of its page.
Walk(r) ==
  /\ page[r] \subseteq 1..arrived
  /\ pc[r] # "page" => page[r] = {}
  /\ at[r] # 0 => pc[r] \in {"page"} \cup Importing
  /\ pc[r] \in Walking => 1..link[r] \subseteq Seen \cup page[r] \cup {at[r]}
  /\ pc[r] \in Reading => pages[r] < MaxPages

WalkInv == \A r \in Requests : Walk(r)

PilotInv ==
  /\ imports <= 1
  /\ armed => imports = 0

IInv == TypeOK /\ CoverInv /\ LeaseInv /\ WalkInv /\ PilotInv

-----------------------------------------------------------------------------
\* The initial state.
LEMMA InitInv ==
  ASSUME Init
  PROVE  IInv
<1> USE MailSupplyAssumption DEF Init, Messages
<1>1. cursor \in Cursor /\ Unread \in Cursor /\ cursor.value = 0
  BY DEF Unread, Cursor
<1>2. TypeOK
  <2>1. NumMessages \in Nat /\ MaxPages \in Nat
    OBVIOUS
  <2>2. /\ arrived \in 0..NumMessages /\ polled \subseteq 1..arrived
        /\ failed \subseteq 1..arrived /\ left \subseteq 1..arrived
        /\ source \in [Messages -> Progress] /\ \A m \in Messages : source[m] = "new"
    BY <2>1 DEF Progress
  <2>3. /\ pc \in [Requests -> Labels]
        /\ link \in [Requests -> 0..NumMessages]
        /\ mark \in [Requests -> 0..NumMessages]
        /\ page \in [Requests -> SUBSET Messages]
        /\ pages \in [Requests -> 0..MaxPages]
        /\ last \in [Requests -> BOOLEAN]
        /\ peeked \in [Requests -> Cursor]
        /\ at \in [Requests -> 0..NumMessages]
    BY <1>1, <2>1 DEF Labels
  <2>4. enabled \in BOOLEAN /\ armed \in BOOLEAN /\ overlap \in BOOLEAN
    OBVIOUS
  <2>5. imports \in Nat /\ runs \in Nat /\ switches \in Nat /\ faults \in Nat
    OBVIOUS
  <2> QED  BY <1>1, <2>2, <2>3, <2>4, <2>5 DEF TypeOK
<1>3. CoverInv
  BY DEF CoverInv, Covered, Unread
<1>4. WalkInv
  BY DEF WalkInv, Walk, Walking, Reading
<1>5. PilotInv
  BY DEF PilotInv
<1>6. LeaseInv
  <2>1. \A m \in Messages : m \notin AtWork
    BY DEF AtWork
  <2> QED  BY <2>1 DEF LeaseInv, Processing
<1> QED  BY <1>2, <1>3, <1>4, <1>5, <1>6 DEF IInv

-----------------------------------------------------------------------------
\* The intake of a message: what its steps do to the row of the message.
LEMMA IntakeSteps ==
  ASSUME TypeOK, NEW m \in Messages
  PROVE  /\ TakesUp(m) => /\ source' = [source EXCEPT ![m] = "leased"]
                          /\ source[m] \in {"new", "waiting", "lapsed"}
         /\ TurnedAway(m) => source' = source /\ source[m] \in {"leased", "settled"}
         /\ StopsShort(m) => /\ failed' = failed \cup {m}
                             /\ \/ source' = source
                                \/ source[m] = "new" /\ source' = [source EXCEPT ![m] = "waiting"]
         /\ \A progress :
              Moves(m, progress) =>
                \/ source' = source /\ source[m] \notin Processing
                \/ source' = [source EXCEPT ![m] = progress] /\ source[m] \in Processing
         /\ Breaks(m) => /\ failed' = failed \cup {m}
                         /\ \/ source' = source
                            \/ \E progress \in {"waiting", "settled"} :
                                 /\ source' = [source EXCEPT ![m] = progress]
                                 /\ source[m] \in Processing
<1>1. source \in [Messages -> Progress]
  BY DEF TypeOK
<1>2. ASSUME NEW progress, Moves(m, progress)
      PROVE  \/ source' = source /\ source[m] \notin Processing
             \/ source' = [source EXCEPT ![m] = progress] /\ source[m] \in Processing
  BY <1>1, <1>2 DEF Moves
<1> QED  BY <1>2 DEF TakesUp, TurnedAway, StopsShort, Breaks

\* Every step keeps the types.
LEMMA TypePreserved ==
  ASSUME IInv, Next
  PROVE  TypeOK'
<1> USE DEF TypeOK, tables, locals, history, bounds, Goto, Fault
<1> USE MailSupplyAssumption
<1>0. /\ TypeOK /\ NumMessages \in Nat /\ MaxPages \in Nat /\ PageSize \in Nat /\ Unread \in Cursor
      /\ arrived \in Nat
  BY DEF IInv, Unread, Cursor
<1> DEFINE SourceOK == /\ source \in [Messages -> Progress]
                       /\ \A m \in Messages : m > arrived => source[m] = "new"
\* Only the row of a message that has arrived changes.
<1>s. ASSUME NEW m \in Messages, m <= arrived, arrived' = arrived, NEW progress \in Progress,
             source' = source \/ source' = [source EXCEPT ![m] = progress]
      PROVE  SourceOK'
  <2>1. CASE source' = source
    BY <1>0, <1>s, <2>1
  <2>2. CASE source' = [source EXCEPT ![m] = progress]
    <3>1. \A n \in Messages : source'[n] = IF n = m THEN progress ELSE source[n]
      BY <1>0, <2>2
    <3>2. \A n \in Messages : n > arrived => n # m
      BY <1>0, <1>s DEF Messages
    <3>3. source' \in [Messages -> Progress]
      BY <1>0, <1>s, <2>2
    <3> QED  BY <1>0, <1>s, <3>1, <3>2, <3>3
  <2> QED  BY <1>s, <2>1, <2>2
<1>t. ASSUME NEW m \in Messages, m <= arrived, arrived' = arrived,
             TakesUp(m) \/ TurnedAway(m) \/ StopsShort(m) \/ Moves(m, "settled") \/ Breaks(m)
      PROVE  SourceOK'
  <2>1. source' = source \/ \E progress \in Progress : source' = [source EXCEPT ![m] = progress]
    BY <1>0, <1>t, IntakeSteps DEF Progress
  <2> QED  BY <1>s, <1>t, <2>1 DEF Progress
<1>a. ASSUME NEW m \in Messages, m \in AtWork
      PROVE  m <= arrived
  <2>1. source[m] # "new"
    BY <1>a DEF IInv, LeaseInv
  <2> QED  BY <1>0, <2>1 DEF Messages
\* A message that has arrived is a message.
<1>m. ASSUME NEW m \in Messages, m <= arrived
      PROVE  m \in 1..arrived /\ m \in 0..NumMessages /\ 0 \in 0..NumMessages
  BY <1>0, <1>m DEF Messages
<1>n. ASSUME NEW r \in Requests, at[r] # 0
      PROVE  at[r] \in Messages /\ at[r] \in AtWork /\ at[r] <= arrived
  <2>1. at[r] \in Messages /\ at[r] \in AtWork
    BY <1>0, <1>n DEF Messages, AtWork
  <2> QED  BY <1>a, <2>1
<1>1. CASE Arrive
  BY <1>0, <1>1 DEF Arrive, Messages
<1>2. CASE Switch
  BY <1>0, <1>2 DEF Switch
<1>3. ASSUME NEW m \in Messages, Poll(m)
      PROVE  TypeOK'
  <2>1. m <= arrived /\ arrived' = arrived
    BY <1>3 DEF Poll
  <2>2. SourceOK'
    BY <1>3, <1>t, <2>1 DEF Poll
  <2>3. polled' \subseteq 1..arrived' /\ failed' \subseteq 1..arrived'
    BY <1>0, <1>3, <1>m, <2>1 DEF Poll, StopsShort
  <2>4. faults' \in Nat
    BY <1>0, <1>3 DEF Poll, StopsShort
  <2> QED  BY <1>0, <1>3, <2>2, <2>3, <2>4 DEF Poll
<1>p. ASSUME NEW m \in Messages, PollEnds(m)
      PROVE  TypeOK'
  <2>1. m \in AtWork /\ m <= arrived /\ arrived' = arrived
    BY <1>p, <1>a DEF PollEnds, AtWork
  <2>2. SourceOK'
    BY <1>p, <1>t, <2>1 DEF PollEnds
  <2>3. polled' \subseteq 1..arrived' /\ failed' \subseteq 1..arrived'
    BY <1>0, <1>p, <1>m, <2>1 DEF PollEnds, Breaks
  <2>4. faults' \in Nat
    BY <1>0, <1>p DEF PollEnds, Breaks
  <2> QED  BY <1>0, <1>p, <2>2, <2>3, <2>4 DEF PollEnds
<1>l. ASSUME NEW m \in Messages, LeaseRunsOut(m)
      PROVE  TypeOK'
  <2>1. m <= arrived /\ arrived' = arrived
    BY <1>0, <1>l DEF LeaseRunsOut, Messages
  <2>2. SourceOK'
    BY <1>l, <1>s, <2>1 DEF LeaseRunsOut, Progress
  <2> QED  BY <1>0, <1>l, <2>2 DEF LeaseRunsOut
<1>4. ASSUME NEW r \in Requests, Discover(r)
      PROVE  TypeOK'
  BY <1>0, <1>4 DEF Discover, Labels, Discovering
<1>5. ASSUME NEW r \in Requests, Peek(r)
      PROVE  TypeOK'
  BY <1>0, <1>5 DEF Peek, Labels, Discovering
<1>6. ASSUME NEW r \in Requests, PutBack(r)
      PROVE  TypeOK'
  BY <1>0, <1>6 DEF PutBack, Kept, Labels, Discovering
<1>7. ASSUME NEW r \in Requests, ReadCursor(r)
      PROVE  TypeOK'
  BY <1>0, <1>7 DEF ReadCursor, Cursor, Labels, Discovering
<1>8. ASSUME NEW r \in Requests, Fetch(r)
      PROVE  TypeOK'
  <2>1. PageAfter(link[r]) \subseteq Messages
    BY <1>0 DEF PageAfter, Messages
  <2>2. page' \in [Requests -> SUBSET Messages]
    BY <1>0, <1>8, <2>1 DEF Fetch
  <2>3. link' \in [Requests -> 0..NumMessages]
    BY <1>0, <1>8 DEF Fetch
  <2>4. last' \in [Requests -> BOOLEAN]
    <3> DEFINE b == link[r] + PageSize >= arrived
    <3>1. last' = [last EXCEPT ![r] = b] \/ last' = last
      BY <1>8, Zenon DEF Fetch
    <3>2. b \in BOOLEAN
      BY <1>0
    <3> HIDE DEF b
    <3> QED  BY <1>0, <3>1, <3>2
  <2>5. pc' \in [Requests -> Labels] /\ faults' \in Nat
    BY <1>0, <1>8 DEF Fetch, Labels, Discovering
  <2> QED  BY <1>0, <1>8, <2>2, <2>3, <2>4, <2>5 DEF Fetch
<1>9. ASSUME NEW r \in Requests, NEW m \in Messages, HandOver(r, m)
      PROVE  TypeOK'
  <2>1. m \in 1..arrived /\ m <= arrived /\ arrived' = arrived
    BY <1>0, <1>9 DEF HandOver, IInv, WalkInv, Walk
  <2>2. page' \in [Requests -> SUBSET Messages]
    BY <1>0, <1>9 DEF HandOver
  <2>3. mark' \in [Requests -> 0..NumMessages]
    BY <1>0, <1>9, <1>m, <2>1 DEF HandOver
  <2>4. at' \in [Requests -> 0..NumMessages]
    BY <1>0, <1>9, <1>m, <2>1 DEF HandOver
  <2>5. left' \subseteq 1..arrived' /\ failed' \subseteq 1..arrived'
    BY <1>0, <1>9, <2>1 DEF HandOver, StopsShort
  <2>6. faults' \in Nat
    BY <1>0, <1>9 DEF HandOver, StopsShort
  <2>7. SourceOK'
    BY <1>9, <1>t, <2>1 DEF HandOver
  <2> QED  BY <1>0, <1>9, <2>2, <2>3, <2>4, <2>5, <2>6, <2>7 DEF HandOver
<1>10. ASSUME NEW r \in Requests, EndPage(r)
       PROVE  TypeOK'
  BY <1>0, <1>10 DEF EndPage, MorePages, IInv, WalkInv, Walk, Reading, Labels, Discovering
<1>11. ASSUME NEW r \in Requests, Save(r)
       PROVE  TypeOK'
  BY <1>0, <1>11 DEF Save, Cursor, Labels
<1>12. ASSUME NEW r \in Requests, Park(r)
       PROVE  TypeOK'
  BY <1>0, <1>12 DEF Park, Kept, Cursor, Labels
<1>13. ASSUME NEW r \in Requests, Throws(r)
       PROVE  TypeOK'
  <2>1. {at[r]} \ {0} \subseteq 1..arrived
    BY <1>m, <1>n
  <2>2. failed' \subseteq 1..arrived'
    BY <1>0, <1>13, <2>1 DEF Throws
  <2>3. at' \in [Requests -> 0..NumMessages]
    BY <1>0, <1>13 DEF Throws
  <2> QED  BY <1>0, <1>13, <2>2, <2>3 DEF Throws, Labels, Discovering
<1>14. ASSUME NEW r \in Requests, StartPilot(r)
       PROVE  TypeOK'
  BY <1>0, <1>14 DEF StartPilot, Labels, Piloting
<1>15. ASSUME NEW r \in Requests, CheckPair(r)
       PROVE  TypeOK'
  BY <1>0, <1>15 DEF CheckPair, Labels, Piloting
<1>16. ASSUME NEW r \in Requests, ClaimPilot(r)
       PROVE  TypeOK'
  <2>1. imports' \in Nat
    <3>1. imports' = imports + 1 \/ imports' = imports
      BY <1>16, Zenon DEF ClaimPilot
    <3> QED  BY <1>0, <3>1
  <2>3. armed' \in BOOLEAN
    BY <1>16, Zenon DEF ClaimPilot
  <2>2. pc' \in [Requests -> Labels]
    <3>1. PICK label \in {"initial", "one", "idle"} : Goto(r, label)
      BY <1>16 DEF ClaimPilot
    <3> QED  BY <1>0, <3>1 DEF Labels, Piloting
  <2> QED  BY <1>0, <1>16, <2>1, <2>2, <2>3 DEF ClaimPilot
<1>17. ASSUME NEW r \in Requests, NEW m \in Messages, Import(r, m)
       PROVE  TypeOK'
  <2>1. m <= arrived /\ arrived' = arrived
    BY <1>17 DEF Import
  <2>2. SourceOK'
    BY <1>17, <1>t, <2>1 DEF Import
  <2>7. failed' = failed \/ failed' = failed \cup {m}
    BY <1>17 DEF Import, StopsShort
  <2>3. failed' \subseteq 1..arrived'
    BY <1>0, <1>m, <2>1, <2>7
  <2>6. at' \in [Requests -> 0..NumMessages]
    BY <1>0, <1>17, <1>m, <2>1 DEF Import
  <2>4. faults' \in Nat
    BY <1>0, <1>17 DEF Import, StopsShort
  <2>5. pc' \in [Requests -> Labels]
    BY <1>0, <1>17 DEF Import, Labels
  <2> QED  BY <1>0, <1>17, <2>2, <2>3, <2>4, <2>5, <2>6 DEF Import
<1>18. ASSUME NEW r \in Requests, IntakeEnds(r)
       PROVE  TypeOK'
  <2>1. at[r] \in Messages /\ at[r] <= arrived /\ arrived' = arrived
    BY <1>18, <1>n DEF IntakeEnds
  <2>2. SourceOK'
    BY <1>18, <1>t, <2>1 DEF IntakeEnds
  <2>3. left' \subseteq 1..arrived'
    BY <1>0, <1>18, <1>m, <2>1 DEF IntakeEnds
  <2>4. at' \in [Requests -> 0..NumMessages]
    BY <1>0, <1>18 DEF IntakeEnds
  <2>5. pc' \in [Requests -> Labels]
    BY <1>0, <1>18 DEF IntakeEnds
  <2> QED  BY <1>0, <1>18, <2>2, <2>3, <2>4, <2>5 DEF IntakeEnds
<1>19. ASSUME NEW r \in Requests, IntakeBreaks(r)
       PROVE  TypeOK'
  <2>1. at[r] \in Messages /\ at[r] <= arrived /\ arrived' = arrived
    BY <1>19, <1>n DEF IntakeBreaks
  <2>2. SourceOK'
    BY <1>19, <1>t, <2>1 DEF IntakeBreaks
  <2>3. left' \subseteq 1..arrived' /\ failed' \subseteq 1..arrived'
    BY <1>0, <1>19, <1>m, <2>1 DEF IntakeBreaks, Breaks
  <2>4. at' \in [Requests -> 0..NumMessages]
    BY <1>0, <1>19 DEF IntakeBreaks
  <2>5. pc' \in [Requests -> Labels]
    BY <1>0, <1>19 DEF IntakeBreaks, Labels, Discovering
  <2>6. faults' \in Nat
    BY <1>0, <1>19 DEF IntakeBreaks, Breaks
  <2> QED  BY <1>0, <1>19, <2>2, <2>3, <2>4, <2>5, <2>6 DEF IntakeBreaks
<1> QED
  BY <1>1, <1>2, <1>3, <1>p, <1>l, <1>4, <1>5, <1>6, <1>7, <1>8, <1>9, <1>10, <1>11, <1>12, <1>13,
     <1>14, <1>15, <1>16, <1>17, <1>18, <1>19
  DEF Next, Run, Pilot

-----------------------------------------------------------------------------
\* What is at work when a request takes something up, or lets go of it.
LEMMA WorkOfRequest ==
  ASSUME TypeOK, NEW r \in Requests, NEW x, at' = [at EXCEPT ![r] = x], polled' = polled
  PROVE  /\ AtWork \subseteq AtWork' \cup {at[r]}
         /\ AtWork' \subseteq AtWork \cup {x}
         /\ x \in AtWork' /\ at[r] \in AtWork
<1>1. \A s \in Requests : at'[s] = IF s = r THEN x ELSE at[s]
  BY DEF TypeOK
<1> QED  BY <1>1 DEF AtWork

\* A step of the intake of m leaves what was seen to seen to, and leases with
\* somebody at work, or failed, if it does so for m.
LEMMA IntakeKeeps ==
  ASSUME TypeOK, LeaseInv, NEW m \in Messages, NEW p \in Progress,
         source' = source \/ source' = [source EXCEPT ![m] = p],
         left \subseteq left', failed \subseteq failed',
         AtWork \subseteq AtWork' \cup {0, m}, AtWork' \subseteq AtWork \cup {0, m},
         source[m] = "settled" => source'[m] = "settled",
         m \in AtWork => m \in AtWork' \cup failed' \/ source'[m] = "settled",
         m \in AtWork' => source'[m] # "new",
         source'[m] \in Processing => m \in failed' \cup AtWork',
         source'[m] = "waiting" => m \in failed'
  PROVE  LeaseInv' /\ Seen \subseteq Seen'
<1>1. \A n \in Messages \ {m} : source'[n] = source[n]
  BY DEF TypeOK
<1>2. \A n \in Messages \ {m} : n \in AtWork <=> n \in AtWork'
  BY MailSupplyAssumption DEF Messages
<1>3. LeaseInv'
  BY <1>1, <1>2 DEF LeaseInv, Processing
<1>4. \A n \in Settled : n \in Settled'
  BY <1>1 DEF Settled
<1>5. ASSUME NEW n \in left \cap (failed \cup AtWork)
      PROVE  n \in Seen'
  <2>1. n \in Messages
    BY MailSupplyAssumption DEF TypeOK, Messages
  <2>2. CASE n \in failed
    BY <1>5, <2>2 DEF Seen
  <2>3. CASE n \in AtWork /\ n # m
    BY <1>2, <1>5, <2>1, <2>3 DEF Seen
  <2>4. CASE n \in AtWork /\ n = m
    BY <1>5, <2>1, <2>4 DEF Seen, Settled
  <2> QED  BY <1>5, <2>2, <2>3, <2>4
<1> QED  BY <1>3, <1>4, <1>5 DEF Seen

\* A step that has no part in an intake.
LEMMA OtherKeeps ==
  ASSUME LeaseInv, UNCHANGED <<source, failed, left, polled, at>>
  PROVE  LeaseInv' /\ Seen \subseteq Seen'
BY DEF LeaseInv, Seen, Settled, AtWork

\* Every step keeps the leases in order, and what was seen to.
LEMMA LeasePreserved ==
  ASSUME IInv, Next
  PROVE  LeaseInv' /\ Seen \subseteq Seen'
<1> USE DEF tables, locals, history, bounds
<1>1. TypeOK /\ LeaseInv /\ WalkInv /\ source \in [Messages -> Progress]
  BY DEF IInv, TypeOK
<1>2. \A n \in Messages : n # 0
  BY MailSupplyAssumption DEF Messages
<1>a. ASSUME NEW r \in Requests, at[r] # 0
      PROVE  at[r] \in Messages /\ at[r] \in AtWork
  BY <1>1, <1>a, MailSupplyAssumption DEF TypeOK, Messages, AtWork
\* m is taken up: its row is leased, and it is at work.
<1>3. ASSUME NEW m \in Messages, TakesUp(m), UNCHANGED <<failed, left>>,
             m \in AtWork', AtWork \subseteq AtWork' \cup {0}, AtWork' \subseteq AtWork \cup {0, m}
      PROVE  LeaseInv' /\ Seen \subseteq Seen'
  <2>1. source' = [source EXCEPT ![m] = "leased"] /\ source[m] # "settled"
    BY <1>1, <1>3, IntakeSteps
  <2>2. source'[m] = "leased" /\ "leased" \in Progress
    BY <1>1, <2>1 DEF Progress
  <2> QED  BY <1>1, <1>2, <1>3, <2>1, <2>2, IntakeKeeps
\* m is turned away.
<1>4. ASSUME NEW m \in Messages, TurnedAway(m), failed' = failed, left \subseteq left',
             UNCHANGED <<polled, at>>
      PROVE  LeaseInv' /\ Seen \subseteq Seen'
  <2>1. source' = source /\ AtWork' = AtWork
    BY <1>1, <1>4, IntakeSteps DEF AtWork
  <2> QED  BY <1>1, <1>4, <2>1, IntakeKeeps DEF LeaseInv, Progress
\* m fails before it is at work.
<1>5. ASSUME NEW m \in Messages, StopsShort(m), left \subseteq left', UNCHANGED <<polled, at>>
      PROVE  LeaseInv' /\ Seen \subseteq Seen'
  <2>1. AtWork' = AtWork /\ failed' = failed \cup {m}
    BY <1>1, <1>5, IntakeSteps DEF AtWork
  <2>2. CASE source' = source
    BY <1>1, <1>5, <2>1, <2>2, IntakeKeeps DEF LeaseInv, Progress
  <2>3. CASE source[m] = "new" /\ source' = [source EXCEPT ![m] = "waiting"]
    <3>1. source'[m] = "waiting" /\ "waiting" \in Progress
      BY <1>1, <2>3 DEF Progress
    <3> QED  BY <1>1, <1>5, <2>1, <2>3, <3>1, IntakeKeeps DEF LeaseInv
  <2> QED  BY <1>1, <1>5, <2>2, <2>3, IntakeSteps
\* m is at work, and then is not: it has been taken in, or has failed.
<1>6. ASSUME NEW m \in Messages, m \in AtWork, left \subseteq left',
             \/ Moves(m, "settled") /\ failed' = failed
             \/ Breaks(m)
             \/ source' = source /\ failed' = failed \cup {m},
             AtWork \subseteq AtWork' \cup {0, m}, AtWork' \subseteq AtWork \cup {0}
      PROVE  LeaseInv' /\ Seen \subseteq Seen'
  <2>1. source[m] # "new"
    BY <1>1, <1>6 DEF LeaseInv
  <2>2. CASE source' = source /\ failed' = failed \cup {m}
    BY <1>1, <1>6, <2>1, <2>2, IntakeKeeps DEF Progress
  <2>3. CASE source' = source /\ failed' = failed /\ source[m] \notin Processing
    <3>1. source[m] \in {"waiting", "settled"}
      BY <1>1, <2>1, <2>3 DEF Processing, Progress
    <3>2. m \in failed \/ source'[m] = "settled"
      BY <1>1, <2>3, <3>1 DEF LeaseInv
    <3> QED  BY <1>1, <1>6, <2>1, <2>3, <3>1, <3>2, IntakeKeeps DEF Progress
  <2>4. ASSUME NEW progress \in {"waiting", "settled"}, source' = [source EXCEPT ![m] = progress],
               failed \subseteq failed', progress = "waiting" => m \in failed',
               source[m] \in Processing
        PROVE  LeaseInv' /\ Seen \subseteq Seen'
    <3>1. source'[m] = progress /\ progress \in Progress
      BY <1>1, <2>4 DEF Progress
    <3>2. progress # "new" /\ progress \notin Processing /\ source[m] # "settled"
      BY <2>4 DEF Processing
    <3>3. m \in failed' \/ progress = "settled"
      BY <2>4
    <3> QED  BY <1>1, <1>6, <2>4, <3>1, <3>2, <3>3, IntakeKeeps
  <2>5. CASE Moves(m, "settled") /\ failed' = failed
    BY <1>1, <2>3, <2>4, <2>5, IntakeSteps
  <2>6. CASE Breaks(m)
    BY <1>1, <2>2, <2>4, <2>6, IntakeSteps
  <2> QED  BY <1>6, <2>2, <2>5, <2>6
<1>7. CASE Arrive \/ Switch
  BY <1>1, <1>7, OtherKeeps DEF Arrive, Switch
<1>8. ASSUME NEW m \in Messages, Poll(m)
      PROVE  LeaseInv' /\ Seen \subseteq Seen'
  <2>1. CASE TakesUp(m) /\ polled' = polled \cup {m} /\ failed' = failed
    <3>1. AtWork' = AtWork \cup {m} /\ left' = left
      BY <1>8, <2>1 DEF Poll, AtWork
    <3> QED  BY <1>3, <2>1, <3>1
  <2>2. CASE StopsShort(m) /\ polled' = polled
    BY <1>5, <1>8, <2>2 DEF Poll
  <2> QED  BY <1>8, <2>1, <2>2 DEF Poll
<1>9. ASSUME NEW m \in Messages, PollEnds(m)
      PROVE  LeaseInv' /\ Seen \subseteq Seen'
  <2>1. /\ m \in AtWork /\ left' = left
        /\ AtWork \subseteq AtWork' \cup {0, m} /\ AtWork' \subseteq AtWork \cup {0}
    BY <1>9 DEF PollEnds, AtWork
  <2> QED  BY <1>6, <1>9, <2>1 DEF PollEnds
<1>10. ASSUME NEW m \in Messages, LeaseRunsOut(m)
       PROVE  LeaseInv' /\ Seen \subseteq Seen'
  <2>1. /\ AtWork' = AtWork /\ UNCHANGED <<failed, left>> /\ source[m] = "leased"
        /\ source' = [source EXCEPT ![m] = "lapsed"]
    BY <1>10 DEF LeaseRunsOut, AtWork
  <2>2. source'[m] = "lapsed" /\ "lapsed" \in Progress
    BY <1>1, <2>1 DEF Progress
  <2>3. m \in failed \cup AtWork
    BY <1>1, <2>1 DEF LeaseInv, Processing
  <2> QED  BY <1>1, <2>1, <2>2, <2>3, IntakeKeeps
<1>11. ASSUME NEW r \in Requests,
              \/ Discover(r) \/ Peek(r) \/ PutBack(r) \/ ReadCursor(r) \/ Fetch(r) \/ EndPage(r)
              \/ Save(r) \/ Park(r) \/ StartPilot(r) \/ CheckPair(r) \/ ClaimPilot(r)
       PROVE  LeaseInv' /\ Seen \subseteq Seen'
  <2>1. UNCHANGED <<source, failed, left, polled, at>>
    BY <1>11, Zenon DEF Discover, Peek, PutBack, ReadCursor, Fetch, EndPage, Save, Park, StartPilot,
                        CheckPair, ClaimPilot
  <2> QED  BY <1>1, <2>1, OtherKeeps
<1>12. ASSUME NEW r \in Requests, NEW m \in Messages, HandOver(r, m) \/ Import(r, m)
       PROVE  LeaseInv' /\ Seen \subseteq Seen'
  <2>1. polled' = polled /\ at[r] = 0 /\ left \subseteq left'
    BY <1>12 DEF HandOver, Import
  <2>2. CASE TakesUp(m) /\ at' = [at EXCEPT ![r] = m] /\ UNCHANGED <<failed, left>>
    <3>1. AtWork \subseteq AtWork' \cup {0} /\ AtWork' \subseteq AtWork \cup {0, m} /\ m \in AtWork'
      BY <1>1, <2>1, <2>2, WorkOfRequest
    <3> QED  BY <1>3, <2>2, <3>1
  <2>3. CASE TurnedAway(m) /\ UNCHANGED <<at, failed>>
    BY <1>4, <2>1, <2>3
  <2>4. CASE StopsShort(m) /\ at' = at
    BY <1>5, <2>1, <2>4
  <2> QED  BY <1>12, <2>2, <2>3, <2>4 DEF HandOver, Import
<1>13. ASSUME NEW r \in Requests, Throws(r)
       PROVE  LeaseInv' /\ Seen \subseteq Seen'
  <2>1. /\ at' = [at EXCEPT ![r] = 0] /\ UNCHANGED <<source, polled, left>>
        /\ failed' = failed \cup ({at[r]} \ {0})
    BY <1>13 DEF Throws
  <2>2. /\ AtWork \subseteq AtWork' \cup {0, at[r]} /\ AtWork' \subseteq AtWork \cup {0}
    BY <1>1, <2>1, WorkOfRequest
  <2>3. CASE at[r] # 0
    BY <1>6, <1>a, <2>1, <2>2, <2>3
  <2>4. CASE at[r] = 0
    <3>1. at' = at
      BY <1>1, <2>1, <2>4 DEF TypeOK
    <3>2. failed' = failed
      BY <2>1, <2>4
    <3> QED  BY <1>1, <2>1, <3>1, <3>2, OtherKeeps
  <2> QED  BY <2>3, <2>4
<1>14. ASSUME NEW r \in Requests, IntakeEnds(r) \/ IntakeBreaks(r)
       PROVE  LeaseInv' /\ Seen \subseteq Seen'
  <2>1. /\ at[r] # 0 /\ at' = [at EXCEPT ![r] = 0] /\ polled' = polled /\ left \subseteq left'
        /\ \/ Moves(at[r], "settled") /\ failed' = failed
           \/ Breaks(at[r])
    BY <1>14 DEF IntakeEnds, IntakeBreaks
  <2>2. /\ AtWork \subseteq AtWork' \cup {0, at[r]} /\ AtWork' \subseteq AtWork \cup {0}
    BY <1>1, <2>1, WorkOfRequest
  <2> QED  BY <1>6, <1>a, <2>1, <2>2
<1> QED
  BY <1>7, <1>8, <1>9, <1>10, <1>11, <1>12, <1>13, <1>14 DEF Next, Run, Pilot

\* The log only grows.
LEMMA LogGrows ==
  ASSUME TypeOK, Next
  PROVE  arrived' \in Nat /\ arrived \in Nat /\ arrived' >= arrived
<1>1. arrived \in Nat
  BY MailSupplyAssumption DEF TypeOK
<1>2. arrived' = arrived + 1 \/ arrived' = arrived
  BY Zenon DEF Next, Arrive, Switch, Poll, PollEnds, LeaseRunsOut, Discover, Run, Peek, PutBack,
               ReadCursor, Fetch, HandOver, EndPage, Save, Park, Throws, StartPilot, Pilot, CheckPair,
               ClaimPilot, Import, IntakeEnds, IntakeBreaks
<1> QED  BY <1>1, <1>2

\* The cursor, and what is put back into it, stay covered.
LEMMA CoverPreserved ==
  ASSUME IInv, Next
  PROVE  CoverInv'
<1> USE DEF tables, locals, history, bounds, Goto
<1>1. TypeOK /\ CoverInv /\ WalkInv /\ Seen \subseteq Seen'
  BY LeasePreserved DEF IInv
<1>2. ASSUME NEW n, Covered(n)
      PROVE  1..n \subseteq Seen'
  BY <1>1, <1>2 DEF Covered
<1>3. ASSUME NEW r \in Requests, pc[r] \in {"save", "parking"}
      PROVE  Covered(link[r])
  <2>1. page[r] = {} /\ at[r] = 0 /\ 1..link[r] \subseteq Seen \cup page[r] \cup {at[r]}
    BY <1>1, <1>3 DEF WalkInv, Walk, Walking, Importing
  <2>2. 0 \notin 1..link[r]
    BY <1>1 DEF TypeOK
  <2> QED  BY <2>1, <2>2 DEF Covered
<1>4. cursor' = cursor \/ \E n : cursor'.value = n /\ Covered(n)
  <2>1. ASSUME NEW r \in Requests, PutBack(r)
        PROVE  cursor'.value = peeked[r].value /\ Covered(peeked[r].value)
    BY <1>1, <2>1 DEF PutBack, Kept, CoverInv
  <2>2. ASSUME NEW r \in Requests, Save(r) \/ Park(r)
        PROVE  cursor'.value = link[r] /\ Covered(link[r])
    BY <1>3, <2>2 DEF Save, Park
  <2>3. ASSUME NEW r \in Requests,
               \/ Discover(r) \/ Peek(r) \/ ReadCursor(r) \/ Fetch(r) \/ EndPage(r) \/ Throws(r)
               \/ StartPilot(r) \/ Pilot(r) \/ IntakeEnds(r) \/ IntakeBreaks(r)
               \/ \E m \in Messages : HandOver(r, m)
        PROVE  cursor' = cursor
    BY <2>3, Zenon DEF Discover, Peek, ReadCursor, Fetch, EndPage, Throws, StartPilot, Pilot, CheckPair,
                 ClaimPilot, Import, HandOver, IntakeEnds, IntakeBreaks
  <2>4. CASE Arrive \/ Switch \/ \E m \in Messages : Poll(m) \/ PollEnds(m) \/ LeaseRunsOut(m)
    BY <2>4, Zenon DEF Arrive, Switch, Poll, PollEnds, LeaseRunsOut
  <2> QED  BY <2>1, <2>2, <2>3, <2>4, Zenon DEF Next, Run
<1>5. ASSUME NEW r \in Requests
      PROVE  peeked'[r] = peeked[r] \/ peeked'[r] = cursor
  <2>1. peeked' = peeked \/ \E s \in Requests : peeked' = [peeked EXCEPT ![s] = cursor]
    <3>1. ASSUME NEW s \in Requests, Peek(s)
          PROVE  peeked' = [peeked EXCEPT ![s] = cursor]
      BY <3>1 DEF Peek
    <3>2. ASSUME NEW s \in Requests,
                 \/ Discover(s) \/ PutBack(s) \/ ReadCursor(s) \/ Fetch(s) \/ EndPage(s)
                 \/ Save(s) \/ Park(s) \/ Throws(s) \/ StartPilot(s) \/ Pilot(s)
                 \/ IntakeEnds(s) \/ IntakeBreaks(s) \/ \E m \in Messages : HandOver(s, m)
          PROVE  peeked' = peeked
      BY <3>2, Zenon DEF Discover, PutBack, ReadCursor, Fetch, EndPage, Save, Park, Throws, StartPilot,
                   Pilot, CheckPair, ClaimPilot, Import, HandOver, IntakeEnds, IntakeBreaks
    <3>3. CASE Arrive \/ Switch \/ \E m \in Messages : Poll(m) \/ PollEnds(m) \/ LeaseRunsOut(m)
      BY <3>3, Zenon DEF Arrive, Switch, Poll, PollEnds, LeaseRunsOut
    <3> QED  BY <3>1, <3>2, <3>3, Zenon DEF Next, Run
  <2>2. peeked \in [Requests -> Cursor]
    BY <1>1 DEF TypeOK
  <2> QED  BY <2>1, <2>2
<1>6. Covered(cursor.value)'
  BY <1>1, <1>2, <1>4 DEF CoverInv, Covered
<1>7. ASSUME NEW r \in Requests
      PROVE  Covered(peeked[r].value)'
  <2>1. Covered(peeked'[r].value)
    BY <1>1, <1>5 DEF CoverInv
  <2> QED  BY <1>2, <2>1 DEF Covered
<1> QED  BY <1>6, <1>7 DEF CoverInv

\* A step that leaves a request where it is keeps what is known of it.
LEMMA WalkFrame ==
  ASSUME IInv, Next, NEW s \in Requests,
         pc'[s] = pc[s], link'[s] = link[s], page'[s] = page[s], pages'[s] = pages[s],
         at'[s] = at[s]
  PROVE  Walk(s)'
<1>1. Walk(s) /\ TypeOK
  BY DEF IInv, WalkInv
<1>2. Seen \subseteq Seen' /\ arrived' \in Nat /\ arrived \in Nat /\ arrived' >= arrived
  BY <1>1, LeasePreserved, LogGrows
<1>3. page'[s] \subseteq 1..arrived'
  BY <1>1, <1>2 DEF Walk
<1> QED  BY <1>1, <1>2, <1>3 DEF Walk

\* A run stays past what it is past.
LEMMA WalkPreserved ==
  ASSUME IInv, Next
  PROVE  WalkInv'
<1> USE DEF tables, locals, history, bounds, Goto
<1>1. TypeOK /\ WalkInv /\ CoverInv /\ LeaseInv
  BY DEF IInv
<1>2. /\ pc \in [Requests -> Labels] /\ link \in [Requests -> 0..NumMessages]
      /\ page \in [Requests -> SUBSET Messages] /\ pages \in [Requests -> 0..MaxPages]
      /\ at \in [Requests -> 0..NumMessages] /\ source \in [Messages -> Progress]
  BY <1>1 DEF TypeOK
<1>3. Seen \subseteq Seen' /\ arrived' \in Nat /\ arrived \in Nat /\ arrived' >= arrived
  BY <1>1, LeasePreserved, LogGrows
<1>4. CASE Arrive \/ Switch \/ \E m \in Messages : Poll(m) \/ PollEnds(m) \/ LeaseRunsOut(m)
  <2>1. UNCHANGED <<pc, link, page, pages, at>>
    BY <1>4, Zenon DEF Arrive, Switch, Poll, PollEnds, LeaseRunsOut
  <2> QED  BY <2>1, WalkFrame DEF WalkInv
\* A request that goes to a place where it has no page, and is in no intake.
<1>5. ASSUME NEW r \in Requests, NEW label \in Labels, pc' = [pc EXCEPT ![r] = label],
             label # "page", page'[r] = {}, at'[r] = 0, UNCHANGED link,
             label \in Walking => pc[r] \in Walking /\ page[r] = {} /\ at[r] = 0,
             label \in Reading => pages'[r] < MaxPages,
             \A s \in Requests \ {r} : page'[s] = page[s] /\ pages'[s] = pages[s] /\ at'[s] = at[s]
      PROVE  WalkInv'
  <2>1. ASSUME NEW s \in Requests, s # r
        PROVE  Walk(s)'
    BY <1>2, <1>5, <2>1, WalkFrame
  <2>2. pc'[r] = label
    BY <1>2, <1>5
  <2>3. Walk(r)
    BY <1>1 DEF WalkInv
  <2>4. Walk(r)'
    BY <1>3, <1>5, <2>2, <2>3 DEF Walk
  <2> QED  BY <2>1, <2>4 DEF WalkInv
\* Outside its page and the imports a request is in no intake.
<1>e. ASSUME NEW r \in Requests, pc[r] \notin {"page"} \cup Importing
      PROVE  page[r] = {} /\ at[r] = 0
  BY <1>1, <1>e DEF WalkInv, Walk
<1>6. ASSUME NEW r \in Requests, Discover(r)
      PROVE  WalkInv'
  <2>1. pages'[r] = 0 /\ 0 < MaxPages /\ "start" \in Labels /\ pc[r] = "idle"
    BY <1>2, <1>6, MailSupplyAssumption DEF Discover, Labels, Discovering
  <2>2. page[r] = {} /\ at[r] = 0
    BY <1>e, <2>1 DEF Importing
  <2> QED  BY <1>2, <1>5, <1>6, <2>1, <2>2 DEF Discover, Walking
<1>7. ASSUME NEW r \in Requests, Peek(r)
      PROVE  WalkInv'
  <2>1. PICK label \in {"started", "parking", "failing"} :
          /\ pc' = [pc EXCEPT ![r] = label]
          /\ label = "started" => pc[r] = "start"
          /\ label = "parking" => pc[r] = "park"
          /\ pc[r] \notin {"page"} \cup Importing
    BY <1>7 DEF Peek, Importing
  <2>2. UNCHANGED <<link, page, pages, at>> /\ page[r] = {} /\ at[r] = 0
    BY <1>7, <1>e, <2>1 DEF Peek
  <2>3. label = "started" => pages[r] < MaxPages
    BY <1>1, <2>1 DEF WalkInv, Walk, Reading
  <2> QED  BY <1>5, <2>1, <2>2, <2>3 DEF Labels, Discovering, Walking, Reading
<1>8. ASSUME NEW r \in Requests, PutBack(r)
      PROVE  WalkInv'
  <2>1. PICK label \in {"read", "idle"} :
          /\ pc' = [pc EXCEPT ![r] = label]
          /\ label = "read" => pc[r] = "started"
          /\ pc[r] \notin {"page"} \cup Importing
    BY <1>8 DEF PutBack, Importing
  <2>2. UNCHANGED <<link, page, pages, at>> /\ page[r] = {} /\ at[r] = 0
    BY <1>8, <1>e, <2>1 DEF PutBack
  <2>3. label = "read" => pages[r] < MaxPages
    BY <1>1, <2>1 DEF WalkInv, Walk, Reading
  <2> QED  BY <1>5, <2>1, <2>2, <2>3 DEF Labels, Discovering, Walking, Reading
<1>9. ASSUME NEW r \in Requests, ReadCursor(r)
      PROVE  WalkInv'
  <2>1. ASSUME NEW s \in Requests, s # r
        PROVE  Walk(s)'
    BY <1>2, <1>9, <2>1, WalkFrame DEF ReadCursor
  <2>2. /\ pc[r] = "read" /\ pc'[r] = "fetch" /\ link'[r] = cursor.value
        /\ UNCHANGED <<page, pages, at>>
    BY <1>2, <1>9 DEF ReadCursor
  <2>3. page[r] = {} /\ at[r] = 0 /\ pages[r] < MaxPages
    BY <1>1, <2>2 DEF WalkInv, Walk, Reading, Importing
  <2>4. Walk(r)'
    BY <1>1, <1>3, <2>2, <2>3 DEF Walk, CoverInv, Covered
  <2> QED  BY <2>1, <2>4 DEF WalkInv
<1>10. ASSUME NEW r \in Requests, Fetch(r)
       PROVE  WalkInv'
  <2>1. pc[r] = "fetch" /\ UNCHANGED <<arrived, pages, at>>
    BY <1>10 DEF Fetch
  <2>2. /\ page[r] = {} /\ at[r] = 0 /\ pages[r] < MaxPages
        /\ 1..link[r] \subseteq Seen \cup {0}
    BY <1>1, <2>1 DEF WalkInv, Walk, Walking, Reading, Importing
  <2>3. CASE pc' = [pc EXCEPT ![r] = "fail"] /\ UNCHANGED <<page, link>>
    BY <1>5, <2>1, <2>2, <2>3 DEF Labels, Discovering, Walking, Reading
  <2>4. CASE /\ pc' = [pc EXCEPT ![r] = "page"]
             /\ page' = [page EXCEPT ![r] = PageAfter(link[r])]
             /\ link' = [link EXCEPT ![r] = IF @ + PageSize < arrived THEN @ + PageSize ELSE arrived]
    <3>1. ASSUME NEW s \in Requests, s # r
          PROVE  Walk(s)'
      BY <1>2, <2>1, <2>4, <3>1, WalkFrame
    <3>2. /\ pc'[r] = "page" /\ page'[r] = PageAfter(link[r]) /\ at'[r] = 0
          /\ link'[r] = IF link[r] + PageSize < arrived THEN link[r] + PageSize ELSE arrived
      BY <1>2, <2>1, <2>2, <2>4
    <3>3. link[r] \in Nat /\ PageSize \in Nat
      BY <1>2, MailSupplyAssumption
    <3>4. PageAfter(link[r]) \subseteq 1..arrived
      BY <1>3, <3>3 DEF PageAfter
    <3>5. 1..link'[r] \subseteq 1..link[r] \cup PageAfter(link[r])
      BY <1>3, <3>2, <3>3 DEF PageAfter
    <3>6. Walk(r)'
      BY <1>3, <2>1, <2>2, <3>2, <3>4, <3>5 DEF Walk
    <3> QED  BY <3>1, <3>6 DEF WalkInv
  <2> QED  BY <1>10, <2>3, <2>4 DEF Fetch
\* What is handed over is taken up, or has been seen to.
<1>11. ASSUME NEW r \in Requests, NEW m \in Messages, HandOver(r, m)
       PROVE  WalkInv'
  <2>1. /\ pc[r] = "page" /\ at[r] = 0 /\ UNCHANGED <<arrived, pc, link, pages, polled>>
        /\ page' = [page EXCEPT ![r] = page[r] \ {m}]
    BY <1>11 DEF HandOver
  <2>2. at' = at \/ at' = [at EXCEPT ![r] = m]
    BY <1>11 DEF HandOver
  <2>3. ASSUME NEW s \in Requests, s # r
        PROVE  Walk(s)'
    BY <1>2, <2>1, <2>2, <2>3, WalkFrame
  <2>4. m \in Seen' \/ at'[r] = m
    <3>1. CASE TakesUp(m) /\ at' = [at EXCEPT ![r] = m]
      BY <1>2, <3>1
    <3>2. CASE TurnedAway(m) /\ left' = left \cup ({m} \ Settled) /\ UNCHANGED <<at, failed>>
      <4>1. source' = source /\ source[m] \in {"leased", "settled"} /\ AtWork' = AtWork
        BY <1>1, <2>1, <3>2, IntakeSteps DEF AtWork
      <4>2. Settled' = Settled /\ (m \in Settled \/ m \in failed \cup AtWork)
        BY <1>1, <4>1 DEF Settled, LeaseInv, Processing
      <4> QED  BY <3>2, <4>1, <4>2 DEF Seen
    <3>3. CASE StopsShort(m) /\ left' = left \cup {m}
      BY <1>1, <3>3, IntakeSteps DEF Seen
    <3> QED  BY <1>11, <3>1, <3>2, <3>3 DEF HandOver
  <2>5. Walk(r) /\ page'[r] = page[r] \ {m} /\ (at'[r] = 0 \/ at'[r] = m)
    BY <1>1, <1>2, <2>1, <2>2 DEF WalkInv
  <2>6. 0 \notin 1..link[r]
    BY <1>2
  <2>7. 1..link'[r] \subseteq Seen' \cup page'[r] \cup {at'[r]}
    BY <1>3, <2>1, <2>4, <2>5, <2>6 DEF Walk, Walking
  <2>8. Walk(r)'
    BY <1>3, <2>1, <2>5, <2>7 DEF Walk
  <2> QED  BY <2>3, <2>8 DEF WalkInv
<1>12. ASSUME NEW r \in Requests, EndPage(r)
       PROVE  WalkInv'
  <2>1. /\ pc[r] = "page" /\ page[r] = {} /\ at[r] = 0 /\ UNCHANGED <<link, page, at>>
        /\ pages' = [pages EXCEPT ![r] = pages[r] + 1]
    BY <1>12 DEF EndPage
  <2>2. PICK label \in {"save", "fetch", "park"} :
          pc' = [pc EXCEPT ![r] = label] /\ (label = "fetch" => pages[r] + 1 < MaxPages)
    BY <1>12 DEF EndPage, MorePages
  <2>3. pages'[r] = pages[r] + 1 /\ \A s \in Requests \ {r} : pages'[s] = pages[s]
    BY <1>2, <2>1
  <2> QED  BY <1>5, <2>1, <2>2, <2>3 DEF Labels, Discovering, Walking, Reading
<1>13. ASSUME NEW r \in Requests, Save(r) \/ Park(r)
       PROVE  WalkInv'
  <2>1. /\ pc[r] \notin {"page"} \cup Importing /\ pc' = [pc EXCEPT ![r] = "idle"]
        /\ UNCHANGED <<link, page, pages, at>>
    BY <1>13 DEF Save, Park, Importing
  <2>2. page[r] = {} /\ at[r] = 0
    BY <1>e, <2>1
  <2> QED  BY <1>5, <2>1, <2>2 DEF Labels, Discovering, Walking, Reading
<1>14. ASSUME NEW r \in Requests, Throws(r)
       PROVE  WalkInv'
  <2>1. PICK label \in {"fail", "idle"} : pc' = [pc EXCEPT ![r] = label]
    BY <1>14 DEF Throws
  <2>2. /\ page' = [page EXCEPT ![r] = {}] /\ at' = [at EXCEPT ![r] = 0]
        /\ UNCHANGED <<link, pages>>
    BY <1>14 DEF Throws
  <2>3. /\ page'[r] = {} /\ at'[r] = 0
        /\ \A s \in Requests \ {r} : page'[s] = page[s] /\ at'[s] = at[s]
    BY <1>2, <2>2
  <2> QED  BY <1>5, <2>1, <2>2, <2>3 DEF Labels, Discovering, Walking, Reading
<1>15. ASSUME NEW r \in Requests, StartPilot(r) \/ CheckPair(r) \/ ClaimPilot(r)
       PROVE  WalkInv'
  <2>1. /\ pc[r] \notin {"page"} \cup Importing /\ UNCHANGED <<link, page, pages, at>>
        /\ \E label \in {"idle"} \cup Piloting : pc' = [pc EXCEPT ![r] = label]
    BY <1>15 DEF StartPilot, CheckPair, ClaimPilot, Piloting, Importing
  <2>2. PICK label \in {"idle"} \cup Piloting : pc' = [pc EXCEPT ![r] = label]
    BY <2>1
  <2>3. page[r] = {} /\ at[r] = 0
    BY <1>e, <2>1
  <2> QED  BY <1>5, <2>1, <2>2, <2>3 DEF Labels, Piloting, Walking, Reading
\* A request that stays among its imports, or leaves them.
<1>16. ASSUME NEW r \in Requests, pc[r] \in Importing,
              pc' = pc \/ \E label \in Importing \cup {"idle"} : pc' = [pc EXCEPT ![r] = label],
              at' = at \/ \E m : at' = [at EXCEPT ![r] = m],
              at'[r] # 0 => pc' = pc,
              UNCHANGED <<link, page, pages>>
       PROVE  WalkInv'
  <2>1. ASSUME NEW s \in Requests, s # r
        PROVE  Walk(s)'
    BY <1>2, <1>16, <2>1, WalkFrame
  <2>2. pc'[r] \in Importing \cup {"idle"} /\ (at'[r] # 0 => pc'[r] \in Importing)
    BY <1>2, <1>16
  <2>3. Walk(r) /\ page[r] = {}
    BY <1>1, <1>16 DEF WalkInv, Walk, Importing
  <2>4. Walk(r)'
    BY <1>3, <1>16, <2>2, <2>3 DEF Walk, Walking, Reading, Importing
  <2> QED  BY <2>1, <2>4 DEF WalkInv
<1>17. ASSUME NEW r \in Requests, NEW m \in Messages, Import(r, m)
       PROVE  WalkInv'
  <2>1. pc[r] \in Importing /\ at[r] = 0 /\ UNCHANGED <<link, page, pages>>
    BY <1>17 DEF Import
  <2>2. CASE at' = [at EXCEPT ![r] = m] /\ pc' = pc
    BY <1>16, <2>1, <2>2
  <2>3. CASE at' = at /\ pc' = [pc EXCEPT ![r] = "idle"]
    BY <1>16, <2>1, <2>3
  <2> QED  BY <1>17, <2>2, <2>3 DEF Import
\* An intake ends: its message was taken in, or has failed and is left.
<1>18. ASSUME NEW r \in Requests, IntakeEnds(r) \/ IntakeBreaks(r)
       PROVE  WalkInv'
  <2>1. /\ at[r] # 0 /\ at' = [at EXCEPT ![r] = 0] /\ polled' = polled
        /\ UNCHANGED <<link, page, pages>>
    BY <1>18 DEF IntakeEnds, IntakeBreaks
  <2>2. at'[r] = 0 /\ \A s \in Requests \ {r} : at'[s] = at[s]
    BY <1>2, <2>1
  <2>3. CASE pc[r] \in Importing
    <3>1. \E label \in Importing \cup {"idle"} : pc' = [pc EXCEPT ![r] = label]
      BY <1>18, <2>3 DEF IntakeEnds, IntakeBreaks, Continues, Importing
    <3> QED  BY <1>16, <2>1, <2>2, <2>3, <3>1
  <2>4. CASE pc[r] = "page"
    <3>1. pc' = [pc EXCEPT ![r] = "page"]
      BY <1>18, <2>4 DEF IntakeEnds, IntakeBreaks, Continues, Importing
    <3>2. pc' = pc
      BY <1>2, <2>4, <3>1
    <3>3. at[r] \in Messages /\ at[r] \in AtWork
      BY <1>2, <2>1, MailSupplyAssumption DEF Messages, AtWork
    <3>4. at[r] \in Seen'
      <4>1. CASE IntakeBreaks(r)
        BY <1>1, <2>4, <3>3, <4>1, IntakeSteps DEF IntakeBreaks, Seen
      <4>2. CASE IntakeEnds(r)
        <5>1. /\ left' = left \cup ({at[r]} \ Settled') /\ failed' = failed
              /\ Moves(at[r], "settled")
          BY <2>4, <4>2 DEF IntakeEnds
        <5>2. CASE source' = source /\ source[at[r]] \notin Processing
          <6>1. source[at[r]] \in {"waiting", "settled"}
            BY <1>1, <1>2, <3>3, <5>2 DEF LeaseInv, Processing, Progress
          <6>2. at[r] \in failed \/ at[r] \in Settled'
            BY <1>1, <3>3, <5>2, <6>1 DEF LeaseInv, Settled
          <6> QED  BY <5>1, <6>2 DEF Seen
        <5>3. CASE source' = [source EXCEPT ![at[r]] = "settled"]
          BY <1>2, <3>3, <5>3 DEF Seen, Settled
        <5> QED  BY <1>1, <3>3, <5>1, <5>2, <5>3, IntakeSteps
      <4> QED  BY <1>18, <4>1, <4>2
    <3>5. ASSUME NEW s \in Requests, s # r
          PROVE  Walk(s)'
      BY <2>1, <2>2, <3>2, <3>5, WalkFrame
    <3>6. Walk(r)
      BY <1>1 DEF WalkInv
    <3>7. Walk(r)'
      BY <1>3, <2>1, <2>2, <2>4, <3>2, <3>4, <3>6 DEF Walk
    <3> QED  BY <3>5, <3>7 DEF WalkInv
  <2>5. pc[r] \in {"page"} \cup Importing
    BY <1>1, <2>1 DEF WalkInv, Walk
  <2> QED  BY <2>3, <2>4, <2>5
<1> QED
  BY <1>4, <1>6, <1>7, <1>8, <1>9, <1>10, <1>11, <1>12, <1>13, <1>14, <1>15, <1>17, <1>18
  DEF Next, Run, Pilot

-----------------------------------------------------------------------------
\* The one-shot lock is taken once.
LEMMA PilotPreserved ==
  ASSUME IInv, Next
  PROVE  PilotInv'
<1> USE DEF tables, locals, history, bounds, Goto
<1>1. PilotInv /\ imports \in Nat
  BY DEF IInv, TypeOK
<1>2. CASE UNCHANGED <<imports, armed>>
  BY <1>1, <1>2 DEF PilotInv
<1>3. CASE Arrive \/ Switch \/ \E m \in Messages : Poll(m) \/ PollEnds(m) \/ LeaseRunsOut(m)
  BY <1>2, <1>3, Zenon DEF Arrive, Switch, Poll, PollEnds, LeaseRunsOut
<1>4. ASSUME NEW r \in Requests,
             \/ Discover(r) \/ Run(r) \/ Throws(r) \/ StartPilot(r) \/ CheckPair(r)
             \/ IntakeEnds(r) \/ IntakeBreaks(r) \/ \E m \in Messages : Import(r, m)
      PROVE  UNCHANGED <<imports, armed>>
  BY <1>4, Zenon DEF Discover, Run, Peek, PutBack, ReadCursor, Fetch, EndPage, Save, Park, HandOver,
               Throws, StartPilot, CheckPair, IntakeEnds, IntakeBreaks, Import
<1>5. ASSUME NEW r \in Requests, ClaimPilot(r)
      PROVE  PilotInv'
  BY <1>1, <1>5 DEF ClaimPilot, Claimable, PilotInv
<1> QED  BY <1>2, <1>3, <1>4, <1>5 DEF Next, Pilot

-----------------------------------------------------------------------------
\* A step that changes nothing keeps the invariant.
LEMMA Stutter ==
  ASSUME IInv, UNCHANGED vars
  PROVE  IInv'
BY DEF IInv, TypeOK, CoverInv, LeaseInv, WalkInv, Walk, PilotInv, Covered, Seen, Settled, AtWork,
       vars, tables, locals, history, bounds

\* What is known of the cursor, of the runs and of the pilot, for the whole of a
\* behavior.
THEOREM SupplyInvariant == Spec => []IInv
<1>1. ASSUME IInv, [Next]_vars
      PROVE  IInv'
  <2>1. CASE Next
    BY <1>1, <2>1, TypePreserved, CoverPreserved, LeasePreserved, WalkPreserved,
       PilotPreserved
    DEF IInv
  <2>2. CASE UNCHANGED vars
    BY <1>1, <2>2, Stutter
  <2> QED  BY <1>1, <2>1, <2>2
<1> QED  BY <1>1, InitInv, PTL DEF Spec

\* The types of MailSupply's variables.
THEOREM SupplyTypeCorrect == Spec => []TypeOK
<1>1. IInv => TypeOK
  BY DEF IInv
<1> QED  BY <1>1, SupplyInvariant, PTL

\* Discovery passes nothing unseen: what a stored cursor is past was taken in; or
\* discovery was told that its intake threw or is in progress, and an intake of it has
\* thrown or died, or is still under way.
THEOREM CursorCovered == Spec => []CursorIsCovered
<1>1. IInv => CursorIsCovered
  BY DEF IInv, CoverInv, Covered, Seen, CursorIsCovered
<1> QED  BY <1>1, SupplyInvariant, PTL

\* The one-shot lock lets one pilot import through.
THEOREM OneImport == Spec => []ImportedOnce
<1>1. IInv => ImportedOnce
  BY DEF IInv, PilotInv, ImportedOnce
<1> QED  BY <1>1, SupplyInvariant, PTL

-----------------------------------------------------------------------------
\* While no two runs have overlapped, a run is not behind the cursor, and what it
\* read to put back is not older than it.
Order(r) ==
  /\ pc[r] \in Walking => link[r] >= cursor.value
  /\ pc[r] \in {"started", "failing"} => peeked[r].value >= cursor.value

OrderInv ==
  ~overlap =>
    /\ \A r, s \in Requests : pc[r] \in Discovering /\ pc[s] \in Discovering => r = s
    /\ \A r \in Requests : Order(r)

\* The cursor is never past the log.
LEMMA CursorBehindLog ==
  ASSUME IInv
  PROVE  cursor.value <= arrived /\ cursor.value \in Nat /\ arrived \in Nat
<1>1. cursor.value \in 0..NumMessages /\ arrived \in 0..NumMessages
  BY DEF IInv, TypeOK, Cursor
<1>2. Seen \subseteq 1..arrived
  <2>1. failed \subseteq 1..arrived /\ arrived \in Nat
    BY <1>1 DEF IInv, TypeOK
  <2>2. Settled \subseteq 1..arrived
    BY <2>1, MailSupplyAssumption DEF IInv, TypeOK, Settled, Messages
  <2>3. left \subseteq 1..arrived
    BY DEF IInv, TypeOK
  <2> QED  BY <2>2, <2>3 DEF Seen
<1>3. cursor.value > 0 => cursor.value \in 1..arrived
  BY <1>1, <1>2, MailSupplyAssumption DEF IInv, CoverInv, Covered
<1> QED  BY <1>1, <1>3, MailSupplyAssumption

\* Every step keeps the order, and while it lasts the cursor does not move back.
LEMMA OrderPreserved ==
  ASSUME IInv, OrderInv, Next
  PROVE  OrderInv' /\ (overlap' \/ cursor'.value >= cursor.value)
<1> USE DEF tables, locals, history, bounds, Goto
<1>1. TypeOK
  BY DEF IInv
<1>2. /\ pc \in [Requests -> Labels] /\ link \in [Requests -> 0..NumMessages]
      /\ peeked \in [Requests -> Cursor] /\ cursor.value \in Nat
  BY <1>1, CursorBehindLog DEF TypeOK
\* A request goes on, or leaves; the cursor stays.
<1>3. ASSUME NEW r \in Requests, NEW label, pc' = [pc EXCEPT ![r] = label],
             UNCHANGED <<cursor, overlap>>, label \in Discovering => pc[r] \in Discovering,
             \A s \in Requests \ {r} : link'[s] = link[s] /\ peeked'[s] = peeked[s],
             ~overlap =>
               /\ label \in Walking => link'[r] >= cursor.value
               /\ label \in {"started", "failing"} => peeked'[r].value >= cursor.value
      PROVE  OrderInv' /\ (overlap' \/ cursor'.value >= cursor.value)
  <2>1. \A s \in Requests : pc'[s] = IF s = r THEN label ELSE pc[s]
    BY <1>2, <1>3
  <2>2. ASSUME ~overlap
        PROVE  \A s \in Requests : Order(s)'
    BY <1>3, <2>1, <2>2 DEF OrderInv, Order
  <2> QED  BY <1>2, <1>3, <2>1, <2>2 DEF OrderInv
\* A run writes the cursor.
<1>4. ASSUME NEW r \in Requests, NEW label \in {"read", "idle"}, pc' = [pc EXCEPT ![r] = label],
             pc[r] \in Discovering, overlap' = overlap,
             ~overlap => cursor'.value >= cursor.value
      PROVE  OrderInv' /\ (overlap' \/ cursor'.value >= cursor.value)
  <2>1. \A s \in Requests : pc'[s] = IF s = r THEN label ELSE pc[s]
    BY <1>2, <1>4
  <2>2. Walking \cup {"started", "failing"} \subseteq Discovering
    BY DEF Walking, Discovering
  <2>3. ~overlap => \A s \in Requests : s # r => pc[s] \notin Discovering
    BY <1>4 DEF OrderInv
  <2>4. ~overlap => \A s \in Requests : Order(s)'
    BY <2>1, <2>2, <2>3 DEF Order, Walking
  <2> QED  BY <1>4, <2>1, <2>3, <2>4 DEF OrderInv
<1>5. CASE UNCHANGED <<pc, link, peeked, cursor, overlap>>
  BY <1>2, <1>5 DEF OrderInv, Order
<1>6. CASE Arrive \/ Switch \/ \E m \in Messages : Poll(m) \/ PollEnds(m) \/ LeaseRunsOut(m)
  BY <1>5, <1>6, Zenon DEF Arrive, Switch, Poll, PollEnds, LeaseRunsOut
<1>7. ASSUME NEW r \in Requests, Discover(r)
      PROVE  OrderInv' /\ (overlap' \/ cursor'.value >= cursor.value)
  <2>1. pc' = [pc EXCEPT ![r] = "start"] /\ UNCHANGED <<cursor, link, peeked>>
    BY <1>7 DEF Discover
  <2>2. ~overlap' => ~overlap /\ \A s \in Requests : pc[s] \notin Discovering
    BY <1>7, Zenon DEF Discover
  <2>3. \A s \in Requests : pc'[s] = IF s = r THEN "start" ELSE pc[s]
    BY <1>2, <2>1
  <2>4. ~overlap' => \A s \in Requests : Order(s)'
    BY <2>1, <2>2, <2>3 DEF OrderInv, Order, Walking
  <2> QED  BY <1>2, <2>1, <2>2, <2>3, <2>4 DEF OrderInv
<1>8. ASSUME NEW r \in Requests, Peek(r)
      PROVE  OrderInv' /\ (overlap' \/ cursor'.value >= cursor.value)
  <2>1. PICK label \in {"started", "parking", "failing"} :
          /\ pc' = [pc EXCEPT ![r] = label]
          /\ pc[r] \in Discovering
          /\ label = "parking" => pc[r] = "park"
    BY <1>8 DEF Peek, Discovering
  <2>2. peeked' = [peeked EXCEPT ![r] = cursor] /\ UNCHANGED <<cursor, overlap, link>>
    BY <1>8 DEF Peek
  <2>3. peeked'[r] = cursor /\ \A s \in Requests \ {r} : peeked'[s] = peeked[s]
    BY <1>2, <2>2
  <2>4. ~overlap => (label = "parking" => link'[r] >= cursor.value)
    BY <2>1, <2>2 DEF OrderInv, Order, Walking
  <2>5. cursor.value >= cursor.value
    BY <1>2
  <2>6. /\ label \in {"started", "failing"} => peeked'[r].value >= cursor.value
        /\ ~overlap => (label \in Walking => link'[r] >= cursor.value)
    BY <2>1, <2>3, <2>4, <2>5 DEF Walking
  <2> QED  BY <1>3, <2>1, <2>2, <2>3, <2>6
<1>9. ASSUME NEW r \in Requests, PutBack(r)
      PROVE  OrderInv' /\ (overlap' \/ cursor'.value >= cursor.value)
  <2>1. PICK label \in {"read", "idle"} : pc' = [pc EXCEPT ![r] = label]
    BY <1>9 DEF PutBack
  <2>2. pc[r] \in {"started", "failing"} /\ cursor' = peeked[r] /\ overlap' = overlap
    BY <1>9 DEF PutBack, Kept
  <2>3. ~overlap => cursor'.value >= cursor.value
    BY <2>2 DEF OrderInv, Order
  <2> QED  BY <1>4, <2>1, <2>2, <2>3 DEF Discovering
<1>10. ASSUME NEW r \in Requests, Save(r) \/ Park(r)
       PROVE  OrderInv' /\ (overlap' \/ cursor'.value >= cursor.value)
  <2>1. /\ pc' = [pc EXCEPT ![r] = "idle"] /\ pc[r] \in {"save", "parking"}
        /\ cursor'.value = link[r] /\ overlap' = overlap
    BY <1>10 DEF Save, Park
  <2>2. ~overlap => cursor'.value >= cursor.value
    BY <2>1 DEF OrderInv, Order, Walking
  <2> QED  BY <1>4, <2>1, <2>2 DEF Discovering
<1>11. ASSUME NEW r \in Requests, ReadCursor(r)
       PROVE  OrderInv' /\ (overlap' \/ cursor'.value >= cursor.value)
  <2>1. /\ pc' = [pc EXCEPT ![r] = "fetch"] /\ pc[r] = "read"
        /\ link' = [link EXCEPT ![r] = cursor.value] /\ UNCHANGED <<cursor, overlap, peeked>>
    BY <1>11 DEF ReadCursor
  <2>2. link'[r] = cursor.value /\ \A s \in Requests \ {r} : link'[s] = link[s]
    BY <1>2, <2>1
  <2>3. link'[r] >= cursor.value
    BY <1>2, <2>2
  <2> QED  BY <1>3, <2>1, <2>2, <2>3 DEF Discovering
<1>12. ASSUME NEW r \in Requests, Fetch(r)
       PROVE  OrderInv' /\ (overlap' \/ cursor'.value >= cursor.value)
  <2>1. pc[r] = "fetch" /\ UNCHANGED <<cursor, overlap, peeked>>
    BY <1>12 DEF Fetch
  <2>2. ~overlap => link[r] >= cursor.value
    BY <2>1 DEF OrderInv, Order, Walking
  <2>3. CASE pc' = [pc EXCEPT ![r] = "fail"] /\ UNCHANGED link
    BY <1>3, <2>1, <2>3 DEF Discovering, Walking
  <2>4. CASE /\ pc' = [pc EXCEPT ![r] = "page"]
             /\ link' = [link EXCEPT ![r] = IF @ + PageSize < arrived THEN @ + PageSize ELSE arrived]
    <3>1. /\ link'[r] = IF link[r] + PageSize < arrived THEN link[r] + PageSize ELSE arrived
          /\ \A s \in Requests \ {r} : link'[s] = link[s]
      BY <1>2, <2>4
    <3>2. ~overlap => link'[r] >= cursor.value
      BY <1>2, <2>2, <3>1, CursorBehindLog, MailSupplyAssumption
    <3> QED  BY <1>3, <2>1, <2>4, <3>1, <3>2 DEF Discovering
  <2> QED  BY <1>12, <2>3, <2>4 DEF Fetch
<1>13. ASSUME NEW r \in Requests, NEW m \in Messages, HandOver(r, m)
       PROVE  OrderInv' /\ (overlap' \/ cursor'.value >= cursor.value)
  BY <1>5, <1>13, Zenon DEF HandOver
<1>14. ASSUME NEW r \in Requests, EndPage(r)
       PROVE  OrderInv' /\ (overlap' \/ cursor'.value >= cursor.value)
  <2>1. PICK label \in {"save", "fetch", "park"} : pc' = [pc EXCEPT ![r] = label]
    BY <1>14 DEF EndPage
  <2>2. pc[r] = "page" /\ UNCHANGED <<cursor, overlap, peeked, link>>
    BY <1>14 DEF EndPage
  <2>3. ~overlap => link[r] >= cursor.value
    BY <2>2 DEF OrderInv, Order, Walking
  <2> QED  BY <1>3, <2>1, <2>2, <2>3 DEF Discovering
<1>15. ASSUME NEW r \in Requests, Throws(r)
       PROVE  OrderInv' /\ (overlap' \/ cursor'.value >= cursor.value)
  <2>1. PICK label \in {"fail", "idle"} :
          /\ pc' = [pc EXCEPT ![r] = label]
          /\ label = "fail" => pc[r] \in {"save", "park", "parking"}
    BY <1>15 DEF Throws
  <2>2. UNCHANGED <<cursor, overlap, peeked, link>>
    BY <1>15 DEF Throws
  <2> QED  BY <1>3, <2>1, <2>2 DEF Discovering, Walking
<1>16. ASSUME NEW r \in Requests,
              \/ StartPilot(r) \/ CheckPair(r) \/ ClaimPilot(r)
              \/ IntakeEnds(r) \/ IntakeBreaks(r) \/ \E m \in Messages : Import(r, m)
       PROVE  OrderInv' /\ (overlap' \/ cursor'.value >= cursor.value)
  <2>1. UNCHANGED <<cursor, overlap, peeked, link>>
    BY <1>16, Zenon DEF StartPilot, CheckPair, ClaimPilot, IntakeEnds, IntakeBreaks, Import
  <2>2. CASE pc' = pc
    BY <1>5, <2>1, <2>2
  <2>3. CASE \E label \in {"idle"} \cup Piloting : pc' = [pc EXCEPT ![r] = label]
    <3>1. PICK label \in {"idle"} \cup Piloting : pc' = [pc EXCEPT ![r] = label]
      BY <2>3
    <3> QED  BY <1>3, <2>1, <3>1 DEF Discovering, Piloting, Walking
  <2>4. CASE pc[r] = "page" /\ pc' = [pc EXCEPT ![r] = "page"]
    <3>1. pc' = pc
      BY <1>2, <2>4
    <3> QED  BY <2>2, <3>1
  <2> QED
    BY <1>16, <2>2, <2>3, <2>4 DEF StartPilot, CheckPair, ClaimPilot, IntakeEnds, IntakeBreaks, Import,
                                   Continues, Importing, Piloting
<1> QED
  BY <1>6, <1>7, <1>8, <1>9, <1>10, <1>11, <1>12, <1>13, <1>14, <1>15, <1>16 DEF Next, Run, Pilot

\* The cursor moves back only where two discoveries have overlapped.
THEOREM CursorMovesOn == Spec => CursorAdvances
<1>1. Init => OrderInv
  BY DEF Init, OrderInv, Order, Discovering, Walking
<1>2. ASSUME IInv, OrderInv, [Next]_vars
      PROVE  OrderInv'
  <2>1. CASE UNCHANGED vars
    BY <1>2, <2>1 DEF vars, tables, locals, history, OrderInv, Order
  <2> QED  BY <1>2, <2>1, OrderPreserved
<1>3. Spec => []OrderInv
  BY <1>1, <1>2, SupplyInvariant, PTL DEF Spec
<1>4. ASSUME IInv, OrderInv, [Next]_vars
      PROVE  [overlap' \/ cursor'.value >= cursor.value]_vars
  BY <1>4, OrderPreserved
<1> QED  BY <1>3, <1>4, SupplyInvariant, PTL DEF Spec, CursorAdvances
=============================================================================
