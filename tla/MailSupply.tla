----------------------------- MODULE MailSupply -----------------------------
(***************************************************************************)
(* How mail other than the scheduled poll's reaches ingestEmailMessage:    *)
(* runMailboxDiscovery (worker/mail-discovery.ts), which pages through     *)
(* Microsoft Graph's change log behind a stored cursor, and the one-shot   *)
(* pilot imports (worker/ingestion.ts).  Both are started by requests      *)
(* that may overlap; nothing locks the cursor.  The scheduled poll takes   *)
(* mail in beside them.                                                    *)
(*                                                                         *)
(* A link, next or delta, is the number of changes it is past.  Of an      *)
(* intake this module has what the callers see: it takes the lease of the  *)
(* message, or is told DUPLICATE or IN_PROGRESS; then it ends, throws or   *)
(* dies, on a lease that may have run out meanwhile (MailIntake has the    *)
(* steps between).  Left out: removal notices, counts, error codes, and    *)
(* the checks of the pilot's fixed pair that read only the mailbox.        *)
(***************************************************************************)
EXTENDS Naturals, FiniteSets

CONSTANTS
  Requests,     \* requests in flight
  NumMessages,  \* mail is numbered in the order of the change log
  PageSize,     \* changes on a page
  MaxPages,     \* pages of one run
  Pair,         \* the messages of the pilot: the initial one and the follow-up
  MaxRuns,      \* bound: runs that are started
  MaxSwitches,  \* bound: changes of the switch
  MaxFaults     \* bound: calls that throw, invocations that die

Messages == 1..NumMessages

ASSUME MailSupplyAssumption ==
  /\ IsFiniteSet(Requests)
  /\ NumMessages \in Nat
  /\ PageSize \in Nat \ {0}
  /\ MaxPages \in Nat \ {0}
  /\ Pair.initial \in Messages /\ Pair.followUp \in Messages
  /\ Pair.initial # Pair.followUp

VARIABLES
  arrived,   \* changes 1..arrived are in the log
  \* D1 tables
  enabled,   \* settings: email_ingestion_enabled
  cursor,    \* mail_discovery_cursors: cursor_value and high_water_received_at, 0 is null
  source,    \* mail_source_messages: how far the message is, with its lease
  armed,     \* background_job_locks: EMAIL_PILOT has not been used
  polled,    \* messages whose intake an invocation of the poll is in
  \* locals of a request
  pc, link, mark, page, pages, last, peeked,
  at,        \* the message whose intake the request is in; 0 is none
  \* history
  failed,    \* messages an intake of which threw or died
  left,      \* messages discovery went past without their being taken in
  imports,   \* pilot requests that got past the one-shot lock
  overlap,   \* two discoveries have been under way at once
  \* bounds
  runs, switches, faults

tables == <<enabled, cursor, source, armed>>
locals == <<pc, link, mark, page, pages, last, peeked, at>>
history == <<failed, left, imports, overlap>>
bounds == <<runs, switches, faults>>
vars == <<arrived, tables, polled, locals, history, bounds>>

Discovering == {"start", "started", "read", "fetch", "page", "save", "park", "parking",
                "fail", "failing"}
Piloting == {"check", "claim", "claimOne", "initial", "followUp", "one"}
Labels == {"idle"} \cup Discovering \cup Piloting

\* No row in gmail_messages yet; DISCOVERED or RETRY_WAIT; PROCESSING, with a lease
\* that runs or one that has run out; a final state.
Progress == {"new", "waiting", "leased", "lapsed", "settled"}

Settled == {m \in Messages : source[m] = "settled"}

\* What some invocation's intake is at, whether or not it still has the lease.
AtWork == polled \cup {at[r] : r \in Requests}

Cursor == [value : 0..NumMessages, mark : 0..NumMessages]
Unread == [value |-> 0, mark |-> 0]

Init ==
  /\ arrived = 0
  /\ enabled \in BOOLEAN
  /\ cursor = Unread
  /\ source = [m \in Messages |-> "new"]
  /\ armed = TRUE
  /\ polled = {}
  /\ pc = [r \in Requests |-> "idle"]
  /\ link = [r \in Requests |-> 0]
  /\ mark = [r \in Requests |-> 0]
  /\ page = [r \in Requests |-> {}]
  /\ pages = [r \in Requests |-> 0]
  /\ last = [r \in Requests |-> FALSE]
  /\ peeked = [r \in Requests |-> Unread]
  /\ at = [r \in Requests |-> 0]
  /\ failed = {}
  /\ left = {}
  /\ imports = 0
  /\ overlap = FALSE
  /\ runs = 0
  /\ switches = 0
  /\ faults = 0

-----------------------------------------------------------------------------
\* The surroundings

Goto(r, label) == pc' = [pc EXCEPT ![r] = label]
Fault == faults < MaxFaults /\ faults' = faults + 1

Arrive ==
  /\ arrived < NumMessages
  /\ arrived' = arrived + 1
  /\ UNCHANGED <<tables, polled, locals, history, bounds>>

\* PUT /api/admin/config.
Switch ==
  /\ switches < MaxSwitches
  /\ switches' = switches + 1
  /\ enabled' = ~enabled
  /\ UNCHANGED <<arrived, cursor, source, armed, polled, locals, history, runs, faults>>

\* Five minutes are over; whoever took the lease may still be at work, or be dead.
LeaseRunsOut(m) ==
  /\ source[m] = "leased"
  /\ source' = [source EXCEPT ![m] = "lapsed"]
  /\ UNCHANGED <<arrived, enabled, cursor, armed, polled, locals, history, bounds>>

-----------------------------------------------------------------------------
\* The intake of a message

Processing == {"leased", "lapsed"}

\* The lease is free: it is taken.
TakesUp(m) ==
  /\ source[m] \in {"new", "waiting", "lapsed"}
  /\ source' = [source EXCEPT ![m] = "leased"]

\* DUPLICATE, or IN_PROGRESS: another has the lease, or got it first.
TurnedAway(m) == source[m] \in {"leased", "settled"} /\ UNCHANGED source

\* It throws before it has the lease, or the message cannot be read at all.
StopsShort(m) ==
  /\ Fault
  /\ failed' = failed \cup {m}
  /\ \/ UNCHANGED source
     \/ source[m] = "new" /\ source' = [source EXCEPT ![m] = "waiting"]

\* finishProcessing asks that the message is PROCESSING, not for whom.
Moves(m, progress) ==
  source' = [source EXCEPT ![m] = IF @ \in Processing THEN progress ELSE @]

\* It throws while it has the lease, or dies: RETRY_WAIT, unless that is not reached,
\* or what threw was the last of its steps.
Breaks(m) ==
  /\ Fault
  /\ failed' = failed \cup {m}
  /\ UNCHANGED source \/ Moves(m, "waiting") \/ Moves(m, "settled")

-----------------------------------------------------------------------------
\* The scheduled poll: one message of its look-back window

Poll(m) ==
  /\ enabled
  /\ m <= arrived
  /\ \/ TakesUp(m) /\ polled' = polled \cup {m} /\ UNCHANGED <<failed, faults>>
     \/ StopsShort(m) /\ UNCHANGED polled
  /\ UNCHANGED <<arrived, enabled, cursor, armed, locals, left, imports, overlap, runs, switches>>

PollEnds(m) ==
  /\ m \in polled
  /\ polled' = polled \ {m}
  /\ \/ Moves(m, "settled") /\ UNCHANGED <<failed, faults>>
     \/ Breaks(m)
  /\ UNCHANGED <<arrived, enabled, cursor, armed, locals, left, imports, overlap, runs, switches>>

-----------------------------------------------------------------------------
\* Discovery

\* POST /api/admin/email/discover: the switch is looked at once.
Discover(r) ==
  /\ pc[r] = "idle"
  /\ enabled
  /\ runs < MaxRuns
  /\ runs' = runs + 1
  /\ Goto(r, "start")
  /\ overlap' = (overlap \/ \E s \in Requests : pc[s] \in Discovering)
  /\ mark' = [mark EXCEPT ![r] = 0]
  /\ pages' = [pages EXCEPT ![r] = 0]
  /\ UNCHANGED <<arrived, tables, polled, link, page, last, peeked, at, failed, left, imports,
                 switches, faults>>

\* writeCursor first reads the row, for the fields it is not told to change ...
Peek(r) ==
  /\ \/ pc[r] = "start" /\ Goto(r, "started")
     \/ pc[r] = "park" /\ Goto(r, "parking")
     \/ pc[r] = "fail" /\ Goto(r, "failing")
  /\ peeked' = [peeked EXCEPT ![r] = cursor]
  /\ UNCHANGED <<arrived, tables, polled, link, mark, page, pages, last, at, history, bounds>>

\* Variant with a fault: a field that is not given is written as null.
KeptAsNull(old) == Unread

\* The fields writeCursor is not told to change: those of the row it read.
Kept(old) == old

\* ... and then writes all of them.  last_started_at, last_error_code:
PutBack(r) ==
  /\ \/ pc[r] = "started" /\ Goto(r, "read")
     \/ pc[r] = "failing" /\ Goto(r, "idle")
  /\ cursor' = Kept(peeked[r])
  /\ UNCHANGED <<arrived, enabled, source, armed, polled, link, mark, page, pages, last, peeked,
                 at, history, bounds>>

ReadCursor(r) ==
  /\ pc[r] = "read"
  /\ link' = [link EXCEPT ![r] = cursor.value]
  /\ Goto(r, "fetch")
  /\ UNCHANGED <<arrived, tables, polled, mark, page, pages, last, peeked, at, history, bounds>>

\* Variant with a fault: a page begins after the change that follows the link.
PageAfterNext(from) == {m \in from + 2..from + PageSize : m <= arrived}

\* What Graph returns for a link: the changes that follow it, one page of them.
PageAfter(from) == {m \in from + 1..from + PageSize : m <= arrived}

\* listInboxDeltaPage: GET, tried three times.  The new link is a deltaLink when
\* there are no more changes, else a nextLink.
Fetch(r) ==
  /\ pc[r] = "fetch"
  /\ \/ /\ page' = [page EXCEPT ![r] = PageAfter(link[r])]
        /\ link' = [link EXCEPT ![r] = IF @ + PageSize < arrived THEN @ + PageSize ELSE arrived]
        /\ last' = [last EXCEPT ![r] = link[r] + PageSize >= arrived]
        /\ Goto(r, "page")
        /\ UNCHANGED faults
     \/ /\ Goto(r, "fail")
        /\ Fault
        /\ UNCHANGED <<page, link, last>>
  /\ UNCHANGED <<arrived, tables, polled, mark, pages, peeked, at, history, runs, switches>>

\* The next message of the page is handed to ingestEmailMessage.  What is not a
\* DUPLICATE is counted as ingested, IN_PROGRESS too; what throws, as a failure.
HandOver(r, m) ==
  /\ pc[r] = "page"
  /\ at[r] = 0
  /\ m \in page[r] /\ \A n \in page[r] : m <= n
  /\ page' = [page EXCEPT ![r] = @ \ {m}]
  /\ \/ TakesUp(m) /\ at' = [at EXCEPT ![r] = m] /\ UNCHANGED <<left, failed, faults>>
     \/ TurnedAway(m) /\ left' = left \cup ({m} \ Settled) /\ UNCHANGED <<at, failed, faults>>
     \/ StopsShort(m) /\ left' = left \cup {m} /\ UNCHANGED at
  /\ \/ mark' = [mark EXCEPT ![r] = IF m > @ THEN m ELSE @]
     \/ faults' # faults /\ UNCHANGED mark  \* it could not be read
  /\ UNCHANGED <<arrived, enabled, cursor, armed, polled, pc, link, pages, last, peeked, imports,
                 overlap, runs, switches>>

\* Variant with a fault: one page more than the limit.
MorePagesByOne(n) == n <= MaxPages

\* A run that has read n pages may read another.
MorePages(n) == n < MaxPages

\* The page is done: stop at a deltaLink, or out of pages.
EndPage(r) ==
  /\ pc[r] = "page"
  /\ page[r] = {} /\ at[r] = 0
  /\ pages' = [pages EXCEPT ![r] = @ + 1]
  /\ Goto(r, IF last[r] THEN "save" ELSE IF MorePages(pages[r] + 1) THEN "fetch" ELSE "park")
  /\ UNCHANGED <<arrived, tables, polled, link, mark, page, last, peeked, at, history, bounds>>

\* The deltaLink is stored, with the newest receipt of this run - null if it saw
\* no message.
Save(r) ==
  /\ pc[r] = "save"
  /\ cursor' = [value |-> link[r], mark |-> mark[r]]
  /\ Goto(r, "idle")
  /\ UNCHANGED <<arrived, enabled, source, armed, polled, link, mark, page, pages, last, peeked, at,
                 history, bounds>>

\* Out of pages: the nextLink is stored, for the next run to go on.
Park(r) ==
  /\ pc[r] = "parking"
  /\ cursor' = [value |-> link[r], mark |-> Kept(peeked[r]).mark]
  /\ Goto(r, "idle")
  /\ UNCHANGED <<arrived, enabled, source, armed, polled, link, mark, page, pages, last, peeked, at,
                 history, bounds>>

\* A database call of the loop throws: to the catch block.  Elsewhere, or if the
\* invocation dies, the run just ends, with the intake it is in.
Throws(r) ==
  /\ pc[r] # "idle"
  /\ Fault
  /\ \/ pc[r] \in {"save", "park", "parking"} /\ Goto(r, "fail")
     \/ Goto(r, "idle")
  /\ page' = [page EXCEPT ![r] = {}]
  /\ at' = [at EXCEPT ![r] = 0]
  /\ failed' = failed \cup ({at[r]} \ {0})
  /\ UNCHANGED <<arrived, tables, polled, link, mark, pages, last, peeked, left, imports, overlap,
                 runs, switches>>

-----------------------------------------------------------------------------
\* The pilot's imports: of the approved pair, and of the one message a search finds

\* requirePilotSafety: broad ingestion is off - when it is looked at.
StartPilot(r) ==
  /\ pc[r] = "idle"
  /\ ~enabled
  /\ runs < MaxRuns
  /\ runs' = runs + 1
  /\ Goto(r, "check") \/ Goto(r, "claimOne")
  /\ UNCHANGED <<arrived, tables, polled, link, mark, page, pages, last, peeked, at, history,
                 switches, faults>>

\* Neither message may have a row in gmail_messages.
CheckPair(r) ==
  /\ pc[r] = "check"
  /\ Goto(r, IF \A m \in {Pair.initial, Pair.followUp} : m <= arrived /\ source[m] = "new"
             THEN "claim" ELSE "idle")
  /\ UNCHANGED <<arrived, tables, polled, link, mark, page, pages, last, peeked, at, history, bounds>>

\* Variant with a fault: the changes of the UPDATE are not counted.
ClaimableAlways == TRUE

\* UPDATE background_job_locks ... WHERE locked_until is that of the last reset.
Claimable == armed

ClaimPilot(r) ==
  /\ pc[r] \in {"claim", "claimOne"}
  /\ armed' = FALSE
  /\ IF Claimable
     THEN Goto(r, IF pc[r] = "claim" THEN "initial" ELSE "one") /\ imports' = imports + 1
     ELSE Goto(r, "idle") /\ UNCHANGED imports
  /\ UNCHANGED <<arrived, enabled, cursor, source, polled, link, mark, page, pages, last, peeked, at,
                 failed, left, overlap, bounds>>

Importing == {"initial", "followUp", "one"}

\* The initial message, the follow-up, or the one a search has found - which does not
\* ask whether it has been taken in before.
Import(r, m) ==
  /\ pc[r] \in Importing
  /\ at[r] = 0
  /\ pc[r] = "initial" => m = Pair.initial
  /\ pc[r] = "followUp" => m = Pair.followUp
  /\ m <= arrived
  /\ \/ TakesUp(m) /\ at' = [at EXCEPT ![r] = m] /\ UNCHANGED <<pc, failed, faults>>
     \/ TurnedAway(m) /\ Goto(r, "idle") /\ UNCHANGED <<at, failed, faults>>
     \/ StopsShort(m) /\ Goto(r, "idle") /\ UNCHANGED at
  /\ UNCHANGED <<arrived, enabled, cursor, armed, polled, link, mark, page, pages, last, peeked, left,
                 imports, overlap, runs, switches>>

-----------------------------------------------------------------------------
\* The end of an intake

\* Discovery goes on with the page.  The pair's initial message must have made a
\* complaint, for the follow-up to join it; the other imports are over.
Continues(r, label) ==
  \/ pc[r] = "page" /\ label = "page"
  \/ pc[r] = "initial" /\ label = "followUp"
  \/ pc[r] \in Importing /\ label = "idle"

IntakeEnds(r) ==
  /\ at[r] # 0
  /\ Moves(at[r], "settled")
  /\ at' = [at EXCEPT ![r] = 0]
  /\ \E label \in Labels : Continues(r, label) /\ Goto(r, label)
  /\ left' = IF pc[r] = "page" THEN left \cup ({at[r]} \ Settled') ELSE left
  /\ UNCHANGED <<arrived, enabled, cursor, armed, polled, link, mark, page, pages, last, peeked,
                 failed, imports, overlap, bounds>>

\* A failure, which discovery counts before it goes on, and which ends an import.
IntakeBreaks(r) ==
  /\ at[r] # 0
  /\ Breaks(at[r])
  /\ at' = [at EXCEPT ![r] = 0]
  /\ Goto(r, IF pc[r] = "page" THEN "page" ELSE "idle")
  /\ left' = IF pc[r] = "page" THEN left \cup {at[r]} ELSE left
  /\ UNCHANGED <<arrived, enabled, cursor, armed, polled, link, mark, page, pages, last, peeked,
                 imports, overlap, runs, switches>>

-----------------------------------------------------------------------------
Run(r) ==
  \/ Peek(r) \/ PutBack(r) \/ ReadCursor(r) \/ Fetch(r) \/ EndPage(r) \/ Save(r) \/ Park(r)
  \/ \E m \in Messages : HandOver(r, m)

Pilot(r) == CheckPair(r) \/ ClaimPilot(r) \/ \E m \in Messages : Import(r, m)

Next ==
  \/ Arrive
  \/ Switch
  \/ \E m \in Messages : Poll(m) \/ PollEnds(m) \/ LeaseRunsOut(m)
  \/ \E r \in Requests :
       \/ Discover(r) \/ Run(r) \/ Throws(r)
       \/ StartPilot(r) \/ Pilot(r)
       \/ IntakeEnds(r) \/ IntakeBreaks(r)

Spec == Init /\ [][Next]_vars

-----------------------------------------------------------------------------
\* Properties

\* Types of all variables; what has not arrived has no row.
TypeOK ==
  /\ arrived \in 0..NumMessages
  /\ enabled \in BOOLEAN
  /\ cursor \in Cursor
  /\ source \in [Messages -> Progress]
  /\ \A m \in Messages : m > arrived => source[m] = "new"
  /\ armed \in BOOLEAN
  /\ polled \subseteq 1..arrived
  /\ pc \in [Requests -> Labels]
  /\ link \in [Requests -> 0..NumMessages]
  /\ mark \in [Requests -> 0..NumMessages]
  /\ page \in [Requests -> SUBSET Messages]
  /\ pages \in [Requests -> 0..MaxPages]
  /\ last \in [Requests -> BOOLEAN]
  /\ peeked \in [Requests -> Cursor]
  /\ at \in [Requests -> 0..NumMessages]
  /\ failed \subseteq 1..arrived
  /\ left \subseteq 1..arrived
  /\ imports \in Nat
  /\ overlap \in BOOLEAN
  /\ runs \in Nat
  /\ switches \in Nat
  /\ faults \in Nat

\* The cursor passes nothing unseen, however runs overlap, fail or die: what it is past
\* was taken in; or discovery handed it over and left it, and then an intake of it has
\* thrown or died, or is still under way.  That is all discovery promises: mail another
\* invocation has the lease of counts as ingested (IN_PROGRESS), and if that invocation
\* is dead, no later run returns to it.
CursorIsCovered == 1..cursor.value \subseteq Settled \cup (left \cap (failed \cup AtWork))

\* The cursor only moves back where two runs overlapped.
CursorAdvances == [][overlap' \/ cursor'.value >= cursor.value]_vars

\* One pilot import gets to take mail in, whatever requests run, overlap and fail.
ImportedOnce == imports <= 1
=============================================================================
