---------------------------- MODULE MCMailIntake ----------------------------
(***************************************************************************)
(* Small mailboxes for MailIntake.                                         *)
(***************************************************************************)
EXTENDS MailIntake, TLC

CONSTANTS w1, w2, m1, m2, m3, case1, case2, thread1, thread2

\* A new case, and a reply in its conversation that shows none.
MailboxOfReply  == {m1, m2}
CaseOfReply     == (m1 :> case1) @@ (m2 :> NoCase)
ThreadOfReply   == (m1 :> thread1) @@ (m2 :> thread1)

\* Two new cases in two conversations.
MailboxOfCases  == {m1, m2}
CaseOfCases     == (m1 :> case1) @@ (m2 :> case2)
ThreadOfCases   == (m1 :> thread1) @@ (m2 :> thread2)

\* One conversation: a new case, a second one, and mail that is no complaint.
MailboxOfThread    == {m1, m2, m3}
CaseOfThread       == (m1 :> case1) @@ (m2 :> case2) @@ (m3 :> NoCase)
ThreadOfThread     == [m \in MailboxOfThread |-> thread1]
ComplaintsOfThread == {m1, m2}

WorkerSymmetry == Permutations(Workers)
=============================================================================
