------------------------- MODULE ControlPlaneProofs -------------------------
(***************************************************************************)
(* Proofs about ControlPlane, for every set of jobs, results and addresses *)
(* and any number of lost workers.  The inductive invariant says how the   *)
(* three contracts hang together: which rows exist in which state of a     *)
(* job, and in which states of a delivery a worker may hold it.            *)
(***************************************************************************)
EXTENDS ControlPlane, TLAPS

JobStates  == {"absent", "pending", "claimed", "completed"}
MailStates == {"absent", "pending", "sending", "sent", "failed"}
Frozen     == {"sending", "sent", "failed"}
Letters    == {<<>>} \cup {<<a>> : a \in Emails}

JobTyped    == state \in [Jobs -> JobStates]
OutboxTyped == requested \in SUBSET Rows /\ copies \in [Rows -> {0, 1}]
MailTyped   == /\ delivery \in [Jobs -> MailStates]
               /\ address \in [Jobs -> Emails \cup {NoEmail}]
               /\ mailed \in [Jobs -> Letters]
Typed == JobTyped /\ OutboxTyped /\ MailTyped

\* A stream holds committed rows only, and a row its job's state.
Announced == \A j \in Jobs :
  /\ <<"requested", j>> \in requested => state[j] # "absent"
  /\ <<"completed", j>> \in requested => state[j] = "completed"
  /\ <<"email", j>> \in requested => delivery[j] # "absent"
Streamed == \A e \in Rows : copies[e] > 0 => e \in requested

\* A delivery belongs to a completed job; it is claimed on its event, and
\* mailed by the worker whose claim was answered.
Ordered == \A j \in Jobs : delivery[j] # "absent" => state[j] = "completed"
Claimed == \A j \in Jobs :
  /\ delivery[j] \in Frozen => copies[<<"email", j>>] = 1
  /\ delivery[j] \in Frozen <=> address[j] # NoEmail
Held == \A j \in leave \cap Jobs : delivery[j] = "sending"
Sent == \A j \in Jobs : mailed[j] # <<>> =>
          mailed[j] = <<address[j]>> /\ delivery[j] \in {"sending", "sent"}

IInv == Typed /\ Announced /\ Streamed /\ Ordered /\ Claimed /\ Held /\ Sent

------------------------------------------------------------------------------
LEMMA InitIInv == Init => IInv
<1> SUFFICES ASSUME Init PROVE IInv
  OBVIOUS
<1> USE DEF Init, Job!Init, Outbox!Init, Email!Init
<1>1. Typed
  BY DEF Typed, JobTyped, OutboxTyped, MailTyped, JobStates, MailStates,
         Letters
<1>2. Announced /\ Streamed /\ Ordered /\ Claimed /\ Held /\ Sent
  BY DEF Announced, Streamed, Ordered, Claimed, Held, Sent, Frozen
<1> QED BY <1>1, <1>2 DEF IInv

\* The rows of the outbox are pairs of a type and a job.
LEMMA RowFacts ==
  ASSUME NEW j \in Jobs, NEW t \in {"requested", "completed", "email"}
  PROVE  <<t, j>> \in Rows
  BY DEF Rows

\* Distinct types and distinct jobs make distinct rows.
LEMMA RowsDiffer ==
  ASSUME NEW s, NEW t, NEW i, NEW j, <<s, i>> = <<t, j>>
  PROVE  s = t /\ i = j
  OBVIOUS

------------------------------------------------------------------------------
(* One lemma per transaction *)

LEMMA CreateStep ==
  ASSUME IInv, NEW j \in Jobs, CreateJob(j) PROVE IInv'
<1> USE DEF IInv, CreateJob, Job!Request, Outbox!Request, mailVars, worldVars
<1>1. Typed'
  BY RowFacts DEF Typed, JobTyped, OutboxTyped, MailTyped, JobStates
<1>2. Announced' /\ Ordered'
  BY RowsDiffer DEF Announced, Ordered, Typed, JobTyped
<1>3. Streamed' /\ Claimed' /\ Held' /\ Sent'
  BY DEF Streamed, Claimed, Held, Sent
<1> QED BY <1>1, <1>2, <1>3

LEMMA ClaimStep ==
  ASSUME IInv, NEW j \in Jobs, ClaimJob(j) PROVE IInv'
<1> USE DEF IInv, ClaimJob, Job!Claim, outboxVars, mailVars, worldVars
<1>1. Typed'
  BY DEF Typed, JobTyped, OutboxTyped, MailTyped, JobStates
<1>2. Announced' /\ Ordered'
  BY DEF Announced, Ordered, Typed, JobTyped
<1>3. Streamed' /\ Claimed' /\ Held' /\ Sent'
  BY DEF Streamed, Claimed, Held, Sent
<1> QED BY <1>1, <1>2, <1>3

LEMMA CompleteStep ==
  ASSUME IInv, NEW j \in Jobs, CompleteJob(j) PROVE IInv'
<1> USE DEF IInv, CompleteJob, Job!Complete, Outbox!Request, Email!Create,
            worldVars
<1>1. Typed'
  BY RowFacts DEF Typed, JobTyped, OutboxTyped, MailTyped, JobStates,
                  MailStates
<1>2. Announced'
  BY RowsDiffer DEF Announced, Typed, JobTyped, MailTyped
<1>3. Streamed' /\ Ordered'
  BY DEF Streamed, Ordered, Typed, JobTyped, MailTyped
<1>4. Claimed' /\ Held' /\ Sent'
  BY DEF Claimed, Held, Sent, Frozen, Typed, MailTyped
<1> QED BY <1>1, <1>2, <1>3, <1>4

LEMMA PublishStep ==
  ASSUME IInv, NEW e \in Rows, Publish(e) PROVE IInv'
<1> USE DEF IInv, Publish, Outbox!Send, Outbox!Confirm, jobVars, mailVars,
            worldVars
<1>1. Typed' /\ Streamed'
  BY DEF Typed, JobTyped, OutboxTyped, MailTyped, Streamed
<1>2. Announced' /\ Ordered' /\ Held' /\ Sent'
  BY DEF Announced, Ordered, Held, Sent
<1>3. Claimed'
  BY RowFacts DEF Claimed, Typed, OutboxTyped
<1> QED BY <1>1, <1>2, <1>3

LEMMA ClaimMailStep ==
  ASSUME IInv, NEW j \in Jobs, ClaimMail(j) PROVE IInv'
<1> PICK a \in Emails : Email!Claim(j, a)
  BY DEF ClaimMail
<1> USE DEF IInv, ClaimMail, Email!Claim, jobVars, outboxVars
<1>1. Typed' /\ Announced' /\ Streamed' /\ Ordered'
  BY DEF Typed, JobTyped, OutboxTyped, MailTyped, MailStates, Announced,
         Streamed, Ordered
<1>2. Claimed'
  <2>1. copies[<<"email", j>>] = 1 /\ copies' = copies
    <3>1. <<"email", j>> \in Rows
      BY DEF Rows
    <3>2. copies[<<"email", j>>] > 0 /\ copies' = copies
      BY Zenon
    <3>3. copies[<<"email", j>>] \in {0, 1}
      BY <3>1 DEF Typed, OutboxTyped
    <3> HIDE DEF ClaimMail, Email!Claim
    <3> QED BY <3>2, <3>3
  <2> HIDE DEF ClaimMail
  <2>2. delivery'[j] = "sending" /\ address'[j] = a
    BY DEF Typed, MailTyped
  <2>3. \A i \in Jobs \ {j} : /\ delivery'[i] = delivery[i]
                              /\ address'[i] = address[i]
    BY DEF Typed, MailTyped
  <2> HIDE DEF Email!Claim
  <2> QED BY <2>1, <2>2, <2>3, ResultAssumption DEF Claimed, Frozen
<1>3. Held'
  BY DEF Held, Typed, MailTyped
<1>4. Sent'
  BY DEF Sent, Typed, MailTyped
<1> QED BY <1>1, <1>2, <1>3, <1>4

LEMMA SmtpStep ==
  ASSUME IInv, NEW j \in Jobs, Smtp(j) PROVE IInv'
<1> USE DEF IInv, Smtp, Email!Mail, jobVars, outboxVars, worldVars
<1>1. Typed'
  BY DEF Typed, JobTyped, OutboxTyped, MailTyped, Letters
<1>2. Announced' /\ Streamed' /\ Ordered' /\ Claimed' /\ Held'
  BY DEF Announced, Streamed, Ordered, Claimed, Held
<1>3. Sent'
  BY DEF Sent, Held, Typed, MailTyped
<1> QED BY <1>1, <1>2, <1>3

LEMMA ReportStep ==
  ASSUME IInv, NEW j \in Jobs, ReportMail(j) PROVE IInv'
<1> USE DEF IInv, ReportMail, Email!Report, jobVars, outboxVars
<1>1. Typed' /\ Announced' /\ Streamed' /\ Ordered'
  BY DEF Typed, JobTyped, OutboxTyped, MailTyped, MailStates, Announced,
         Streamed, Ordered
<1>2. Claimed' /\ Held'
  BY DEF Claimed, Held, Frozen, Typed, MailTyped
<1>3. Sent'
  BY DEF Sent, Typed, MailTyped
<1> QED BY <1>1, <1>2, <1>3

\* A worker that dies, and a change of access, touch no row.
LEMMA WorldStep ==
  ASSUME IInv, UNCHANGED <<jobVars, outboxVars, mailVars>>,
         leave' \subseteq leave
  PROVE  IInv'
<1> USE DEF IInv, jobVars, outboxVars, mailVars
<1>1. Typed' /\ Announced' /\ Streamed' /\ Ordered'
  BY DEF Typed, JobTyped, OutboxTyped, MailTyped, Announced, Streamed, Ordered
<1>2. Claimed' /\ Held' /\ Sent'
  BY DEF Claimed, Held, Sent
<1> QED BY <1>1, <1>2

LEMMA NextIInv == IInv /\ [Next]_vars => IInv'
<1> SUFFICES ASSUME IInv, [Next]_vars PROVE IInv'
  OBVIOUS
<1>1. ASSUME NEW j \in Jobs, WorkerDies(j) \/ ChangeAccess(j) PROVE IInv'
  BY <1>1, WorldStep DEF WorkerDies, ChangeAccess
<1>2. CASE UNCHANGED vars
  BY <1>2, WorldStep DEF vars, worldVars
<1> QED BY <1>1, <1>2, CreateStep, ClaimStep, CompleteStep, PublishStep,
           ClaimMailStep, SmtpStep, ReportStep
        DEF Next

(* The contracts hang together in every reachable state. *)
THEOREM Invariant == Spec => []IInv
  BY InitIInv, NextIInv, PTL DEF Spec

(* No worker hears of anything that is not committed. *)
THEOREM NothingAnnouncedEarly == Spec => []AnnouncedIsCommitted
<1>1. IInv => AnnouncedIsCommitted
  BY RowFacts DEF IInv, Announced, Streamed, AnnouncedIsCommitted
<1> QED BY <1>1, Invariant, PTL

(* A job leads to one mail at most, after its completion was published. *)
THEOREM OneMailPerJob == Spec => []MailIsEarned
<1>1. IInv => MailIsEarned
  BY DEF IInv, Typed, MailTyped, Ordered, Claimed, Sent, Frozen, MailIsEarned
<1> QED BY <1>1, Invariant, PTL
=============================================================================
