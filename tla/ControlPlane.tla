---------------------------- MODULE ControlPlane ----------------------------
(***************************************************************************)
(* The control plane as a whole, composed of what its parts are shown to   *)
(* promise: JobContract (Diagnostics, Exports), OutboxDelivery             *)
(* (OutboxPublisher) and EmailContract (EmailDeliveries).  One transaction *)
(* of a service is one step of several contracts at once; everything else  *)
(* is coupled through the streams alone.                                   *)
(*                                                                         *)
(* Outside src/: the workers.  They act on an event that stands in its     *)
(* stream, any number of times, in any order.                              *)
(***************************************************************************)
EXTENDS Naturals

CONSTANTS Jobs, Results, NoResult,
          Emails, NoEmail,
          MaxLost  \* bound: e-mail workers lost while they hold a delivery

ASSUME ResultAssumption == Results # {} /\ Emails # {} /\ NoEmail \notin Emails
ASSUME LostAssumption == MaxLost \in Nat

VARIABLES
  state, result, events, mails,    \* JobContract
  requested, copies, confirmed,    \* OutboxDelivery
  delivery, address, mailed,       \* EmailContract; a job has one delivery
  access,  \* jobs whose requester has access
  leave,   \* deliveries whose claim was answered: the worker may mail
  lost

jobVars    == <<state, result, events, mails>>
outboxVars == <<requested, copies, confirmed>>
mailVars   == <<delivery, address, mailed>>
worldVars  == <<access, leave, lost>>
vars == <<jobVars, outboxVars, mailVars, worldVars>>

Rows == {"requested", "completed", "email"} \X Jobs

Job    == INSTANCE JobContract
Outbox == INSTANCE OutboxDelivery WITH Events <- Rows, Deliverable <- Rows
Email  == INSTANCE EmailContract WITH Deliveries <- Jobs, state <- delivery

Init == /\ Job!Init /\ Outbox!Init /\ Email!Init
        /\ access = Jobs
        /\ leave = {}
        /\ lost = 0

------------------------------------------------------------------------------
(* Transactions of the services, each with its outbox rows *)

\* Mutant: the job's event is written by a transaction that may not come.
CreateJobSilent(j) == /\ Job!Request(j)
                      /\ UNCHANGED <<outboxVars, mailVars, worldVars>>

CreateJob(j) == /\ Job!Request(j)
                /\ Outbox!Request({<<"requested", j>>})
                /\ UNCHANGED <<mailVars, worldVars>>

\* Mutant: the claim announces the completion already.
ClaimJobAnnouncing(j) ==
  /\ copies[<<"requested", j>>] > 0
  /\ Job!Claim(j)
  /\ Outbox!Request({<<"completed", j>>, <<"email", j>>})
  /\ UNCHANGED <<mailVars, worldVars>>

\* Mutant: the claim orders the e-mail already.
ClaimJobOrdering(j) ==
  /\ copies[<<"requested", j>>] > 0
  /\ Job!Claim(j)
  /\ Email!Create(j)
  /\ Outbox!Request({<<"email", j>>})
  /\ UNCHANGED <<address, mailed, worldVars>>

ClaimJob(j) == /\ copies[<<"requested", j>>] > 0
               /\ Job!Claim(j)
               /\ UNCHANGED <<outboxVars, mailVars, worldVars>>

\* Completion orders the e-mail, or does not happen.
CompleteJob(j) == /\ j \in access
                  /\ \E r \in Results : Job!Complete(j, r)
                  /\ Email!Create(j)
                  /\ Outbox!Request({<<"completed", j>>, <<"email", j>>})
                  /\ UNCHANGED <<address, mailed, worldVars>>

------------------------------------------------------------------------------
(* The publishers *)

Publish(e) == /\ Outbox!Send(e) \/ Outbox!Confirm(e)
              /\ UNCHANGED <<jobVars, mailVars, worldVars>>

------------------------------------------------------------------------------
(* The e-mail workers *)

\* A claim commits; its answer may be lost.
ClaimMail(j) == /\ copies[<<"email", j>>] > 0 /\ j \in access
                /\ \E a \in Emails : Email!Claim(j, a)
                /\ \/ leave' = leave \cup {j} /\ UNCHANGED lost
                   \/ /\ lost < MaxLost /\ lost' = lost + 1
                      /\ UNCHANGED leave
                /\ UNCHANGED <<jobVars, outboxVars, access>>

Smtp(j) == /\ j \in leave
           /\ Email!Mail(j)
           /\ UNCHANGED <<jobVars, outboxVars, worldVars>>

\* The worker reports what SMTP answered it.
ReportMail(j) == /\ j \in leave
                 /\ Email!Report(j, IF mailed[j] = <<>> THEN "failed"
                                                       ELSE "sent")
                 /\ leave' = leave \ {j}
                 /\ UNCHANGED <<jobVars, outboxVars, access, lost>>

WorkerDies(j) == /\ j \in leave
                 /\ lost < MaxLost /\ lost' = lost + 1
                 /\ leave' = leave \ {j}
                 /\ UNCHANGED <<jobVars, outboxVars, mailVars, access>>

\* The requester loses access, or gets it back.
ChangeAccess(j) == /\ access' = IF j \in access THEN access \ {j}
                                                ELSE access \cup {j}
                   /\ UNCHANGED <<jobVars, outboxVars, mailVars, leave, lost>>

------------------------------------------------------------------------------
Next == \/ \E j \in Jobs : \/ CreateJob(j) \/ ClaimJob(j) \/ CompleteJob(j)
                           \/ ClaimMail(j) \/ Smtp(j) \/ ReportMail(j)
                           \/ WorkerDies(j) \/ ChangeAccess(j)
        \/ \E e \in Rows : Publish(e)

Spec == Init /\ [][Next]_vars

\* Publishers publish (OutboxPublisher.EveryEventPublished), job workers end
\* what they claim (JobsGetDone, ExportsGetDone), and an e-mail worker that
\* was told of a delivery claims it and reports.
FairSpec == /\ Spec
            /\ \A e \in Rows : WF_vars(Publish(e))
            /\ \A j \in Jobs : /\ WF_vars(ClaimJob(j))
                               /\ WF_vars(CompleteJob(j))
                               /\ WF_vars(ClaimMail(j))
                               /\ WF_vars(ReportMail(j))

------------------------------------------------------------------------------
(* Properties *)

\* An event stands in a stream only once what it announces is committed: a
\* worker that acts on it finds the row it names.
AnnouncedIsCommitted ==
  \A j \in Jobs :
    /\ copies[<<"requested", j>>] > 0 => state[j] # "absent"
    /\ copies[<<"completed", j>>] > 0 => state[j] = "completed"
    /\ copies[<<"email", j>>] > 0 => delivery[j] # "absent"

\* Whatever is redelivered, lost or revoked, a job leads to one mail at most,
\* to the address a claim froze, and only after the job was completed and its
\* e-mail event published.
MailIsEarned ==
  \A j \in Jobs : mailed[j] # <<>> =>
    /\ mailed[j] = <<address[j]>> /\ address[j] \in Emails
    /\ state[j] = "completed"
    /\ copies[<<"email", j>>] = 1
    /\ delivery[j] \in {"sending", "sent"}

\* A job that was accepted ends in a mail or a refusal of SMTP, unless its
\* requester loses access or the worker that claimed the delivery is lost.
EveryJobEnds ==
  \A j \in Jobs : state[j] = "pending" ~>
    \/ delivery[j] \in {"sent", "failed"}
    \/ j \notin access
    \/ delivery[j] = "sending" /\ j \notin leave
=============================================================================
