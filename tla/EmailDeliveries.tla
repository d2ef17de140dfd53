--------------------------- MODULE EmailDeliveries ---------------------------
(***************************************************************************)
(* E-mail deliveries (services/email_deliveries.py and its routes): the    *)
(* e-mail worker claims a delivery, which freezes the recipient's address, *)
(* talks SMTP, and reports the delivery sent or failed.  Each call is one  *)
(* transaction under READ COMMITTED; calls and changes of the recipient    *)
(* interleave between its statements.  now() is the start of a transaction.*)
(*                                                                         *)
(* Outside src/: the worker, which mails only after a successful claim and *)
(* reports what SMTP answered, and whoever edits users and memberships.    *)
(***************************************************************************)
EXTENDS Integers, Sequences

CONSTANTS Calls,        \* concurrent calls of e-mail workers
          Deliveries,
          Users,
          RecipientOf,  \* recipient_user_id of a delivery
          Emails,       \* addresses a user may have
          MaxTime,      \* bound: clock
          MaxFaults,    \* bound: failed statements, lost answers, crashes
          Writer,       \* who edits users and memberships
          Revoked, NoEmail, NoTime, NoDelivery, Free

ASSUME RecipientAssumption == RecipientOf \in [Deliveries -> Users]
ASSUME TimeAssumption == MaxTime \in Nat /\ MaxFaults \in Nat
ASSUME ValueAssumption == /\ {Revoked, NoEmail} \cap Emails = {}
                          /\ NoTime \notin Nat
                          /\ NoDelivery \notin Deliveries
                          /\ {Free, Writer} \cap Calls = {}

VARIABLES
  status, snapshot, attempted, sent,  \* columns of email_deliveries
  recipient,    \* address of an active user with a membership, or Revoked
  rowLock,      \* FOR UPDATE on a delivery
  share,        \* FOR SHARE on a user and the membership, by calls, or the
                \* exclusive lock of the Writer
  now,
  pc, op, target, began,              \* a call and its transaction's now()
  copy,         \* the row as the call has it in memory
  answer,       \* the last answer of each call
  mailed,       \* addresses SMTP accepted the delivery for
  outcome,      \* what the worker knows of SMTP
  disciplined,  \* whether the workers report only what SMTP answered
  faults

deliveryVars == <<status, snapshot, attempted, sent>>
lockVars     == <<rowLock, share>>
callVars     == <<op, target, began>>
worldVars    == <<recipient, mailed, outcome, disciplined>>
vars == <<deliveryVars, lockVars, callVars, worldVars, now, pc, copy, answer,
          faults>>

Ops    == {"get", "claim", "sent", "failed"}
Times  == 0..MaxTime
States == {"absent", "pending", "sending", "sent", "failed"}
Copies == [status : States, email : Emails \cup {NoEmail}]
Holders == (SUBSET Calls) \cup {{Writer}}
Kinds  == {"none", "ok", "missing", "conflict", "error"}
Blank  == [status |-> "absent", email |-> NoEmail]

Init == /\ status = [d \in Deliveries |-> "absent"]
        /\ snapshot = [d \in Deliveries |-> NoEmail]
        /\ attempted = [d \in Deliveries |-> NoTime]
        /\ sent = [d \in Deliveries |-> NoTime]
        /\ recipient \in [Users -> Emails]
        /\ rowLock = [d \in Deliveries |-> Free]
        /\ share = [u \in Users |-> {}]
        /\ now = 0
        /\ pc = [c \in Calls |-> "idle"]
        /\ op = [c \in Calls |-> "get"]
        /\ target = [c \in Calls |-> NoDelivery]
        /\ began = [c \in Calls |-> 0]
        /\ copy = [c \in Calls |-> Blank]
        /\ answer = [c \in Calls |-> "none"]
        /\ mailed = [d \in Deliveries |-> <<>>]
        /\ outcome = [d \in Deliveries |-> "none"]
        /\ disciplined \in BOOLEAN
        /\ faults = 0

------------------------------------------------------------------------------
Fault == faults < MaxFaults /\ faults' = faults + 1
Goto(c, label) == pc' = [pc EXCEPT ![c] = label]

Recipient(c) == RecipientOf[target[c]]
Row(c) == [status |-> status[target[c]], email |-> snapshot[target[c]]]

Unlock(c) == /\ rowLock' = [d \in Deliveries |->
                              IF rowLock[d] = c THEN Free ELSE rowLock[d]]
             /\ share' = [u \in Users |-> share[u] \ {c}]

\* Nothing is left of a call.
Forget(c) == /\ Goto(c, "idle")
             /\ op' = [op EXCEPT ![c] = "get"]
             /\ target' = [target EXCEPT ![c] = NoDelivery]
             /\ began' = [began EXCEPT ![c] = 0]
             /\ copy' = [copy EXCEPT ![c] = Blank]

\* Mutant: the session is not closed, its transaction stays open.
ReplyUnclosed(c, kind) == /\ Forget(c)
                          /\ answer' = [answer EXCEPT ![c] = kind]
                          /\ UNCHANGED lockVars

\* The transaction is over, and the call with it.
Reply(c, kind) == /\ Unlock(c)
                  /\ Forget(c)
                  /\ answer' = [answer EXCEPT ![c] = kind]

------------------------------------------------------------------------------
(* create_email_delivery, inside the transaction that completes a job *)

Create(d) == /\ status[d] = "absent"
             /\ recipient[RecipientOf[d]] # Revoked
             /\ Writer \notin share[RecipientOf[d]]
             /\ status' = [status EXCEPT ![d] = "pending"]
             /\ UNCHANGED <<snapshot, attempted, sent, lockVars, callVars,
                            worldVars, now, pc, copy, answer, faults>>

------------------------------------------------------------------------------
(* The calls *)

\* A request arrives and its transaction begins.
Begin(c, o, d) == /\ pc[c] = "idle"
                  /\ o \in {"sent", "failed"} /\ disciplined => outcome[d] = o
                  /\ Goto(c, "row")
                  /\ op' = [op EXCEPT ![c] = o]
                  /\ target' = [target EXCEPT ![c] = d]
                  /\ began' = [began EXCEPT ![c] = now]
                  /\ answer' = [answer EXCEPT ![c] = "none"]
                  /\ UNCHANGED <<deliveryVars, lockVars, worldVars, now, copy,
                                 faults>>

\* Mutant: SELECT without FOR UPDATE.
LockRowNot(c) == UNCHANGED lockVars

LockRow(c) == rowLock' = [rowLock EXCEPT ![target[c]] = c]
                /\ UNCHANGED share

\* Mutant: FOR SHARE is forgotten.
ShareRecipientNot(c) == UNCHANGED lockVars

ShareRecipient(c) == /\ Writer \notin share[Recipient(c)]
                     /\ share' = [share EXCEPT ![Recipient(c)] = @ \cup {c}]
                     /\ UNCHANGED rowLock

\* Mutant: a revoked recipient is not noticed.
AvailableAlways(c) == TRUE

\* An active user with a membership.
Available(c) == recipient[Recipient(c)] # Revoked

\* Mutant: reported once more.
ReportableAgain(o) == {"sending", o}

\* The statuses a report leads out of.
Reportable(o) == {"sending"}

\* claim_email_delivery: only a pending delivery goes on to its recipient.
ClaimRow(c) ==
  /\ pc[c] = "row" /\ op[c] = "claim" /\ rowLock[target[c]] = Free
  /\ \/ /\ status[target[c]] = "pending"
        /\ LockRow(c)
        /\ Goto(c, "recipient")
        /\ UNCHANGED <<callVars, copy, answer>>
     \/ status[target[c]] = "absent" /\ Reply(c, "missing")
     \/ status[target[c]] \notin {"absent", "pending"} /\ Reply(c, "conflict")
  /\ UNCHANGED <<deliveryVars, worldVars, now, faults>>

\* _current_recipient(lock=True): an available recipient is waited for, and
\* read again, while somebody edits it.
ClaimRecipient(c) ==
  /\ pc[c] = "recipient" /\ op[c] = "claim"
  /\ \/ /\ Available(c)
        /\ ShareRecipient(c)
        /\ copy' = [copy EXCEPT ![c] = [status |-> "sending",
                                        email |-> recipient[Recipient(c)]]]
        /\ Goto(c, "commit")
        /\ UNCHANGED <<callVars, answer>>
     \/ ~Available(c) /\ Reply(c, "missing")
  /\ UNCHANGED <<deliveryVars, worldVars, now, faults>>

\* mark_email_delivery_sent and mark_email_delivery_failed: a repeated report
\* changes nothing, a sending delivery takes the new status.
ReportRow(c) ==
  /\ pc[c] = "row" /\ op[c] \in {"sent", "failed"}
  /\ rowLock[target[c]] = Free
  /\ \/ /\ status[target[c]] = op[c]
        /\ copy' = [copy EXCEPT ![c] = Row(c)]
        /\ Goto(c, "respond")
        /\ UNCHANGED <<lockVars, callVars, answer>>
     \/ /\ status[target[c]] \in Reportable(op[c])
        /\ copy' = [copy EXCEPT ![c] = [Row(c) EXCEPT !.status = op[c]]]
        /\ LockRow(c)
        /\ Goto(c, "commit")
        /\ UNCHANGED <<callVars, answer>>
     \/ status[target[c]] = "absent" /\ Reply(c, "missing")
     \/ /\ status[target[c]] \notin {"absent", op[c]} \cup Reportable(op[c])
        /\ Reply(c, "conflict")
  /\ UNCHANGED <<deliveryVars, worldVars, now, faults>>

\* Mutant: a report stamps the attempt too, and by the wall clock.
ApplyRestamped(c) == LET d == target[c] IN
  /\ status' = [status EXCEPT ![d] = copy[c].status]
  /\ snapshot' = [snapshot EXCEPT ![d] = copy[c].email]
  /\ attempted' = [attempted EXCEPT ![d] = now]
  /\ sent' = [sent EXCEPT ![d] = IF op[c] = "sent" THEN began[c] ELSE NoTime]

\* The write of each operation; now() is began[c].
Apply(c) == LET d == target[c] IN
  /\ status' = [status EXCEPT ![d] = copy[c].status]
  /\ IF op[c] = "claim"
     THEN /\ snapshot' = [snapshot EXCEPT ![d] = copy[c].email]
          /\ attempted' = [attempted EXCEPT ![d] = began[c]]
          /\ UNCHANGED sent
     ELSE /\ sent' = [sent EXCEPT ![d] = IF op[c] = "sent" THEN began[c]
                                                           ELSE NoTime]
          /\ UNCHANGED <<snapshot, attempted>>

Commit(c) == /\ pc[c] = "commit"
             /\ Apply(c)
             /\ Unlock(c)
             /\ Goto(c, "respond")
             /\ UNCHANGED <<callVars, worldVars, now, copy, answer, faults>>

\* Applied, but the acknowledgement is lost.
CommitAckLost(c) == /\ pc[c] = "commit"
                    /\ Fault
                    /\ Apply(c)
                    /\ Reply(c, "error")
                    /\ UNCHANGED <<worldVars, now>>

\* get_authoritative_delivery reads without a lock, the row first ...
GetRow(c) ==
  /\ pc[c] = "row" /\ op[c] = "get"
  /\ \/ /\ status[target[c]] # "absent"
        /\ copy' = [copy EXCEPT ![c] = Row(c)]
        /\ Goto(c, IF status[target[c]] = "pending" THEN "recipient"
                                                    ELSE "respond")
        /\ UNCHANGED <<lockVars, callVars, answer>>
     \/ status[target[c]] = "absent" /\ Reply(c, "missing")
  /\ UNCHANGED <<deliveryVars, worldVars, now, faults>>

\* ... then, for a pending one, the recipient.
GetRecipient(c) ==
  /\ pc[c] = "recipient" /\ op[c] = "get"
  /\ \/ /\ Available(c)
        /\ copy' = [copy EXCEPT ![c].email = recipient[Recipient(c)]]
        /\ Goto(c, "respond")
        /\ UNCHANGED <<lockVars, callVars, answer>>
     \/ ~Available(c) /\ Reply(c, "missing")
  /\ UNCHANGED <<deliveryVars, worldVars, now, faults>>

\* _frozen_authority reads now() once more, then the answer reaches the
\* worker; an answered claim is its leave to mail.
Respond(c) == /\ pc[c] = "respond"
              /\ answer' = [answer EXCEPT ![c] = "ok"]
              /\ IF op[c] = "claim"
                 THEN Goto(c, "mailing") /\ UNCHANGED <<callVars, copy>>
                 ELSE Forget(c)
              /\ UNCHANGED <<deliveryVars, lockVars, worldVars, now, faults>>

\* A statement, the commit or the way back fails; what is not committed is
\* rolled back.
CallFails(c) == /\ pc[c] \in {"row", "recipient", "commit", "respond"}
                /\ Fault
                /\ Reply(c, "error")
                /\ UNCHANGED <<deliveryVars, worldVars, now>>

------------------------------------------------------------------------------
(* The e-mail worker: external *)

Mail(c) == mailed' = [mailed EXCEPT ![target[c]] = Append(@, copy[c].email)]

Dismiss(c) == /\ Forget(c)
              /\ UNCHANGED <<deliveryVars, lockVars, recipient, disciplined, now,
                             answer>>

SmtpAccepts(c) == /\ pc[c] = "mailing"
                  /\ Mail(c)
                  /\ outcome' = [outcome EXCEPT ![target[c]] = "sent"]
                  /\ Dismiss(c)
                  /\ UNCHANGED faults

SmtpRefuses(c) == /\ pc[c] = "mailing"
                  /\ outcome' = [outcome EXCEPT ![target[c]] = "failed"]
                  /\ Dismiss(c)
                  /\ UNCHANGED <<mailed, faults>>

\* The worker dies before, during or after the SMTP dialogue and does not
\* know which.
WorkerCrashes(c) == /\ pc[c] = "mailing"
                    /\ Fault
                    /\ Mail(c) \/ UNCHANGED mailed
                    /\ Dismiss(c)
                    /\ UNCHANGED outcome

------------------------------------------------------------------------------
(* Users and memberships, and the clock: external *)

EditRecipient(u) == /\ share[u] = {}
                    /\ share' = [share EXCEPT ![u] = {Writer}]
                    /\ UNCHANGED <<deliveryVars, rowLock, callVars, worldVars,
                                   now, pc, copy, answer, faults>>

\* The commit of the edit; its rollback leaves the recipient as it was.
ChangeRecipient(u) == /\ share[u] = {Writer}
                      /\ share' = [share EXCEPT ![u] = {}]
                      /\ \E r \in Emails \cup {Revoked} :
                           recipient' = [recipient EXCEPT ![u] = r]
                      /\ UNCHANGED <<deliveryVars, rowLock, callVars, mailed,
                                     outcome, disciplined, now, pc, copy,
                                     answer, faults>>

Tick == /\ now < MaxTime
        /\ now' = now + 1
        /\ UNCHANGED <<deliveryVars, lockVars, callVars, worldVars, pc, copy,
                       answer, faults>>

------------------------------------------------------------------------------
Serve(c) == Commit(c) \/ GetRow(c) \/ GetRecipient(c) \/ Respond(c)
Lock(c)  == ClaimRow(c) \/ ReportRow(c) \/ ClaimRecipient(c)

Next == \/ \E d \in Deliveries : \/ Create(d)
                                 \/ \E c \in Calls, o \in Ops : Begin(c, o, d)
        \/ \E c \in Calls : \/ Serve(c) \/ Lock(c)
                            \/ CommitAckLost(c) \/ CallFails(c)
                            \/ SmtpAccepts(c) \/ SmtpRefuses(c)
                            \/ WorkerCrashes(c)
        \/ \E u \in Users : EditRecipient(u) \/ ChangeRecipient(u)
        \/ Tick

Spec == Init /\ [][Next]_vars

\* The server runs every request it accepted; PostgreSQL grants a row lock
\* to its waiters in turn; an edit of a user ends.
FairSpec == /\ Spec
            /\ \A c \in Calls : WF_vars(Serve(c)) /\ SF_vars(Lock(c))
            /\ \A u \in Users : WF_vars(ChangeRecipient(u))

------------------------------------------------------------------------------
(* Properties *)

\* ck_email_deliveries_delivery_state, with the times that go with it.
DeliveryState ==
  \A d \in Deliveries :
    /\ snapshot[d] = NoEmail <=> status[d] \in {"absent", "pending"}
    /\ attempted[d] = NoTime <=> status[d] \in {"absent", "pending"}
    /\ sent[d] # NoTime <=> status[d] = "sent"

\* Every variable keeps its type, and no order of calls, contradictory reports
\* included, leaves a row the database would refuse.
TypeOK ==
  /\ status \in [Deliveries -> States]
  /\ snapshot \in [Deliveries -> Emails \cup {NoEmail}]
  /\ attempted \in [Deliveries -> Times \cup {NoTime}]
  /\ sent \in [Deliveries -> Times \cup {NoTime}]
  /\ recipient \in [Users -> Emails \cup {Revoked}]
  /\ rowLock \in [Deliveries -> Calls \cup {Free}]
  /\ share \in [Users -> Holders]
  /\ now \in Times
  /\ pc \in [Calls -> {"idle", "row", "recipient", "commit", "respond",
                       "mailing"}]
  /\ op \in [Calls -> Ops]
  /\ target \in [Calls -> Deliveries \cup {NoDelivery}]
  /\ began \in [Calls -> Times]
  /\ copy \in [Calls -> Copies]
  /\ answer \in [Calls -> Kinds]
  /\ mailed \in [Deliveries -> Seq(Emails)]
  /\ outcome \in [Deliveries -> {"none", "sent", "failed"}]
  /\ disciplined \in BOOLEAN
  /\ faults \in 0..MaxFaults
  /\ DeliveryState

\* However many workers are told of a delivery, however often they call and
\* whatever answers are lost, at most one of them mails it.
AtMostOneMail == \A d \in Deliveries : Len(mailed[d]) <= 1

\* sent_at, the start of one transaction, is never before attempted_at, the
\* start of another, if workers report only what SMTP answered them.
SentNotBeforeAttempt ==
  disciplined =>
    \A d \in Deliveries : sent[d] # NoTime => attempted[d] <= sent[d]

\* A claim commits an address its user has at that moment: the share lock
\* keeps a revocation out between the check and the commit.
ClaimIsAuthorized ==
  [][\A d \in Deliveries : snapshot'[d] # snapshot[d] =>
       snapshot'[d] = recipient[RecipientOf[d]]]_vars

\* What a claim froze stays; a sent or failed delivery never changes again,
\* not even its sent_at.
FrozenIsFinal ==
  [][\A d \in Deliveries :
       /\ snapshot[d] # NoEmail => /\ snapshot'[d] = snapshot[d]
                                   /\ attempted'[d] = attempted[d]
       /\ status[d] \in {"sent", "failed"} => /\ status'[d] = status[d]
                                              /\ sent'[d] = sent[d]]_vars

\* Every call is answered.  It may wait for the delivery while a claim holds
\* it, and that claim for the end of an edit of the recipient, which waits for
\* no delivery.
EveryCallAnswered ==
  \A c \in Calls : []<>(pc[c] \in {"idle", "mailing"})

\* Concurrent calls, lost answers and dying workers amount to one claim, one
\* mail to the address it froze, and one report.
Contract == INSTANCE EmailContract WITH state <- status, address <- snapshot
ContractSpec == Contract!Spec
=============================================================================
