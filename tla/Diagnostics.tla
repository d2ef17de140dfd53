----------------------------- MODULE Diagnostics -----------------------------
(***************************************************************************)
(* Diagnostic jobs (services/diagnostics.py and its routes).  Clients      *)
(* create and read jobs, workers claim and complete them and read back     *)
(* their scope after a lost answer.  Completion writes the job, its event, *)
(* an e-mail delivery and the delivery's event in one transaction.         *)
(*                                                                         *)
(* The unique constraints on outbox rows and deliveries are left out: that *)
(* counts stay at one shows that the locks alone keep them.                *)
(*                                                                         *)
(* Outside src/: the worker; a disciplined one claims, completes, and asks *)
(* for the scope whenever it does not know where it stands.                *)
(***************************************************************************)
EXTENDS TenantCalls

CONSTANTS Results, NoResult,
          Disciplined  \* the workers that follow the recovery protocol

ASSUME ResultAssumption == NoResult \notin Results /\ Disciplined \subseteq Workers

VARIABLES
  status, scope, result,  \* columns of diagnostic_jobs
  events, mails,          \* outbox rows and e-mail deliveries per job
  given,                  \* the result a worker passes
  seen                    \* the status a worker was shown

jobVars == <<status, scope, result, events, mails>>
workVars == <<given, seen>>
vars == <<callVars, jobVars, workVars>>

States == {"absent", "pending", "claimed", "completed"}
Types  == {"requested", "completed", "email"}
Labels == {"idle", "user", "membership", "create", "get", "scope", "claim",
           "complete", "recipient", "commit", "respond"}
Ops    == {"create", "get", "scope", "claim", "complete"}

Init == /\ CallInit
        /\ status = [j \in Jobs |-> "absent"]
        /\ scope = [j \in Jobs |-> NoScope]
        /\ result = [j \in Jobs |-> NoResult]
        /\ events = [t \in Types |-> [j \in Jobs |-> 0]]
        /\ mails = [j \in Jobs |-> 0]
        /\ given = [c \in Calls |-> NoResult]
        /\ seen = [c \in Calls |-> "absent"]

------------------------------------------------------------------------------
(* Requests *)

\* The identifier of a new row is fresh (uuid4).
Fresh(j) == /\ status[j] = "absent"
            /\ \A c \in Clients : pc[c] # "idle" /\ op[c] = "create" =>
                                    target[c] # j

Ask(c, o, s, j) == /\ o = "create" => Fresh(j)
                   /\ Arrive(c, "user", o, j)
                   /\ asserted' = [asserted EXCEPT ![c] = s]
                   /\ UNCHANGED <<jobVars, workVars>>

\* What a disciplined worker calls next; nothing after a completion.
Expected(c) ==
  CASE answer[c] = "none" \/ (op[c] = "scope" /\ answer[c] = "conflict")
         -> {"claim"}
    [] answer[c] = "ok" -> IF seen[c] = "claimed" THEN {"complete"} ELSE {}
    [] OTHER -> {"scope"}

\* A worker hears of a job by its event and stays with it.
Call(c, o, j, r) ==
  /\ target[c] \in {NoJob, j}
  /\ c \in Disciplined => status[j] # "absent" /\ o \in Expected(c)
  /\ Arrive(c, o, o, j)
  /\ given' = [given EXCEPT ![c] = IF o = "complete" THEN r ELSE NoResult]
  /\ UNCHANGED <<jobVars, asserted, seen>>

------------------------------------------------------------------------------
(* Statements *)

Memo(c, state) == seen' = [seen EXCEPT ![c] = state]

\* create_diagnostic: the flush of the job and its event.
CreateRow(c) == /\ pc[c] = "create"
                /\ Goto(c, "commit")
                /\ UNCHANGED <<accessVars, lockVars, requestVars, answer, faults,
                               jobVars, workVars>>

\* get_diagnostic: only a job of the caller's organization is found.
GetRow(c) ==
  /\ pc[c] = "get"
  /\ IF /\ status[target[c]] # "absent"
        /\ scope[target[c]][2] = asserted[c][2]
     THEN Goto(c, "respond") /\ UNCHANGED <<lockVars, answer>>
     ELSE Reply(c, "missing")
  /\ UNCHANGED <<accessVars, requestVars, faults, jobVars, workVars>>

\* Mutant: only completed work is shown.
ShownCompleted == {"completed"}

\* What get_worker_scope shows
Shown == {"claimed", "completed"}

\* get_worker_scope
ScopeRow(c) ==
  /\ pc[c] = "scope"
  /\ \/ /\ status[target[c]] \in Shown
        /\ Memo(c, status[target[c]])
        /\ Goto(c, "respond")
        /\ UNCHANGED <<lockVars, answer>>
     \/ /\ status[target[c]] \notin Shown
        /\ Reply(c, IF status[target[c]] = "absent" THEN "missing"
                                                    ELSE "conflict")
        /\ UNCHANGED seen
  /\ UNCHANGED <<accessVars, requestVars, faults, jobVars, given>>

\* The job under FOR UPDATE, if it has a wanted status.
SelectJob(c, wanted, label, becomes) ==
  /\ jobLock[target[c]] = Free
  /\ IF status[target[c]] \in wanted
     THEN LockJob(c) /\ Goto(c, label) /\ Memo(c, becomes) /\ UNCHANGED answer
     ELSE /\ Reply(c, IF status[target[c]] = "absent" THEN "missing"
                                                      ELSE "conflict")
          /\ UNCHANGED seen
  /\ UNCHANGED <<accessVars, requestVars, faults, jobVars, given>>

\* Mutants: a job is completed again; or without a claim.
CompletableAgain == {"claimed", "completed"}
CompletableEarly == {"pending", "claimed"}

Completable == {"claimed"}

ClaimRow(c)    == pc[c] = "claim"
                    /\ SelectJob(c, {"pending"}, "commit", "claimed")
CompleteRow(c) == pc[c] = "complete"
                    /\ SelectJob(c, Completable, "recipient", "completed")

\* create_email_delivery inside complete_diagnostic: without an authorized
\* recipient everything is rolled back.
CompleteRecipient(c) ==
  /\ pc[c] = "recipient"
  /\ IF Authorized(scope[target[c]])
     THEN /\ ShareRequester(c, scope[target[c]])
          /\ Goto(c, "commit")
          /\ UNCHANGED answer
     ELSE Reply(c, "conflict")
  /\ UNCHANGED <<accessVars, requestVars, faults, jobVars, workVars>>

Apply(c) == LET j == target[c] IN
  \/ /\ op[c] = "create"
     /\ status' = [status EXCEPT ![j] = "pending"]
     /\ scope' = [scope EXCEPT ![j] = asserted[c]]
     /\ events' = [events EXCEPT !["requested"][j] = @ + 1]
     /\ UNCHANGED <<result, mails>>
  \/ /\ op[c] = "claim"
     /\ status' = [status EXCEPT ![j] = "claimed"]
     /\ UNCHANGED <<scope, result, events, mails>>
  \/ /\ op[c] = "complete"
     /\ status' = [status EXCEPT ![j] = "completed"]
     /\ result' = [result EXCEPT ![j] = given[c]]
     /\ events' = [events EXCEPT !["completed"][j] = @ + 1, !["email"][j] = @ + 1]
     /\ mails' = [mails EXCEPT ![j] = @ + 1]
     /\ UNCHANGED scope

Commit(c) == /\ pc[c] = "commit"
             /\ Apply(c)
             /\ Unlock(c)
             /\ Goto(c, "respond")
             /\ UNCHANGED <<accessVars, requestVars, answer, faults, workVars>>

\* Applied, but the acknowledgement is lost.
CommitAckLost(c) == /\ pc[c] = "commit"
                    /\ Fault
                    /\ Apply(c)
                    /\ Reply(c, "error")
                    /\ UNCHANGED <<accessVars, requestVars, workVars>>

------------------------------------------------------------------------------
Serve(c) == \/ ContextUser(c) /\ UNCHANGED <<jobVars, workVars>>
            \/ ContextMembership(c) /\ UNCHANGED <<jobVars, workVars>>
            \/ Respond(c) /\ UNCHANGED <<jobVars, workVars>>
            \/ CreateRow(c) \/ GetRow(c) \/ ScopeRow(c)
            \/ CompleteRecipient(c) \/ Commit(c)
Lock(c) == ClaimRow(c) \/ CompleteRow(c)
Request(c) == \E j \in Jobs, r \in Results, o \in {"scope", "claim", "complete"} :
                Call(c, o, j, r)

Next == \/ \E c \in Clients, o \in {"create", "get"}, s \in Scopes, j \in Jobs :
             Ask(c, o, s, j)
        \/ \E c \in Workers : Request(c)
        \/ \E c \in Calls : \/ Serve(c) \/ Lock(c) \/ CommitAckLost(c)
                            \/ CallFails(c) /\ UNCHANGED <<jobVars, workVars>>
        \/ ChangeAccess /\ UNCHANGED <<jobVars, workVars>>

Spec == Init /\ [][Next]_vars

\* The server runs every request it accepted, PostgreSQL grants a row lock to
\* its waiters in turn, and a worker does not forget a job.
FairSpec == /\ Spec
            /\ \A c \in Calls : WF_vars(Serve(c)) /\ SF_vars(Lock(c))
            /\ \A c \in Disciplined : WF_vars(Request(c))

------------------------------------------------------------------------------
(* Properties *)

\* Every variable keeps its type; no second outbox row or delivery of a job is
\* ever inserted, with or without the unique constraints.
TypeOK ==
  /\ CallTypeOK(Labels, Ops)
  /\ status \in [Jobs -> States]
  /\ scope \in [Jobs -> Scopes \cup {NoScope}]
  /\ result \in [Jobs -> Results \cup {NoResult}]
  /\ events \in [Types -> [Jobs -> 0..1]]
  /\ mails \in [Jobs -> 0..1]
  /\ given \in [Calls -> Results \cup {NoResult}]
  /\ seen \in [Calls -> States]

\* A call answered ok did what it says, for good: of two workers that complete
\* a job only the one whose result is stored is told so.
AnswerIsDurable ==
  \A c \in Calls : answer[c] = "ok" =>
    CASE op[c] = "create"   -> /\ status[target[c]] # "absent"
                               /\ scope[target[c]] = asserted[c]
      [] op[c] = "claim"    -> status[target[c]] \in {"claimed", "completed"}
      [] op[c] = "complete" -> result[target[c]] = given[c]
      [] OTHER              -> TRUE

\* A job is completed, and its e-mail ordered, only while its requester has
\* access: a revocation comes before the check or after the commit.
CompletionIsAuthorized ==
  [][\A j \in Jobs : mails'[j] # mails[j] => Authorized(scope[j])]_vars

\* Calls, locks and lost answers amount to the job's contract: one claim, one
\* completion, and every write with its events and its delivery or not at all.
Contract == INSTANCE JobContract WITH state <- status
ContractSpec == Contract!Spec

\* A job is completed unless its requester loses access: scope brings a worker
\* that lost an answer back on its way.
JobsGetDone ==
  \A j \in Jobs : status[j] = "pending" ~>
    \/ status[j] = "completed"
    \/ scope[j] # NoScope /\ ~Authorized(scope[j])
=============================================================================
