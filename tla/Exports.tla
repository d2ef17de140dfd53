------------------------------- MODULE Exports -------------------------------
(***************************************************************************)
(* Export jobs (services/exports.py and its routes).  Creation freezes the *)
(* organization's diagnostics in a snapshot; a worker claims the job,      *)
(* reads the snapshot page by page, stores an object and completes the job *)
(* with its key.  Diagnostics go on meanwhile, as JobContract allows.      *)
(*                                                                         *)
(* The unique constraints on outbox rows and deliveries are left out: that *)
(* counts stay at one shows that the locks alone keep them.                *)
(*                                                                         *)
(* Outside src/: the worker; a disciplined one names the snapshot and key  *)
(* it was given, reads pages until a short one, and asks for the job       *)
(* whenever it does not know where it stands.                              *)
(***************************************************************************)
EXTENDS TenantCalls, Sequences

CONSTANTS Diags, DiagResults, NoResult,
          OrgOf,        \* the organization of a diagnostic
          Rank,         \* the order of (created_at, id), not that of commits
          PageSize,
          Stray,        \* the snapshot or key of no job
          NoArtifact,
          Disciplined   \* the workers that follow the recovery protocol

ASSUME DiagAssumption == /\ IsFiniteSet(Diags) /\ OrgOf \in [Diags -> Orgs]
                         /\ NoResult \notin DiagResults
ASSUME RankAssumption == /\ Rank \in [Diags -> Nat]
                         /\ \A d, e \in Diags : Rank[d] = Rank[e] => d = e
ASSUME PageAssumption == PageSize \in Nat \ {0} /\ Stray \notin Jobs
ASSUME ProtocolAssumption == Disciplined \subseteq Workers

VARIABLES
  status, scope, snapshot,  \* columns of export_jobs, and its snapshot rows
  artifact,                 \* object_key, and the object it stands for
  events, mails,            \* outbox rows and e-mail deliveries per job
  dstate, dresult, devents, dmails,  \* the diagnostics
  draft,                    \* snapshot rows of an open transaction
  earlier,                  \* diagnostics that were there when a client asked
  named,                    \* snapshot and key a worker passes
  read,                     \* rows a worker has
  more, seen                \* what a disciplined worker goes by: whether there
                            \* may be more rows, and the status it was shown

jobVars  == <<status, scope, snapshot, artifact, events, mails>>
diagVars == <<dstate, dresult, devents, dmails>>
workVars == <<draft, earlier, named, read, more, seen>>
vars == <<callVars, jobVars, diagVars, workVars>>

States == {"absent", "pending", "claimed", "completed"}
Types  == {"requested", "completed", "email"}
Labels == {"idle", "user", "membership", "create", "get", "recover", "claim",
           "page", "complete", "recipient", "commit", "respond"}
Ops    == {"create", "get", "recover", "claim", "page", "complete"}
Names  == (Jobs \cup {Stray}) \X (Jobs \cup {Stray})
Items  == [id : Diags, state : States \ {"absent"},
           result : DiagResults \cup {NoResult}]
Objects == UNION {[1..n -> Items] : n \in 0..Cardinality(Diags)}

Init == /\ CallInit
        /\ status = [j \in Jobs |-> "absent"]
        /\ scope = [j \in Jobs |-> NoScope]
        /\ snapshot = [j \in Jobs |-> <<>>]
        /\ artifact = [j \in Jobs |-> NoArtifact]
        /\ events = [t \in Types |-> [j \in Jobs |-> 0]]
        /\ mails = [j \in Jobs |-> 0]
        /\ dstate = [d \in Diags |-> "absent"]
        /\ dresult = [d \in Diags |-> NoResult]
        /\ devents = [t \in Types |-> [d \in Diags |-> 0]]
        /\ dmails = [d \in Diags |-> 0]
        /\ draft = [c \in Calls |-> <<>>]
        /\ earlier = [c \in Calls |-> {}]
        /\ named = [c \in Calls |-> <<Stray, Stray>>]
        /\ read = [c \in Calls |-> <<>>]
        /\ more = [c \in Calls |-> TRUE]
        /\ seen = [c \in Calls |-> "absent"]

------------------------------------------------------------------------------
(* Requests *)

History(o) == {d \in Diags : dstate[d] # "absent" /\ OrgOf[d] = o}

\* The identifier of a new row is fresh (uuid4).
Fresh(j) == /\ status[j] = "absent"
            /\ \A c \in Clients : pc[c] # "idle" /\ op[c] = "create" =>
                                    target[c] # j

Ask(c, o, s, j) ==
  /\ o = "create" => Fresh(j)
  /\ Arrive(c, "user", o, j)
  /\ asserted' = [asserted EXCEPT ![c] = s]
  /\ earlier' = [earlier EXCEPT ![c] = IF o = "create" THEN History(s[2]) ELSE {}]
  /\ UNCHANGED <<jobVars, diagVars, draft, named, read, more, seen>>

\* What a disciplined worker calls next; nothing after a completion.
Expected(c) ==
  CASE answer[c] = "none" \/ (op[c] = "recover" /\ answer[c] = "conflict")
         -> {"claim"}
    [] answer[c] = "ok" -> IF seen[c] # "claimed" THEN {}
                           ELSE IF more[c] THEN {"page"} ELSE {"complete"}
    [] OTHER -> {"recover"}

\* A worker hears of a job by its event and stays with it.  Only a request for
\* a page or a completion names a snapshot, and only the latter a key, which
\* matters if the snapshot is the job's.
Call(c, o, j, n) ==
  /\ target[c] \in {NoJob, j}
  /\ o # "complete" \/ n[1] # j => n[2] = n[1]
  /\ o \notin {"page", "complete"} => n[1] = j
  /\ c \in Disciplined => /\ status[j] # "absent"
                         /\ o \in Expected(c)
                         /\ n = <<j, j>>
  /\ Arrive(c, o, o, j)
  /\ named' = [named EXCEPT ![c] = CASE o = "complete" -> n
                                     [] o = "page" -> <<n[1], Stray>>
                                     [] OTHER -> <<Stray, Stray>>]
  /\ UNCHANGED <<jobVars, diagVars, asserted, draft, earlier, read, more, seen>>

------------------------------------------------------------------------------
(* Statements *)

Memo(c, state) == seen' = IF c \in Disciplined THEN [seen EXCEPT ![c] = state]
                                            ELSE seen

\* INSERT ... SELECT of the diagnostics committed by now, numbered in order
Item(d) == [id |-> d, state |-> dstate[d], result |-> dresult[d]]

\* Mutants: without the filter on the organization; only with a result.
FrozenAllTenants(o) == {d \in Diags : dstate[d] # "absent"}
FrozenCompleted(o)  == {d \in History(o) : dstate[d] = "completed"}

Frozen(o) == History(o)

\* row_number() over (created_at, id)
Position(o, d) == Cardinality({e \in Frozen(o) : Rank[e] <= Rank[d]})

SnapshotRows(o) == [i \in 1..Cardinality(Frozen(o)) |->
                      Item(CHOOSE d \in Frozen(o) : Position(o, d) = i)]

CreateRows(c) ==
  /\ pc[c] = "create"
  /\ draft' = [draft EXCEPT ![c] = SnapshotRows(asserted[c][2])]
  /\ Goto(c, "commit")
  /\ UNCHANGED <<accessVars, lockVars, requestVars, answer, faults, jobVars,
                 diagVars, earlier, named, read, more, seen>>

\* Mutant: looked up by the job's identifier alone.
FoundAnyTenant(c) == status[target[c]] # "absent"

Found(c) == /\ status[target[c]] # "absent"
            /\ scope[target[c]][2] = asserted[c][2]

\* get_export, for the job and for its download
GetRow(c) ==
  /\ pc[c] = "get"
  /\ IF Found(c)
     THEN Goto(c, "respond") /\ UNCHANGED <<lockVars, answer>>
     ELSE Reply(c, "missing")
  /\ UNCHANGED <<accessVars, requestVars, faults, jobVars, diagVars, workVars>>

\* Mutant: only completed work is shown.
ShownCompleted == {"completed"}

\* What get_worker_export shows
Shown == {"claimed", "completed"}

\* get_worker_export
RecoverRow(c) ==
  /\ pc[c] = "recover"
  /\ \/ /\ status[target[c]] \in Shown
        /\ Memo(c, status[target[c]])
        /\ Goto(c, "respond")
        /\ UNCHANGED <<lockVars, answer>>
     \/ /\ status[target[c]] \notin Shown
        /\ Reply(c, IF status[target[c]] = "absent" THEN "missing"
                                                    ELSE "conflict")
        /\ UNCHANGED seen
  /\ UNCHANGED <<accessVars, requestVars, faults, jobVars, diagVars, draft,
                 earlier, named, read, more>>

\* Why a page is refused, if it is
PageRefusal(c) ==
  IF status[target[c]] = "absent" THEN "missing"
  ELSE IF \/ status[target[c]] = "pending"
          \/ named[c][1] # target[c]
       THEN "conflict" ELSE "none"

\* ORDER BY position OFFSET LIMIT
Page(rows, offset) == SubSeq(rows, offset + 1,
                             IF offset + PageSize < Len(rows)
                             THEN offset + PageSize ELSE Len(rows))

\* Mutant: pages of the diagnostics as they are now.
PagedLive(j) == SnapshotRows(scope[j][2])

Paged(j) == snapshot[j]

\* list_export_diagnostics; a worker asks for what follows its last page.  The
\* job and its rows are read by two statements, but neither changes between
\* them once the job is claimed.
PageRow(c) ==
  /\ pc[c] = "page"
  /\ IF PageRefusal(c) = "none"
     THEN /\ draft' = [draft EXCEPT ![c] = Page(Paged(target[c]), Len(read[c]))]
          /\ Goto(c, "respond")
          /\ UNCHANGED <<lockVars, answer>>
     ELSE Reply(c, PageRefusal(c)) /\ UNCHANGED draft
  /\ UNCHANGED <<accessVars, requestVars, faults, jobVars, diagVars, earlier,
                 named, read, more, seen>>

\* claim_export
ClaimRow(c) ==
  /\ pc[c] = "claim"
  /\ jobLock[target[c]] = Free
  /\ IF status[target[c]] = "pending"
     THEN /\ LockJob(c)
          /\ Goto(c, "commit")
          /\ Memo(c, "claimed")
          /\ UNCHANGED answer
     ELSE /\ Reply(c, IF status[target[c]] = "absent" THEN "missing"
                                                      ELSE "conflict")
          /\ UNCHANGED seen
  /\ UNCHANGED <<accessVars, requestVars, faults, jobVars, diagVars, draft,
                 earlier, named, read, more>>

\* Why a completion is refused: the first of the code's checks that fails
CompleteRefusal(c) ==
  IF status[target[c]] = "absent" THEN "missing"
  ELSE IF \/ named[c][1] # target[c]
          \/ status[target[c]] # "claimed"
       THEN "conflict"
       ELSE IF named[c][2] # target[c] THEN "invalid" ELSE "none"

\* complete_export
CompleteRow(c) ==
  /\ pc[c] = "complete"
  /\ jobLock[target[c]] = Free
  /\ IF CompleteRefusal(c) = "none"
     THEN /\ LockJob(c)
          /\ Goto(c, "recipient")
          /\ Memo(c, "completed")
          /\ UNCHANGED answer
     ELSE Reply(c, CompleteRefusal(c)) /\ UNCHANGED seen
  /\ UNCHANGED <<accessVars, requestVars, faults, jobVars, diagVars, draft,
                 earlier, named, read, more>>

\* create_email_delivery inside complete_export: without an authorized
\* recipient everything is rolled back.
CompleteRecipient(c) ==
  /\ pc[c] = "recipient"
  /\ IF Authorized(scope[target[c]])
     THEN /\ ShareRequester(c, scope[target[c]])
          /\ Goto(c, "commit")
          /\ UNCHANGED answer
     ELSE Reply(c, "conflict")
  /\ UNCHANGED <<accessVars, requestVars, faults, jobVars, diagVars, workVars>>

Apply(c) == LET j == target[c] IN
  \/ /\ op[c] = "create"
     /\ status' = [status EXCEPT ![j] = "pending"]
     /\ scope' = [scope EXCEPT ![j] = asserted[c]]
     /\ snapshot' = [snapshot EXCEPT ![j] = draft[c]]
     /\ events' = [events EXCEPT !["requested"][j] = @ + 1]
     /\ UNCHANGED <<artifact, mails>>
  \/ /\ op[c] = "claim"
     /\ status' = [status EXCEPT ![j] = "claimed"]
     /\ UNCHANGED <<scope, snapshot, artifact, events, mails>>
  \/ /\ op[c] = "complete"
     /\ status' = [status EXCEPT ![j] = "completed"]
     /\ artifact' = [artifact EXCEPT ![j] = [key |-> named[c][2],
                                            object |-> read[c]]]
     /\ events' = [events EXCEPT !["completed"][j] = @ + 1, !["email"][j] = @ + 1]
     /\ mails' = [mails EXCEPT ![j] = @ + 1]
     /\ UNCHANGED <<scope, snapshot>>

Discard(c) == draft' = [draft EXCEPT ![c] = <<>>]

Commit(c) == /\ pc[c] = "commit"
             /\ Apply(c)
             /\ Unlock(c)
             /\ Goto(c, "respond")
             /\ Discard(c)
             /\ UNCHANGED <<accessVars, requestVars, answer, faults, diagVars,
                            earlier, named, read, more, seen>>

\* Applied, but the acknowledgement is lost.
CommitAckLost(c) == /\ pc[c] = "commit"
                    /\ Fault
                    /\ Apply(c)
                    /\ Reply(c, "error")
                    /\ Discard(c)
                    /\ UNCHANGED <<accessVars, requestVars, diagVars, earlier,
                                   named, read, more, seen>>

\* The answer reaches the caller; a worker keeps the rows of a page.
Answer(c) == /\ Respond(c)
             /\ IF op[c] = "page"
                THEN /\ read' = [read EXCEPT ![c] = @ \o draft[c]]
                     /\ more' = IF c \in Disciplined
                                THEN [more EXCEPT ![c] = Len(draft[c]) = PageSize]
                                ELSE more
                ELSE UNCHANGED <<read, more>>
             /\ Discard(c)
             /\ UNCHANGED <<jobVars, diagVars, earlier, named, seen>>

Fail(c) == /\ CallFails(c)
           /\ Discard(c)
           /\ UNCHANGED <<jobVars, diagVars, earlier, named, read, more, seen>>

\* The worker dies between two calls and starts over; it knows the job from
\* the event, which it had not acknowledged.
WorkerRestarts(c) == /\ pc[c] = "idle" /\ target[c] # NoJob
                     /\ Fault
                     /\ answer' = [answer EXCEPT ![c] = "error"]
                     /\ read' = [read EXCEPT ![c] = <<>>]
                     /\ more' = [more EXCEPT ![c] = TRUE]
                     /\ UNCHANGED <<accessVars, lockVars, requestVars, pc, jobVars,
                                    diagVars, draft, earlier, named, seen>>

------------------------------------------------------------------------------
(* The diagnostics: what Diagnostics is shown to implement *)

Diagnostics == INSTANCE JobContract
              WITH Jobs <- Diags, Results <- DiagResults, state <- dstate,
                   result <- dresult, events <- devents, mails <- dmails

DiagnosticStep == Diagnostics!Next /\ UNCHANGED <<callVars, jobVars, workVars>>

------------------------------------------------------------------------------
Serve(c) == \/ ContextUser(c) /\ UNCHANGED <<jobVars, diagVars, workVars>>
            \/ ContextMembership(c) /\ UNCHANGED <<jobVars, diagVars, workVars>>
            \/ CreateRows(c) \/ GetRow(c) \/ RecoverRow(c) \/ PageRow(c)
            \/ CompleteRecipient(c) \/ Commit(c) \/ Answer(c)
Lock(c) == ClaimRow(c) \/ CompleteRow(c)
Request(c) ==
  \E j \in Jobs, n \in Names, o \in {"recover", "claim", "page", "complete"} :
    Call(c, o, j, n)

Next == \/ \E c \in Clients, o \in {"create", "get"}, s \in Scopes, j \in Jobs :
             Ask(c, o, s, j)
        \/ \E c \in Workers : Request(c) \/ WorkerRestarts(c)
        \/ \E c \in Calls : Serve(c) \/ Lock(c) \/ CommitAckLost(c) \/ Fail(c)
        \/ ChangeAccess /\ UNCHANGED <<jobVars, diagVars, workVars>>
        \/ DiagnosticStep

Spec == Init /\ [][Next]_vars

\* The server runs every request it accepted, PostgreSQL grants a row lock to
\* its waiters in turn, and a worker does not forget a job.
FairSpec == /\ Spec
            /\ \A c \in Calls : WF_vars(Serve(c)) /\ SF_vars(Lock(c))
            /\ \A c \in Disciplined : WF_vars(Request(c))

------------------------------------------------------------------------------
(* Properties *)

Artifacts == [key : Jobs, object : Objects]

\* Read page by page, through lost answers, recoveries and restarts, by several
\* workers, and while diagnostics come and change: the object is the snapshot.
ExportIsSnapshot ==
  \A j \in Jobs : artifact[j] # NoArtifact => artifact[j].object = snapshot[j]

\* A snapshot holds diagnostics of its own organization only, whatever their
\* state, each with a result if and only if it was completed (rows are never
\* half read), and each once, in the order they were created in.
SnapshotIsSound ==
  \A j \in Jobs :
    LET rows == snapshot[j] IN
    /\ \A i \in DOMAIN rows :
         /\ OrgOf[rows[i].id] = scope[j][2]
         /\ rows[i].state = "completed" <=> rows[i].result # NoResult
    /\ \A i, k \in DOMAIN rows : i < k => Rank[rows[i].id] < Rank[rows[k].id]

\* A client is shown a job only under the organization the job belongs to,
\* also when its user is a member of several.
AnswersStayInTenant ==
  \A c \in Clients : answer[c] = "ok" => scope[target[c]][2] = asserted[c][2]

\* A client that is told of its export finds in it every diagnostic that was
\* there when it asked.
SnapshotIsComplete ==
  \A c \in Clients : op[c] = "create" /\ answer[c] = "ok" =>
    LET rows == snapshot[target[c]]
    IN  earlier[c] \subseteq {rows[i].id : i \in DOMAIN rows}

\* A job is completed, and its e-mail ordered, only while its requester has
\* access: a revocation comes before the check or after the commit.
CompletionIsAuthorized ==
  [][\A j \in Jobs : mails'[j] # mails[j] => Authorized(scope[j])]_vars

\* Calls, locks and lost answers amount to the job's contract: the first object
\* stays, and every write comes with its events and its delivery or not at all.
Contract == INSTANCE JobContract WITH state <- status, result <- artifact,
                                      Results <- Artifacts, NoResult <- NoArtifact
ContractSpec == Contract!Spec

\* An export is completed unless its requester loses access.
ExportsGetDone ==
  \A j \in Jobs : status[j] = "pending" ~>
    \/ status[j] = "completed"
    \/ scope[j] # NoScope /\ ~Authorized(scope[j])
=============================================================================
