----------------------------- MODULE TenantCalls -----------------------------
(***************************************************************************)
(* What the calls of the job APIs share: one transaction each under READ   *)
(* COMMITTED (database.py), the tenant context of a client's call          *)
(* (auth.py), the locks on a job and on its requester, and the ends a call *)
(* can have.  Calls interleave between statements.  Diagnostics and        *)
(* Exports extend this module with their rows.                             *)
(*                                                                         *)
(* Outside src/: whoever edits users and memberships.                      *)
(***************************************************************************)
EXTENDS Integers, FiniteSets

CONSTANTS Clients,    \* concurrent calls of the web BFF
          Workers,    \* concurrent calls of job workers
          Users, Orgs,
          Jobs,
          MaxFaults,  \* bound: failed statements and lost answers
          NoJob, NoScope, Free

ASSUME FaultAssumption == MaxFaults \in Nat
ASSUME CallAssumption  == /\ Clients \cap Workers = {}
                          /\ Free \notin Clients \cup Workers
                          /\ NoJob \notin Jobs
                          /\ NoScope \notin Users \X Orgs

VARIABLES
  active, members,  \* active users; <<user, organization>> memberships
  jobLock,          \* FOR UPDATE on a job
  share,            \* FOR SHARE on a user and the membership
  pc, op, target,   \* a call: its next statement, operation and job
  asserted,         \* user and organization in a client's headers
  answer,           \* the last answer of each call
  faults

lockVars   == <<jobLock, share>>
accessVars == <<active, members>>
requestVars == <<op, target, asserted>>
callVars == <<accessVars, lockVars, requestVars, pc, answer, faults>>

Calls  == Clients \cup Workers
Scopes == Users \X Orgs
Kinds  == {"none", "ok", "missing", "conflict", "forbidden", "invalid", "error"}

CallInit == /\ active = Users
            /\ members = Scopes
            /\ jobLock = [j \in Jobs |-> Free]
            /\ share = [s \in Scopes |-> {}]
            /\ pc = [c \in Calls |-> "idle"]
            /\ op = [c \in Calls |-> "get"]
            /\ target = [c \in Calls |-> NoJob]
            /\ asserted = [c \in Calls |-> NoScope]
            /\ answer = [c \in Calls |-> "none"]
            /\ faults = 0

------------------------------------------------------------------------------
Fault == faults < MaxFaults /\ faults' = faults + 1
Goto(c, label) == pc' = [pc EXCEPT ![c] = label]

\* The requester has an active user and a membership in the organization.
Authorized(s) == s[1] \in active /\ s \in members

\* Mutant: SELECT without FOR UPDATE.
LockJobNot(c) == UNCHANGED lockVars

LockJob(c) == /\ jobLock[target[c]] = Free
              /\ jobLock' = [jobLock EXCEPT ![target[c]] = c]
              /\ UNCHANGED share

\* Mutant: FOR SHARE is forgotten.
ShareRequesterNot(c, s) == UNCHANGED lockVars

ShareRequester(c, s) == /\ share' = [share EXCEPT ![s] = @ \cup {c}]
                        /\ UNCHANGED jobLock

Unlock(c) == /\ jobLock' = [j \in Jobs |->
                              IF jobLock[j] = c THEN Free ELSE jobLock[j]]
             /\ share' = [s \in Scopes |-> share[s] \ {c}]

\* The transaction is over, and the call with it.
Reply(c, kind) == /\ Unlock(c)
                  /\ Goto(c, "idle")
                  /\ answer' = [answer EXCEPT ![c] = kind]

\* A request arrives.
Arrive(c, label, o, j) == /\ pc[c] = "idle"
                          /\ Goto(c, label)
                          /\ op' = [op EXCEPT ![c] = o]
                          /\ target' = [target EXCEPT ![c] = j]
                          /\ answer' = [answer EXCEPT ![c] = "none"]
                          /\ UNCHANGED <<accessVars, lockVars, faults>>

------------------------------------------------------------------------------
(* get_tenant_context: the user, then the membership, each by a statement of
   its own and without a lock *)

ContextUser(c) ==
  /\ pc[c] = "user"
  /\ IF asserted[c][1] \in active
     THEN Goto(c, "membership") /\ UNCHANGED <<lockVars, answer>>
     ELSE Reply(c, "forbidden")
  /\ UNCHANGED <<accessVars, requestVars, faults>>

ContextMembership(c) ==
  /\ pc[c] = "membership"
  /\ IF asserted[c] \in members
     THEN Goto(c, op[c]) /\ UNCHANGED <<lockVars, answer>>
     ELSE Reply(c, "forbidden")
  /\ UNCHANGED <<accessVars, requestVars, faults>>

\* The answer reaches the caller; a committed transaction holds no lock.
Respond(c) == /\ pc[c] = "respond"
              /\ Reply(c, "ok")
              /\ UNCHANGED <<accessVars, requestVars, faults>>

\* A statement, the commit or the way back fails; what is not committed is
\* rolled back.
CallFails(c) == /\ pc[c] # "idle"
                /\ Fault
                /\ Reply(c, "error")
                /\ UNCHANGED <<accessVars, requestVars>>

------------------------------------------------------------------------------
(* Users and memberships: external.  An update waits for shared locks. *)

SetActive(u) == /\ \A s \in Scopes : s[1] = u => share[s] = {}
                /\ active' = IF u \in active THEN active \ {u}
                                             ELSE active \cup {u}
                /\ UNCHANGED members

SetMember(s) == /\ share[s] = {}
                /\ members' = IF s \in members THEN members \ {s}
                                               ELSE members \cup {s}
                /\ UNCHANGED active

ChangeAccess == /\ \/ \E u \in Users : SetActive(u)
                   \/ \E s \in Scopes : SetMember(s)
                /\ UNCHANGED <<lockVars, requestVars, pc, answer, faults>>

------------------------------------------------------------------------------
CallTypeOK(labels, ops) ==
  /\ active \in SUBSET Users
  /\ members \in SUBSET Scopes
  /\ jobLock \in [Jobs -> Calls \cup {Free}]
  /\ share \in [Scopes -> SUBSET Calls]
  /\ pc \in [Calls -> labels]
  /\ op \in [Calls -> ops]
  /\ target \in [Calls -> Jobs \cup {NoJob}]
  /\ asserted \in [Calls -> Scopes \cup {NoScope}]
  /\ answer \in [Calls -> Kinds]
  /\ faults \in 0..MaxFaults
=============================================================================
