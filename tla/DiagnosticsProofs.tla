-------------------------- MODULE DiagnosticsProofs --------------------------
(***************************************************************************)
(* Proofs about Diagnostics, for any number of calls, users, organizations *)
(* and jobs, whatever the workers call and however access changes.         *)
(*                                                                         *)
(* The argument: a creation in flight owns an absent row, for its          *)
(* identifier is fresh; a claim or a completion that is about to commit    *)
(* holds the job, so the status it read still stands; and the commit of a  *)
(* completion also holds its requester, who therefore still has access.    *)
(* Every commit is then a step of the contract.                            *)
(***************************************************************************)
EXTENDS Diagnostics, TenantCallsProofs

------------------------------------------------------------------------------
(* The inductive invariant: of each call ... *)

\* A call under way has a job, a statement of its operation, and its input.
Placed(c) ==
  /\ pc[c] # "idle" => target[c] \in Jobs /\ answer[c] = "none"
  /\ pc[c] \in Ops => op[c] = pc[c]
  /\ pc[c] \in {"user", "membership"} => op[c] \in {"create", "get"}
  /\ pc[c] = "recipient" => op[c] = "complete"
  /\ pc[c] = "commit" => op[c] \in {"create", "claim", "complete"}
  /\ pc[c] # "idle" /\ op[c] \in {"create", "get"} =>
       c \in Clients /\ asserted[c] \in Scopes
  /\ pc[c] # "idle" /\ op[c] = "complete" => given[c] \in Results
  /\ answer[c] = "ok" => target[c] \in Jobs

\* Between its lock and its commit a claim or a completion holds the job.
Holds(c) == pc[c] \in {"recipient", "commit"} /\ op[c] # "create"
            => jobLock[target[c]] = c

\* What a call is about to change is as it read it.
Knows(c) ==
  /\ pc[c] \notin {"idle", "respond"} /\ op[c] = "create"
       => status[target[c]] = "absent"
  /\ pc[c] = "commit" /\ op[c] = "claim" => status[target[c]] = "pending"
  /\ pc[c] \in {"recipient", "commit"} /\ op[c] = "complete"
       => status[target[c]] = "claimed"

\* A completion at its commit holds its requester, who has access.
Vouched(c) == pc[c] = "commit" /\ op[c] = "complete" =>
  c \in share[scope[target[c]]] /\ Authorized(scope[target[c]])

\* What a call was told, or is about to be, is so.
Told(c) == pc[c] = "respond" \/ answer[c] = "ok" =>
  /\ op[c] = "create" => /\ status[target[c]] # "absent"
                         /\ scope[target[c]] = asserted[c]
  /\ op[c] = "claim" => status[target[c]] \in {"claimed", "completed"}
  /\ op[c] = "complete" => /\ status[target[c]] = "completed"
                           /\ result[target[c]] = given[c]

CallInv(c) == Placed(c) /\ Holds(c) /\ Knows(c) /\ Vouched(c) /\ Told(c)

(* ... of two calls, and of the rows of a job *)

Creating(c) == pc[c] # "idle" /\ op[c] = "create"
Alone == \A b, c \in Calls : Creating(b) /\ Creating(c) /\ target[b] = target[c]
                             => b = c

\* A job's rows are there from the commit that writes them.
RowInv(j) ==
  /\ status[j] # "absent" => scope[j] \in Scopes
  /\ events["requested"][j] = IF status[j] = "absent" THEN 0 ELSE 1
  /\ \A t \in {"completed", "email"} :
       events[t][j] = IF status[j] = "completed" THEN 1 ELSE 0
  /\ mails[j] = IF status[j] = "completed" THEN 1 ELSE 0

IInv == /\ TypeOK /\ Alone
        /\ \A c \in Calls : CallInv(c)
        /\ \A j \in Jobs : RowInv(j)

------------------------------------------------------------------------------
LEMMA LabelFacts == /\ {"idle", "membership"} \subseteq Labels
                    /\ Ops \subseteq Labels /\ "idle" \in Labels
  BY DEF Labels, Ops

LEMMA InitIInv == Init => IInv
<1> SUFFICES ASSUME Init PROVE IInv
  OBVIOUS
<1> USE DEF Init, CallInit
<1>1. TypeOK
  BY FaultAssumption
  DEF TypeOK, CallTypeOK, Labels, Ops, Kinds, States, Types, Scopes
<1>2. Alone /\ \A c \in Calls : CallInv(c)
  BY DEF Alone, Creating, CallInv, Placed, Holds, Knows, Vouched, Told, Ops
<1>3. \A j \in Jobs : RowInv(j)
  BY DEF RowInv, Types
<1> QED BY <1>1, <1>2, <1>3 DEF IInv

(* Steps that write no row *)

\* Such a step keeps the invariant of all but the call that moves.
LEMMA QuietKeeps ==
  ASSUME IInv, NEW c \in Calls, Apart(c), TypeOK', UNCHANGED jobVars,
         UNCHANGED <<active, members>>,
         \A b \in Calls \ {c} : given'[b] = given[b],
         CallInv(c)',
         Creating(c)' => \A b \in Calls \ {c} :
                           ~(Creating(b) /\ target[b] = target'[c])
  PROVE  IInv'
<1>1. UNCHANGED <<status, scope, result, events, mails>>
  BY DEF jobVars
<1>2. ASSUME NEW b \in Calls \ {c} PROVE CallInv(b)'
  <2>1. /\ pc'[b] = pc[b] /\ op'[b] = op[b] /\ target'[b] = target[b]
        /\ asserted'[b] = asserted[b] /\ answer'[b] = answer[b]
        /\ given'[b] = given[b]
    BY DEF Apart
  <2>2. Placed(b) /\ Holds(b) /\ Knows(b) /\ Vouched(b) /\ Told(b)
    BY DEF IInv, CallInv
  <2>3. Placed(b)' /\ Knows(b)' /\ Told(b)'
    BY <1>1, <2>1, <2>2 DEF Placed, Knows, Told
  <2>4. Holds(b)'
    BY <2>1, <2>2 DEF Holds, Placed, Apart
  <2>5. Vouched(b)'
    <3> SUFFICES ASSUME pc[b] = "commit", op[b] = "complete"
                 PROVE  Vouched(b)'
      BY <2>1 DEF Vouched
    <3>1. target[b] \in Jobs /\ status[target[b]] = "claimed"
      BY <2>2 DEF Placed, Knows
    <3>2. scope[target[b]] \in Scopes
      BY <3>1 DEF IInv, RowInv
    <3> QED BY <1>1, <2>1, <2>2, <3>2 DEF Vouched, Apart, Authorized
  <2> QED BY <2>3, <2>4, <2>5 DEF CallInv
<1>3. Alone'
  <2> SUFFICES ASSUME NEW a \in Calls, NEW b \in Calls, a # b,
                      Creating(a)', Creating(b)', target'[a] = target'[b]
               PROVE  FALSE
    BY DEF Alone
  <2>1. \A d \in Calls \ {c} : /\ Creating(d)' <=> Creating(d)
                               /\ target'[d] = target[d]
    BY DEF Apart, Creating
  <2> QED BY <2>1 DEF IInv, Alone
<1>4. \A j \in Jobs : RowInv(j)'
  BY <1>1 DEF IInv, RowInv
<1> QED BY <1>2, <1>3, <1>4 DEF IInv

\* A call that is turned away leaves nothing behind.
LEMMA ReplyKeeps ==
  ASSUME IInv, NEW c \in Calls, NEW kind \in Kinds \ {"ok", "none"},
         Reply(c, kind), UNCHANGED <<accessVars, requestVars, jobVars, given>>,
         faults' \in 0..MaxFaults, seen' \in [Calls -> States]
  PROVE  IInv'
<1>1. CallTypeOK(Labels, Ops)
  BY DEF IInv, TypeOK
<1>2. /\ CallTypeOK(Labels, Ops)' /\ Apart(c)
      /\ pc'[c] = "idle" /\ answer'[c] = kind
  BY <1>1, ReplyMoves, LabelFacts DEF At
<1>3. TypeOK'
  BY <1>2 DEF IInv, TypeOK, jobVars
<1>4. CallInv(c)' /\ ~Creating(c)'
  BY <1>2 DEF CallInv, Placed, Holds, Knows, Vouched, Told, Creating, Ops
<1> QED BY <1>2, <1>3, <1>4, QuietKeeps DEF accessVars

LEMMA AskStep ==
  ASSUME IInv, NEW c \in Clients, NEW o \in {"create", "get"},
         NEW s \in Scopes, NEW j \in Jobs, Ask(c, o, s, j)
  PROVE  IInv'
<1>1. c \in Calls /\ o \in Ops /\ "user" \in Labels
  BY DEF Calls, Ops, Labels
<1>2. PICK label \in Labels : label = "user" /\ Arrive(c, label, o, j)
  BY <1>1 DEF Ask
<1>3. /\ asserted' = [asserted EXCEPT ![c] = s] /\ CallTypeOK(Labels, Ops)
      /\ Assertive(c) /\ asserted'[c] = s
      /\ UNCHANGED <<jobVars, given, seen>>
  BY <1>1 DEF Ask, IInv, TypeOK, CallTypeOK, workVars, Assertive
<1>4. /\ CallTypeOK(Labels, Ops)' /\ Apart(c)
      /\ pc'[c] = "user" /\ op'[c] = o /\ target'[c] = j /\ answer'[c] = "none"
      /\ UNCHANGED <<active, members>>
  BY <1>1, <1>2, <1>3, ArriveMoves DEF At
<1>5. TypeOK'
  BY <1>3, <1>4 DEF IInv, TypeOK, jobVars
<1>6. CallInv(c)'
  BY <1>3, <1>4
  DEF CallInv, Placed, Holds, Knows, Vouched, Told, Ops, Ask, Fresh, jobVars
<1>7. ASSUME Creating(c)', NEW b \in Calls \ {c}, Creating(b)
      PROVE  target[b] # j
  BY <1>4, <1>7 DEF Creating, Ask, Fresh, IInv, CallInv, Placed
<1> QED BY <1>1, <1>3, <1>4, <1>5, <1>6, <1>7, QuietKeeps

LEMMA RequestStep ==
  ASSUME IInv, NEW c \in Workers, Request(c)
  PROVE  IInv'
<1>1. PICK j \in Jobs, r \in Results, o \in {"scope", "claim", "complete"} :
        Call(c, o, j, r)
  BY DEF Request
<1>2. c \in Calls /\ o \in Ops /\ o \in Labels
  BY DEF Calls, Ops, Labels
<1>0. /\ CallTypeOK(Labels, Ops) /\ Arrive(c, o, o, j)
      /\ Assertive(c) /\ UNCHANGED <<jobVars, seen>>
  BY <1>1 DEF Call, IInv, TypeOK, CallTypeOK, Assertive
<1>3. /\ CallTypeOK(Labels, Ops)' /\ Apart(c)
      /\ pc'[c] = o /\ op'[c] = o /\ target'[c] = j /\ answer'[c] = "none"
      /\ UNCHANGED <<active, members, jobVars, seen>>
  BY <1>0, <1>2, ArriveMoves DEF At
<1>4. given' = [given EXCEPT ![c] = IF o = "complete" THEN r ELSE NoResult]
  BY <1>1 DEF Call
<1>5. given \in [Calls -> Results \cup {NoResult}]
  BY DEF IInv, TypeOK
<1>6. TypeOK'
  BY <1>3, <1>4, <1>5 DEF IInv, TypeOK, jobVars
<1>7. CallInv(c)' /\ ~Creating(c)'
  BY <1>2, <1>3, <1>4, <1>5
  DEF CallInv, Placed, Holds, Knows, Vouched, Told, Ops, Creating
<1>8. \A b \in Calls \ {c} : given'[b] = given[b]
  BY <1>4, <1>5
<1> QED BY <1>2, <1>3, <1>6, <1>7, <1>8, QuietKeeps

LEMMA ContextStep ==
  ASSUME IInv, NEW c \in Calls, ContextUser(c) \/ ContextMembership(c),
         UNCHANGED <<jobVars, workVars>>
  PROVE  IInv'
<1>1. /\ CallTypeOK(Labels, Ops)' /\ Apart(c)
      /\ UNCHANGED <<active, members, op, target, asserted, given, seen>>
      /\ \/ pc'[c] = "idle" /\ answer'[c] = "forbidden"
         \/ pc'[c] = "membership" /\ pc[c] = "user" /\ UNCHANGED answer
         \/ pc'[c] = op[c] /\ pc[c] = "membership" /\ UNCHANGED answer
  BY LabelFacts, ContextMoves DEF IInv, TypeOK, At, workVars
<1>2. pc[c] \in {"user", "membership"}
  BY DEF ContextUser, ContextMembership
<1>3. TypeOK'
  BY <1>1 DEF IInv, TypeOK, jobVars
<1>4. CallInv(c)
  BY DEF IInv
<1>5. op[c] \in {"create", "get"}
  BY <1>2, <1>4 DEF CallInv, Placed
<1>6. CallInv(c)'
  BY <1>1, <1>2, <1>4, <1>5
  DEF CallInv, Placed, Holds, Knows, Vouched, Told, Ops, jobVars
<1>7. Creating(c)' => Creating(c) /\ target'[c] = target[c]
  BY <1>1, <1>2 DEF Creating
<1> QED BY <1>1, <1>3, <1>6, <1>7, QuietKeeps DEF IInv, Alone

\* A call that finds what it looked for goes on.
LEMMA GoOnKeeps ==
  ASSUME IInv, NEW c \in Calls, NEW label \in Labels \ {"idle"},
         Goto(c, label), pc[c] # "idle",
         UNCHANGED <<accessVars, lockVars, requestVars, answer, faults, jobVars,
                     given>>,
         seen' \in [Calls -> States],
         CallInv(c)'
  PROVE  IInv'
<1>1. CallTypeOK(Labels, Ops)' /\ Apart(c) /\ pc'[c] = label
  BY GotoMoves DEF IInv, TypeOK, At
<1>2. TypeOK'
  BY <1>1 DEF IInv, TypeOK, jobVars
<1>3. Creating(c)' => Creating(c) /\ target'[c] = target[c]
  BY DEF Creating, requestVars
<1> QED BY <1>1, <1>2, <1>3, QuietKeeps DEF IInv, Alone, accessVars

LEMMA ReadStep ==
  ASSUME IInv, NEW c \in Calls, CreateRow(c) \/ GetRow(c) \/ ScopeRow(c)
  PROVE  IInv'
<1> DEFINE j == target[c]
<1>1. CallInv(c) /\ pc[c] \in {"create", "get", "scope"} /\ op[c] = pc[c]
  BY DEF CreateRow, GetRow, ScopeRow, IInv, CallInv, Placed, Ops
<1>2. /\ UNCHANGED <<accessVars, requestVars, faults, jobVars, given>>
      /\ faults' \in 0..MaxFaults
  BY DEF CreateRow, GetRow, ScopeRow, workVars, IInv, TypeOK, CallTypeOK
<1>3. seen' \in [Calls -> States]
  BY <1>1
  DEF CreateRow, GetRow, ScopeRow, workVars, Memo, Shown, States, IInv, TypeOK
<1>4. \/ \E kind \in Kinds \ {"ok", "none"} : Reply(c, kind)
      \/ \E label \in {"commit", "respond"} :
           /\ Goto(c, label) /\ UNCHANGED <<lockVars, answer>>
           /\ label = "commit" <=> pc[c] = "create"
  BY <1>1 DEF CreateRow, GetRow, ScopeRow, Kinds
<1>5. ASSUME NEW label \in {"commit", "respond"}, Goto(c, label),
             UNCHANGED <<lockVars, answer>>, label = "commit" <=> pc[c] = "create"
      PROVE  CallInv(c)'
  BY <1>1, <1>2, <1>5
  DEF Goto, IInv, TypeOK, CallTypeOK, CallInv, Placed, Holds, Knows, Vouched,
      Told, Ops, requestVars, jobVars, lockVars
<1> QED BY <1>1, <1>2, <1>3, <1>4, <1>5, ReplyKeeps, GoOnKeeps DEF Labels

\* A claim or a completion takes the job.
LEMMA LockStep ==
  ASSUME IInv, NEW c \in Calls, Lock(c)
  PROVE  IInv'
<1> DEFINE j == target[c]
<1>1. /\ CallInv(c) /\ op[c] = pc[c] /\ answer[c] = "none" /\ j \in Jobs
      /\ pc[c] \in {"claim", "complete"}
      /\ op[c] = "complete" => given[c] \in Results
  BY DEF Lock, ClaimRow, CompleteRow, IInv, CallInv, Placed, Ops
<1>2. PICK wanted, label, becomes :
        /\ SelectJob(c, wanted, label, becomes)
        /\ \/ /\ op[c] = "claim" /\ wanted = {"pending"}
              /\ label = "commit" /\ becomes = "claimed"
           \/ /\ op[c] = "complete" /\ wanted = {"claimed"}
              /\ label = "recipient" /\ becomes = "completed"
  BY <1>1 DEF Lock, ClaimRow, CompleteRow, Completable
<1>3. /\ UNCHANGED <<active, members, op, target, asserted, faults, given>>
      /\ UNCHANGED <<accessVars, requestVars, jobVars>>
      /\ faults' \in 0..MaxFaults
  BY <1>2 DEF SelectJob, accessVars, requestVars, IInv, TypeOK, CallTypeOK
<1>4. CASE status[j] \notin wanted
  <2>1. /\ seen' \in [Calls -> States]
        /\ \E kind \in Kinds \ {"ok", "none"} : Reply(c, kind)
    BY <1>2, <1>4 DEF SelectJob, IInv, TypeOK, Kinds
  <2> QED BY <1>3, <2>1, ReplyKeeps
<1>5. CASE status[j] \in wanted
  <2>1. /\ jobLock[j] = Free /\ jobLock' = [jobLock EXCEPT ![j] = c]
        /\ pc' = [pc EXCEPT ![c] = label]
        /\ seen' = [seen EXCEPT ![c] = becomes]
        /\ UNCHANGED <<share, answer>>
    BY <1>2, <1>5 DEF SelectJob, LockJob, Goto, Memo
  <2>2. Free \notin Calls
    BY CallAssumption DEF Calls
  <2>3. TypeOK'
    <3>1. label \in Labels /\ becomes \in States
      BY <1>2 DEF Labels, States
    <3> QED BY <1>1, <1>3, <2>1, <3>1 DEF IInv, TypeOK, CallTypeOK, jobVars
  <2>4. Apart(c)
    BY <1>1, <1>3, <2>1, <2>2 DEF Apart, IInv, TypeOK, CallTypeOK
  <2>5. /\ pc'[c] = label /\ jobLock'[j] = c
        /\ UNCHANGED <<status, scope, result>>
    BY <1>1, <1>3, <2>1 DEF IInv, TypeOK, CallTypeOK, jobVars
  <2>6. CallInv(c)' /\ ~Creating(c)'
    BY <1>1, <1>2, <1>3, <1>5, <2>1, <2>5
    DEF CallInv, Placed, Holds, Knows, Vouched, Told, Ops, Creating
  <2> QED BY <1>3, <2>3, <2>4, <2>6, QuietKeeps
<1> QED BY <1>4, <1>5

\* A completion takes its requester.
LEMMA RecipientStep ==
  ASSUME IInv, NEW c \in Calls, CompleteRecipient(c)
  PROVE  IInv'
<1> DEFINE j == target[c]
           s == scope[target[c]]
<1>1. /\ CallInv(c) /\ pc[c] = "recipient" /\ op[c] = "complete"
      /\ j \in Jobs /\ status[j] = "claimed" /\ s \in Scopes
      /\ jobLock[j] = c /\ answer[c] = "none" /\ given[c] \in Results
  BY DEF CompleteRecipient, IInv, CallInv, Placed, Holds, Knows, RowInv
<1>2. /\ UNCHANGED <<active, members, op, target, asserted, faults, given, seen>>
      /\ UNCHANGED <<accessVars, requestVars, jobVars>>
      /\ faults' \in 0..MaxFaults /\ seen' \in [Calls -> States]
  BY DEF CompleteRecipient, accessVars, requestVars, workVars, IInv, TypeOK,
         CallTypeOK
<1>3. CASE ~Authorized(s)
  <2>1. Reply(c, "conflict") /\ "conflict" \in Kinds \ {"ok", "none"}
    BY <1>3 DEF CompleteRecipient, Kinds
  <2> QED BY <1>2, <2>1, ReplyKeeps
<1>4. CASE Authorized(s)
  <2>1. /\ share' = [share EXCEPT ![s] = @ \cup {c}]
        /\ pc' = [pc EXCEPT ![c] = "commit"]
        /\ UNCHANGED <<jobLock, answer>>
    BY <1>4 DEF CompleteRecipient, ShareRequester, Goto
  <2>2. TypeOK'
    <3>1. "commit" \in Labels
      BY DEF Labels
    <3> QED BY <1>1, <1>2, <2>1, <3>1 DEF IInv, TypeOK, CallTypeOK, jobVars
  <2>3. Apart(c)
    BY <1>1, <1>2, <2>1 DEF Apart, IInv, TypeOK, CallTypeOK
  <2>4. pc'[c] = "commit" /\ c \in share'[s] /\ UNCHANGED <<status, scope, result>>
    BY <1>1, <1>2, <2>1 DEF IInv, TypeOK, CallTypeOK, jobVars
  <2>5. CallInv(c)' /\ ~Creating(c)'
    BY <1>1, <1>2, <1>4, <2>1, <2>4
    DEF CallInv, Placed, Holds, Knows, Vouched, Told, Ops, Creating, Authorized
  <2> QED BY <1>2, <2>2, <2>3, <2>5, QuietKeeps
<1> QED BY <1>3, <1>4

LEMMA RespondStep ==
  ASSUME IInv, NEW c \in Calls, Respond(c), UNCHANGED <<jobVars, workVars>>
  PROVE  IInv'
<1>1. /\ CallTypeOK(Labels, Ops)' /\ Apart(c)
      /\ UNCHANGED <<active, members, op, target, asserted, given, seen>>
      /\ pc'[c] = "idle" /\ answer'[c] = "ok"
  BY LabelFacts, RespondMoves DEF IInv, TypeOK, At, workVars
<1>2. TypeOK'
  BY <1>1 DEF IInv, TypeOK, jobVars
<1>3. CallInv(c) /\ pc[c] = "respond" /\ target[c] \in Jobs
  BY DEF IInv, CallInv, Placed, Respond
<1>4. CallInv(c)' /\ ~Creating(c)'
  BY <1>1, <1>3
  DEF CallInv, Placed, Holds, Knows, Vouched, Told, Ops, Creating, jobVars
<1> QED BY <1>1, <1>2, <1>4, QuietKeeps

LEMMA FailStep ==
  ASSUME IInv, NEW c \in Calls, CallFails(c), UNCHANGED <<jobVars, workVars>>
  PROVE  IInv'
<1>1. /\ Reply(c, "error") /\ "error" \in Kinds \ {"ok", "none"}
      /\ UNCHANGED <<accessVars, requestVars, given, seen>>
      /\ faults' \in 0..MaxFaults
  BY FaultTypes DEF CallFails, Kinds, workVars, IInv, TypeOK, CallTypeOK
<1>2. seen' \in [Calls -> States]
  BY <1>1 DEF IInv, TypeOK
<1> QED BY <1>1, <1>2, ReplyKeeps

LEMMA AccessStep ==
  ASSUME IInv, ChangeAccess, UNCHANGED <<jobVars, workVars>>
  PROVE  IInv'
<1>1. /\ CallTypeOK(Labels, Ops)'
      /\ UNCHANGED <<jobLock, share, pc, op, target, asserted, answer, given, seen>>
      /\ UNCHANGED <<status, scope, result, events, mails>>
      /\ \A c \in Calls, s \in Scopes :
           c \in share[s] /\ Authorized(s) => Authorized(s)'
  BY AccessKeeps DEF IInv, TypeOK, jobVars, workVars
<1>2. TypeOK' /\ Alone' /\ \A j \in Jobs : RowInv(j)'
  BY <1>1 DEF IInv, TypeOK, Alone, Creating, RowInv
<1>3. ASSUME NEW c \in Calls PROVE CallInv(c)'
  <2>1. CallInv(c)
    BY DEF IInv
  <2>2. Placed(c)' /\ Holds(c)' /\ Knows(c)' /\ Told(c)'
    BY <1>1, <2>1 DEF CallInv, Placed, Holds, Knows, Told
  <2>3. Vouched(c)'
    <3> SUFFICES ASSUME pc[c] = "commit", op[c] = "complete" PROVE Vouched(c)'
      BY <1>1 DEF Vouched
    <3>1. scope[target[c]] \in Scopes
      BY <2>1 DEF CallInv, Placed, Knows, IInv, RowInv
    <3> QED BY <1>1, <2>1, <3>1 DEF CallInv, Vouched
  <2> QED BY <2>2, <2>3 DEF CallInv
<1> QED BY <1>2, <1>3 DEF IInv

(* The commits *)

\* A commit moves its own job, from the status its operation starts from.
LEMMA ApplyFacts ==
  ASSUME IInv, NEW c \in Calls, pc[c] = "commit", Apply(c)
  PROVE  /\ target[c] \in Jobs /\ op[c] \in {"create", "claim", "complete"}
         /\ op[c] = "create" =>
              /\ status[target[c]] = "absent" /\ asserted[c] \in Scopes
              /\ status' = [status EXCEPT ![target[c]] = "pending"]
              /\ scope' = [scope EXCEPT ![target[c]] = asserted[c]]
              /\ UNCHANGED <<result, mails>>
         /\ op[c] = "claim" =>
              /\ status[target[c]] = "pending"
              /\ status' = [status EXCEPT ![target[c]] = "claimed"]
              /\ UNCHANGED <<scope, result, events, mails>>
         /\ op[c] = "complete" =>
              /\ status[target[c]] = "claimed" /\ given[c] \in Results
              /\ status' = [status EXCEPT ![target[c]] = "completed"]
              /\ result' = [result EXCEPT ![target[c]] = given[c]]
              /\ UNCHANGED scope
<1>1. CallInv(c)
  BY DEF IInv
<1> QED BY <1>1 DEF CallInv, Placed, Knows, Apply

\* The rows of a job appear together, each of them once.
LEMMA ApplyRows ==
  ASSUME IInv, NEW c \in Calls, pc[c] = "commit", Apply(c)
  PROVE  /\ status' \in [Jobs -> States]
         /\ scope' \in [Jobs -> Scopes \cup {NoScope}]
         /\ result' \in [Jobs -> Results \cup {NoResult}]
         /\ events' \in [Types -> [Jobs -> 0..1]]
         /\ mails' \in [Jobs -> 0..1]
         /\ \A j \in Jobs : RowInv(j)'
<1> DEFINE j == target[c]
<1>1. /\ j \in Jobs /\ op[c] \in {"create", "claim", "complete"}
      /\ RowInv(j) /\ \A k \in Jobs : RowInv(k)
      /\ status \in [Jobs -> States] /\ scope \in [Jobs -> Scopes \cup {NoScope}]
      /\ result \in [Jobs -> Results \cup {NoResult}]
      /\ events \in [Types -> [Jobs -> 0..1]] /\ mails \in [Jobs -> 0..1]
  BY ApplyFacts DEF IInv, TypeOK
<1>2. CASE op[c] = "create"
  <2>1. /\ status[j] = "absent" /\ asserted[c] \in Scopes
        /\ status' = [status EXCEPT ![j] = "pending"]
        /\ scope' = [scope EXCEPT ![j] = asserted[c]]
        /\ UNCHANGED <<result, mails>>
        /\ events' = [events EXCEPT !["requested"][j] = @ + 1]
    BY <1>2, ApplyFacts DEF Apply
  <2>2. events["requested"][j] = 0
    BY <1>1, <2>1 DEF RowInv
  <2>3. events' = [events EXCEPT !["requested"][j] = 1]
    BY <2>1, <2>2
  <2> QED BY <1>1, <2>1, <2>3 DEF RowInv, States, Types
<1>3. CASE op[c] = "claim"
  <2>1. /\ status[j] = "pending" /\ status' = [status EXCEPT ![j] = "claimed"]
        /\ UNCHANGED <<scope, result, events, mails>>
    BY <1>3, ApplyFacts
  <2> QED BY <1>1, <2>1 DEF RowInv, States
<1>4. CASE op[c] = "complete"
  <2>1. /\ status[j] = "claimed" /\ given[c] \in Results
        /\ status' = [status EXCEPT ![j] = "completed"]
        /\ result' = [result EXCEPT ![j] = given[c]]
        /\ UNCHANGED scope
        /\ events' = [events EXCEPT !["completed"][j] = @ + 1,
                                    !["email"][j] = @ + 1]
        /\ mails' = [mails EXCEPT ![j] = @ + 1]
    BY <1>4, ApplyFacts DEF Apply
  <2>2. events["completed"][j] = 0 /\ events["email"][j] = 0 /\ mails[j] = 0
    BY <1>1, <2>1 DEF RowInv
  <2>3. /\ events' = [events EXCEPT !["completed"][j] = 1, !["email"][j] = 1]
        /\ mails' = [mails EXCEPT ![j] = 1]
    BY <1>1, <2>1, <2>2 DEF Types
  <2> QED BY <1>1, <2>1, <2>3 DEF RowInv, States, Types
<1> QED BY <1>1, <1>2, <1>3, <1>4

\* Whatever the other calls know stands: who would know otherwise holds the
\* same job, or creates it.
LEMMA ApplyOthers ==
  ASSUME IInv, NEW c \in Calls, pc[c] = "commit", Apply(c), Apart(c),
         UNCHANGED <<active, members, given>>, NEW b \in Calls \ {c}
  PROVE  CallInv(b)'
<1> DEFINE j == target[c]
<1>1. /\ pc'[b] = pc[b] /\ op'[b] = op[b] /\ target'[b] = target[b]
      /\ asserted'[b] = asserted[b] /\ answer'[b] = answer[b]
      /\ given'[b] = given[b]
  BY DEF Apart
<1>2. /\ CallInv(b) /\ CallInv(c) /\ j \in Jobs
      /\ op[c] \in {"create", "claim", "complete"}
      /\ status \in [Jobs -> States] /\ scope \in [Jobs -> Scopes \cup {NoScope}]
      /\ result \in [Jobs -> Results \cup {NoResult}]
  BY ApplyFacts DEF IInv, TypeOK
<1>3. Placed(b)' /\ Holds(b)'
  BY <1>1, <1>2 DEF CallInv, Placed, Holds, Apart
<1>4. /\ status'[j] \in {"pending", "claimed", "completed"} /\ status'[j] # status[j]
      /\ \A k \in Jobs \ {j} : /\ status'[k] = status[k] /\ scope'[k] = scope[k]
                               /\ result'[k] = result[k]
      /\ status[j] # "absent" => scope'[j] = scope[j]
      /\ status[j] \in {"absent", "pending", "claimed"}
  BY <1>2, ApplyFacts
<1>5. ASSUME pc[b] \notin {"idle", "respond"}, op[b] \in {"create", "claim", "complete"},
             target[b] = j, pc[b] \in {"recipient", "commit"} \/ op[b] = "create"
      PROVE  FALSE
  <2>1. CASE op[c] = "create"
    BY <1>2, <1>5, <2>1, ApplyFacts
    DEF CallInv, Knows, Placed, IInv, Alone, Creating
  <2>2. CASE op[c] # "create"
    BY <1>2, <1>5, <2>2, ApplyFacts DEF CallInv, Knows, Holds, Placed
  <2> QED BY <2>1, <2>2
<1>6. Knows(b)' /\ Vouched(b)'
  <2>1. CASE target[b] = j
    BY <1>1, <1>2, <1>5, <2>1 DEF CallInv, Knows, Vouched, Placed
  <2>2. CASE target[b] # j /\ target[b] \in Jobs
    <3>1. Knows(b)'
      BY <1>1, <1>2, <1>4, <2>2 DEF CallInv, Knows
    <3>2. Vouched(b)'
      <4> SUFFICES ASSUME pc[b] = "commit", op[b] = "complete" PROVE Vouched(b)'
        BY <1>1 DEF Vouched
      <4>1. status[target[b]] = "claimed" /\ scope[target[b]] \in Scopes
        BY <1>2, <2>2 DEF CallInv, Knows, IInv, RowInv
      <4> QED BY <1>1, <1>2, <1>4, <2>2, <4>1
              DEF CallInv, Vouched, Apart, Authorized
    <3> QED BY <3>1, <3>2
  <2>3. CASE target[b] \notin Jobs
    BY <1>1, <1>2, <2>3 DEF CallInv, Placed, Knows, Vouched
  <2> QED BY <2>1, <2>2, <2>3
<1>7. Told(b)'
  <2> SUFFICES ASSUME pc[b] = "respond" \/ answer[b] = "ok" PROVE Told(b)'
    BY <1>1 DEF Told
  <2>1. target[b] \in Jobs
    BY <1>2 DEF CallInv, Placed
  <2>2. CASE target[b] = j
    BY <1>1, <1>2, <1>4, <2>2, ApplyFacts DEF CallInv, Told
  <2>3. CASE target[b] # j
    BY <1>1, <1>2, <1>4, <2>1, <2>3 DEF CallInv, Told
  <2> QED BY <2>2, <2>3
<1> QED BY <1>3, <1>6, <1>7 DEF CallInv

LEMMA CommitStep ==
  ASSUME IInv, NEW c \in Calls, Commit(c) \/ CommitAckLost(c)
  PROVE  IInv'
<1>1. /\ pc[c] = "commit" /\ Apply(c) /\ CallInv(c) /\ answer[c] = "none"
      /\ UNCHANGED <<active, members, op, target, asserted, given, seen>>
  BY DEF Commit, CommitAckLost, accessVars, requestVars, workVars, IInv, CallInv,
         Placed
<1>2. /\ CallTypeOK(Labels, Ops)' /\ Apart(c)
      /\ \/ pc'[c] = "respond" /\ answer'[c] = "none"
         \/ pc'[c] = "idle" /\ answer'[c] = "error"
  <2>1. CASE Commit(c)
    <3>1. Unlock(c) /\ UNCHANGED <<answer, faults>> /\ "respond" \in Labels
          /\ pc' = [pc EXCEPT ![c] = "respond"]
      BY <2>1 DEF Commit, Goto, Labels
    <3>2. CallTypeOK(Labels, Ops)
      BY DEF IInv, TypeOK
    <3> QED BY <1>1, <3>1, <3>2, UnlockTypes DEF CallTypeOK, Apart
  <2>2. CASE CommitAckLost(c)
    <3>1. /\ Reply(c, "error") /\ UNCHANGED <<accessVars, requestVars>>
          /\ faults' \in 0..MaxFaults /\ "error" \in Kinds
          /\ CallTypeOK(Labels, Ops)
      BY <2>2, FaultTypes DEF CommitAckLost, IInv, TypeOK, CallTypeOK, Kinds
    <3> QED BY <3>1, ReplyMoves, LabelFacts DEF At
  <2> QED BY <2>1, <2>2
<1>3. TypeOK' /\ \A j \in Jobs : RowInv(j)'
  BY <1>1, <1>2, ApplyRows DEF IInv, TypeOK
<1>4. ASSUME NEW b \in Calls \ {c} PROVE CallInv(b)'
  BY <1>1, <1>2, ApplyOthers
<1>5. CallInv(c)'
  <2>1. target[c] \in Jobs
    BY <1>1, ApplyFacts
  <2>2. Placed(c)' /\ Holds(c)' /\ Knows(c)' /\ Vouched(c)'
    BY <1>1, <1>2 DEF CallInv, Placed, Holds, Knows, Vouched, Ops
  <2>3. Told(c)'
    BY <1>1, <1>2, <2>1, ApplyFacts DEF Told, IInv, TypeOK
  <2> QED BY <2>2, <2>3 DEF CallInv
<1>6. Alone'
  BY <1>1, <1>2 DEF IInv, Alone, Creating, Apart
<1> QED BY <1>3, <1>4, <1>5, <1>6 DEF IInv

LEMMA NextIInv == IInv /\ [Next]_vars => IInv'
<1> SUFFICES ASSUME IInv, [Next]_vars PROVE IInv'
  OBVIOUS
<1>1. CASE \E c \in Clients, o \in {"create", "get"}, s \in Scopes, j \in Jobs :
             Ask(c, o, s, j)
  BY <1>1, AskStep
<1>2. CASE \E c \in Workers : Request(c)
  BY <1>2, RequestStep
<1>3. CASE \E c \in Calls : Serve(c)
  BY <1>3, ContextStep, ReadStep, RecipientStep, RespondStep, CommitStep DEF Serve
<1>4. CASE \E c \in Calls :
             \/ Lock(c) \/ CommitAckLost(c)
             \/ CallFails(c) /\ UNCHANGED <<jobVars, workVars>>
  BY <1>4, LockStep, CommitStep, FailStep
<1>5. CASE ChangeAccess /\ UNCHANGED <<jobVars, workVars>>
  BY <1>5, AccessStep
<1>6. CASE UNCHANGED vars
  BY <1>6
  DEF vars, callVars, accessVars, lockVars, requestVars, jobVars, workVars, IInv,
      TypeOK, CallTypeOK, Alone, Creating, CallInv, Placed, Holds, Knows, Vouched,
      Told, Authorized, RowInv
<1> QED BY <1>1, <1>2, <1>3, <1>4, <1>5, <1>6 DEF Next

(* The invariant holds of every reachable state. *)
THEOREM Invariant == Spec => []IInv
  BY InitIInv, NextIInv, PTL DEF Spec

(* Types hold; and no outbox row or delivery of a job is inserted twice. *)
THEOREM TypeCorrect == Spec => []TypeOK
<1>1. IInv => TypeOK
  BY DEF IInv
<1> QED BY <1>1, Invariant, PTL

(* What a call was told has happened, and stays: its result is the one stored. *)
THEOREM Durable == Spec => []AnswerIsDurable
<1>1. ASSUME IInv, NEW c \in Calls, answer[c] = "ok"
      PROVE  CASE op[c] = "create"   -> /\ status[target[c]] # "absent"
                                        /\ scope[target[c]] = asserted[c]
               [] op[c] = "claim"    -> status[target[c]] \in {"claimed", "completed"}
               [] op[c] = "complete" -> result[target[c]] = given[c]
               [] OTHER              -> TRUE
  <2>1. Told(c)
    BY <1>1 DEF IInv, CallInv
  <2>2. CASE op[c] = "create"
    BY <1>1, <2>1, <2>2 DEF Told
  <2>3. CASE op[c] = "claim"
    BY <1>1, <2>1, <2>3 DEF Told
  <2>4. CASE op[c] = "complete"
    BY <1>1, <2>1, <2>4 DEF Told
  <2>5. CASE op[c] \notin {"create", "claim", "complete"}
    BY <2>5
  <2> QED BY <2>2, <2>3, <2>4, <2>5
<1>2. IInv => AnswerIsDurable
  BY <1>1 DEF AnswerIsDurable
<1> QED BY <1>2, Invariant, PTL

------------------------------------------------------------------------------
(* What a step may do to the rows *)

\* Only a commit writes a row.
LEMMA RowsStay ==
  ASSUME [Next]_vars, ~ \E c \in Calls : Commit(c) \/ CommitAckLost(c)
  PROVE  UNCHANGED <<status, result, events, mails>>
<1>1. ASSUME NEW c \in Calls,
             CreateRow(c) \/ GetRow(c) \/ ScopeRow(c) \/ CompleteRecipient(c)
      PROVE  UNCHANGED jobVars
  BY <1>1 DEF CreateRow, GetRow, ScopeRow, CompleteRecipient
<1>2. ASSUME NEW c \in Calls, Lock(c) PROVE UNCHANGED jobVars
  BY <1>2 DEF Lock, ClaimRow, CompleteRow, SelectJob
<1>3. ASSUME NEW c \in Clients, NEW o, NEW s, NEW j, Ask(c, o, s, j)
      PROVE  UNCHANGED jobVars
  BY <1>3 DEF Ask
<1>4. ASSUME NEW c \in Workers, Request(c) PROVE UNCHANGED jobVars
  BY <1>4 DEF Request, Call
<1>5. CASE UNCHANGED vars
  BY <1>5 DEF vars, jobVars
<1>6. ASSUME NEW c \in Calls, Serve(c), ~Commit(c) PROVE UNCHANGED jobVars
  BY <1>1, <1>6 DEF Serve
<1>7. CASE \E c \in Calls : Serve(c) \/ Lock(c)
  BY <1>2, <1>6, <1>7 DEF jobVars
<1>8. CASE \E c \in Calls : CallFails(c) /\ UNCHANGED <<jobVars, workVars>>
  BY <1>8 DEF jobVars
<1>9. CASE ChangeAccess /\ UNCHANGED <<jobVars, workVars>>
  BY <1>9 DEF jobVars
<1>10. CASE \E c \in Clients, o \in {"create", "get"}, s \in Scopes, j \in Jobs :
              Ask(c, o, s, j)
  BY <1>3, <1>10 DEF jobVars
<1>11. CASE \E c \in Workers : Request(c)
  BY <1>4, <1>11 DEF jobVars
<1> QED BY <1>5, <1>7, <1>8, <1>9, <1>10, <1>11 DEF Next, jobVars

\* A delivery is ordered while its requester, locked, has access.
LEMMA StepAuthorized ==
  ASSUME IInv, [Next]_vars
  PROVE  \A j \in Jobs : mails'[j] # mails[j] => Authorized(scope[j])
<1> SUFFICES ASSUME NEW j \in Jobs, mails'[j] # mails[j]
             PROVE  Authorized(scope[j])
  OBVIOUS
<1>1. PICK c \in Calls : Commit(c) \/ CommitAckLost(c)
  BY RowsStay
<1>2. pc[c] = "commit" /\ Apply(c)
  BY <1>1 DEF Commit, CommitAckLost
<1>3. op[c] = "complete" /\ mails' = [mails EXCEPT ![target[c]] = @ + 1]
  BY <1>2 DEF Apply
<1>4. target[c] = j
  BY <1>3 DEF IInv, TypeOK
<1> QED BY <1>2, <1>3, <1>4 DEF IInv, CallInv, Vouched

(* No job is completed, and no delivery ordered, after a revocation. *)
THEOREM Authorization == Spec => CompletionIsAuthorized
<1>1. IInv /\ [Next]_vars =>
        [\A j \in Jobs : mails'[j] # mails[j] => Authorized(scope[j])]_vars
  BY StepAuthorized
<1> QED BY <1>1, Invariant, PTL DEF Spec, CompletionIsAuthorized

\* A commit is the contract's step of its operation.
LEMMA CommitImplements ==
  ASSUME IInv, NEW c \in Calls, pc[c] = "commit", Apply(c)
  PROVE  Contract!Next
<1> DEFINE j == target[c]
<1>1. /\ j \in Jobs /\ op[c] \in {"create", "claim", "complete"} /\ RowInv(j)
      /\ events \in [Types -> [Jobs -> 0..1]] /\ mails \in [Jobs -> 0..1]
  BY ApplyFacts DEF IInv, TypeOK
<1>2. CASE op[c] = "create"
  <2>1. /\ status[j] = "absent" /\ status' = [status EXCEPT ![j] = "pending"]
        /\ events' = [events EXCEPT !["requested"][j] = @ + 1]
        /\ UNCHANGED <<result, mails>>
    BY <1>2, ApplyFacts DEF Apply
  <2>2. events["requested"][j] = 0
    BY <1>1, <2>1 DEF RowInv
  <2>3. events' = [events EXCEPT !["requested"][j] = 1]
    BY <2>1, <2>2
  <2>4. Contract!Request(j)
    BY <2>1, <2>3 DEF Contract!Request
  <2> QED BY <1>1, <2>4 DEF Contract!Next
<1>3. CASE op[c] = "claim"
  <2>1. Contract!Claim(j)
    BY <1>3, ApplyFacts DEF Contract!Claim
  <2> QED BY <1>1, <2>1 DEF Contract!Next
<1>4. CASE op[c] = "complete"
  <2>1. /\ status[j] = "claimed" /\ given[c] \in Results
        /\ status' = [status EXCEPT ![j] = "completed"]
        /\ result' = [result EXCEPT ![j] = given[c]]
        /\ events' = [events EXCEPT !["completed"][j] = @ + 1,
                                    !["email"][j] = @ + 1]
        /\ mails' = [mails EXCEPT ![j] = @ + 1]
    BY <1>4, ApplyFacts DEF Apply
  <2>2. events["completed"][j] = 0 /\ events["email"][j] = 0 /\ mails[j] = 0
    BY <1>1, <2>1 DEF RowInv
  <2>3. /\ events' = [events EXCEPT !["completed"][j] = 1, !["email"][j] = 1]
        /\ mails' = [mails EXCEPT ![j] = 1]
    BY <1>1, <2>1, <2>2 DEF Types
  <2>4. Contract!Complete(j, given[c])
    BY <2>1, <2>3 DEF Contract!Complete
  <2> QED BY <1>1, <2>1, <2>4 DEF Contract!Next
<1> QED BY <1>1, <1>2, <1>3, <1>4

LEMMA StepImplements ==
  ASSUME IInv, [Next]_vars
  PROVE  Contract!Next \/ UNCHANGED <<status, result, events, mails>>
<1>1. CASE \E c \in Calls : Commit(c) \/ CommitAckLost(c)
  BY <1>1, CommitImplements DEF Commit, CommitAckLost
<1> QED BY <1>1, RowsStay

(* Calls, locks, failures and lost answers implement the contract of a job. *)
THEOREM Implements == Spec => ContractSpec
<1>1. Init => Contract!Init
  BY DEF Init, Contract!Init, Types, Contract!Types
<1>2. IInv /\ [Next]_vars => [Contract!Next]_<<status, result, events, mails>>
  BY StepImplements
<1> QED BY <1>1, <1>2, Invariant, PTL DEF Spec, ContractSpec, Contract!Spec
=============================================================================
