-------------------------- MODULE TenantCallsProofs --------------------------
(***************************************************************************)
(* Lemmas about the calls that Diagnostics and Exports share: a step of    *)
(* one call keeps its types, leaves the other calls alone and takes no     *)
(* lock from them; and a change of access passes by whoever is locked.     *)
(***************************************************************************)
EXTENDS TenantCalls, TLAPS

\* What a step of one call leaves to the others.
Apart(c) == \A b \in Calls \ {c} :
  /\ pc'[b] = pc[b] /\ op'[b] = op[b] /\ target'[b] = target[b]
  /\ asserted'[b] = asserted[b] /\ answer'[b] = answer[b]
  /\ \A j \in Jobs : jobLock[j] = b => jobLock'[j] = b
  /\ \A s \in Scopes : b \in share[s] => b \in share'[s]

\* The call itself is where it was told to go.
At(c, label) == pc'[c] = label

\* Headers come with a call and concern no other.
Assertive(c) == /\ asserted' \in [Calls -> Scopes \cup {NoScope}]
                /\ \A b \in Calls \ {c} : asserted'[b] = asserted[b]

LEMMA FaultTypes == faults \in 0..MaxFaults /\ Fault => faults' \in 0..MaxFaults
  BY FaultAssumption DEF Fault

\* Locks are given back: the call's own and no other.
LEMMA UnlockTypes ==
  ASSUME NEW labels, NEW ops, CallTypeOK(labels, ops), NEW c \in Calls, Unlock(c)
  PROVE  /\ jobLock' \in [Jobs -> Calls \cup {Free}]
         /\ share' \in [Scopes -> SUBSET Calls]
         /\ \A b \in Calls \ {c} :
              /\ \A j \in Jobs : jobLock[j] = b => jobLock'[j] = b
              /\ \A s \in Scopes : b \in share[s] => b \in share'[s]
  BY DEF CallTypeOK, Unlock

\* A call that replies is idle.
LEMMA ReplyMoves ==
  ASSUME NEW labels, NEW ops, CallTypeOK(labels, ops), "idle" \in labels,
         NEW c \in Calls, NEW kind \in Kinds, Reply(c, kind),
         UNCHANGED <<accessVars, requestVars>>, faults' \in 0..MaxFaults
  PROVE  /\ CallTypeOK(labels, ops)' /\ Apart(c)
         /\ At(c, "idle") /\ answer'[c] = kind
<1>1. Unlock(c)
  BY DEF Reply
<1>2. /\ pc' = [pc EXCEPT ![c] = "idle"] /\ answer' = [answer EXCEPT ![c] = kind]
      /\ UNCHANGED <<active, members, op, target, asserted>>
  BY DEF Reply, Goto, accessVars, requestVars
<1> QED BY <1>1, <1>2, UnlockTypes DEF CallTypeOK, Apart, At

\* A call that goes on keeps its locks and its answer.
LEMMA GotoMoves ==
  ASSUME NEW labels, NEW ops, CallTypeOK(labels, ops),
         NEW c \in Calls, NEW label \in labels, Goto(c, label),
         UNCHANGED <<accessVars, lockVars, requestVars, answer, faults>>
  PROVE  CallTypeOK(labels, ops)' /\ Apart(c) /\ At(c, label)
  BY DEF Goto, accessVars, lockVars, requestVars, CallTypeOK, Apart, At

\* A new request of an idle call.
LEMMA ArriveMoves ==
  ASSUME NEW labels, NEW ops, CallTypeOK(labels, ops),
         NEW c \in Calls, NEW label \in labels, NEW o \in ops, NEW j \in Jobs,
         Arrive(c, label, o, j), Assertive(c)
  PROVE  /\ CallTypeOK(labels, ops)' /\ Apart(c) /\ At(c, label)
         /\ op'[c] = o /\ target'[c] = j /\ answer'[c] = "none"
         /\ UNCHANGED <<active, members>>
  BY DEF Arrive, Goto, accessVars, lockVars, CallTypeOK, Apart, At, Kinds,
         Assertive

\* The two reads of get_tenant_context
LEMMA ContextMoves ==
  ASSUME NEW labels, NEW ops, CallTypeOK(labels, ops),
         {"idle", "membership"} \subseteq labels, ops \subseteq labels,
         NEW c \in Calls, ContextUser(c) \/ ContextMembership(c)
  PROVE  /\ CallTypeOK(labels, ops)' /\ Apart(c)
         /\ UNCHANGED <<active, members, op, target, asserted>>
         /\ \/ At(c, "idle") /\ answer'[c] = "forbidden"
            \/ At(c, "membership") /\ pc[c] = "user" /\ UNCHANGED answer
            \/ At(c, op[c]) /\ pc[c] = "membership" /\ UNCHANGED answer
<1>1. UNCHANGED <<active, members, op, target, asserted, faults>>
  BY DEF ContextUser, ContextMembership, accessVars, requestVars
<1>2. faults' \in 0..MaxFaults /\ op[c] \in labels
  BY <1>1 DEF CallTypeOK
<1>3. CASE Reply(c, "forbidden")
  BY <1>1, <1>2, <1>3, ReplyMoves DEF Kinds, accessVars, requestVars
<1>4. ASSUME NEW label \in labels, Goto(c, label), UNCHANGED <<lockVars, answer>>
      PROVE  CallTypeOK(labels, ops)' /\ Apart(c) /\ At(c, label)
  BY <1>1, <1>4, GotoMoves DEF accessVars, requestVars
<1>5. CASE ContextUser(c)
  BY <1>1, <1>3, <1>4, <1>5 DEF ContextUser
<1>6. CASE ContextMembership(c)
  BY <1>1, <1>2, <1>3, <1>4, <1>6 DEF ContextMembership
<1> QED BY <1>5, <1>6

\* Any failure ends the call.
LEMMA FailMoves ==
  ASSUME NEW labels, NEW ops, CallTypeOK(labels, ops), "idle" \in labels,
         NEW c \in Calls, CallFails(c)
  PROVE  /\ CallTypeOK(labels, ops)' /\ Apart(c)
         /\ UNCHANGED <<active, members, op, target, asserted>>
         /\ At(c, "idle") /\ answer'[c] = "error"
<1>1. faults' \in 0..MaxFaults
  BY FaultTypes DEF CallFails, CallTypeOK
<1>2. /\ Reply(c, "error") /\ UNCHANGED <<accessVars, requestVars>>
      /\ "error" \in Kinds
  BY DEF CallFails, Kinds
<1> QED BY <1>1, <1>2, ReplyMoves DEF accessVars, requestVars

LEMMA RespondMoves ==
  ASSUME NEW labels, NEW ops, CallTypeOK(labels, ops), "idle" \in labels,
         NEW c \in Calls, Respond(c)
  PROVE  /\ CallTypeOK(labels, ops)' /\ Apart(c)
         /\ UNCHANGED <<active, members, op, target, asserted>>
         /\ At(c, "idle") /\ answer'[c] = "ok"
<1>1. /\ Reply(c, "ok") /\ UNCHANGED <<accessVars, requestVars>>
      /\ faults' \in 0..MaxFaults /\ "ok" \in Kinds
  BY DEF Respond, Kinds, CallTypeOK
<1> QED BY <1>1, ReplyMoves DEF accessVars, requestVars

\* Users and memberships are typed and edited around the share locks: who is
\* locked with access keeps it.
LEMMA AccessKeeps ==
  ASSUME NEW labels, NEW ops, CallTypeOK(labels, ops), ChangeAccess
  PROVE  /\ CallTypeOK(labels, ops)'
         /\ UNCHANGED <<jobLock, share, pc, op, target, asserted, answer>>
         /\ \A c \in Calls, s \in Scopes :
              c \in share[s] /\ Authorized(s) => Authorized(s)'
<1>1. UNCHANGED <<jobLock, share, pc, op, target, asserted, answer, faults>>
  BY DEF ChangeAccess, lockVars, requestVars
<1>2. ASSUME NEW u \in Users, SetActive(u)
      PROVE  /\ active' \in SUBSET Users /\ members' = members
             /\ \A c \in Calls, s \in Scopes :
                  c \in share[s] /\ s[1] \in active => s[1] \in active'
  BY <1>2 DEF SetActive, CallTypeOK
<1>3. ASSUME NEW t \in Scopes, SetMember(t)
      PROVE  /\ members' \in SUBSET Scopes /\ active' = active
             /\ \A c \in Calls, s \in Scopes :
                  c \in share[s] /\ s \in members => s \in members'
  BY <1>3 DEF SetMember, CallTypeOK
<1>4. CASE \E u \in Users : SetActive(u)
  BY <1>1, <1>2, <1>4 DEF CallTypeOK, Authorized
<1>5. CASE \E t \in Scopes : SetMember(t)
  BY <1>1, <1>3, <1>5 DEF CallTypeOK, Authorized
<1> QED BY <1>4, <1>5 DEF ChangeAccess
=============================================================================
