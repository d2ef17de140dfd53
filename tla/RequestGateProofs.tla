------------------------- MODULE RequestGateProofs -------------------------
(***************************************************************************)
(* Proofs about RequestGate, for any number of requests, threads and       *)
(* credentials, whatever the senders and the editors of users do.          *)
(*                                                                         *)
(* The argument is one invariant of each request: where it stands says     *)
(* what it has shown so far.  It carries a key only if that is the         *)
(* credential of its role, of which no other role has a second copy; and   *)
(* the facts of its user that hold now are among those that held since it  *)
(* came, so whatever a statement sees is among them for good.              *)
(***************************************************************************)
EXTENDS RequestGate, TLAPS

Labels == {"idle", "payload", "credential", "session", "guard", "head", "body",
           "user", "password", "membership", "work"}
RoleNames == {Roles[i] : i \in DOMAIN Roles}
Shapes == [kind : Kinds, key : Values \cup {Unset}, bare : BOOLEAN,
           body : {"open", "ended"}, held : SUBSET Facts]

TypeOK == /\ \/ settings = Unset
             \/ settings \in [RoleNames -> Values] /\ Accepted(settings)
          /\ facts \in SUBSET Facts
          /\ pc \in [Requests -> Labels]
          /\ request \in [Requests -> Shapes]

\* The parts of the gate that belong to a kind of request
Routed(r) ==
  /\ pc[r] = "guard" => request[r].kind \in Bounded
  /\ pc[r] \in {"head", "body"} => request[r].kind = "scope"
  /\ pc[r] = "user" => request[r].kind = "tenant"
  /\ pc[r] = "password" => request[r].kind = "login"
  /\ pc[r] = "membership" => request[r].kind \in OfUser

\* A key is the one of the role, and an idle request has none.
Keyed(r) ==
  /\ pc[r] = "idle" => request[r].key = Unset
  /\ request[r].key # Unset =>
       settings # Unset /\ request[r].key = settings[RoleOf[request[r].kind]]

\* What the guard has seen of the head and of the body
Guarded(r) ==
  /\ pc[r] = "body" => request[r].bare
  /\ \/ request[r].kind \in Bounded /\ pc[r] \in {"session", "work"}
     \/ request[r].kind = "scope" /\ pc[r] = "work"
     => request[r].bare /\ request[r].body = "ended"

\* What was seen of the user had held since the request came.
Identified(r) == pc[r] # "idle" /\ request[r].kind \in OfUser =>
  /\ facts \subseteq request[r].held
  /\ pc[r] \in {"membership", "work"} =>
       /\ "active" \in request[r].held
       /\ request[r].kind = "login" => "password" \in request[r].held
  /\ pc[r] = "work" => "member" \in request[r].held

Sound(r) == Routed(r) /\ Keyed(r) /\ Guarded(r) /\ Identified(r)

IInv == TypeOK /\ \A r \in Requests : Sound(r)

------------------------------------------------------------------------------
LEMMA RoleNameFacts == /\ RoleNames = {"web_bff", "diagnostic_worker",
                                       "export_worker", "email_worker"}
                       /\ Kinds = {"tenant", "login", "scope", "diagnostic",
                                   "recovery", "export", "delivery"}
                       /\ \A k \in Kinds : RoleOf[k] \in RoleNames
                       /\ NoRequest \in Shapes
  BY DEF RoleNames, Roles, Kinds, RoleOf, NoRequest, Shapes

\* Distinct credentials: from a value back to its role.
LEMMA DistinctRoles ==
  ASSUME NEW s, Distinct(s), NEW a \in RoleNames, NEW b \in RoleNames, s[a] = s[b]
  PROVE  a = b
<1>1. PICK i, j \in DOMAIN Roles : a = Roles[i] /\ b = Roles[j]
  BY DEF RoleNames
<1>2. DOMAIN Roles = 1..4
  BY DEF Roles
<1>3. i = j \/ i < j \/ j < i
  BY <1>2
<1> QED BY <1>1, <1>3 DEF Distinct

LEMMA InitIInv == Init => IInv
<1> SUFFICES ASSUME Init PROVE IInv
  OBVIOUS
<1>1. NoRequest.key = Unset /\ NoRequest \in Shapes
  BY RoleNameFacts DEF NoRequest
<1>2. TypeOK
  BY <1>1 DEF Init, TypeOK, Labels, RoleNames
<1>3. \A r \in Requests : Sound(r)
  BY <1>1 DEF Init, Sound, Routed, Keyed, Guarded, Identified
<1> QED BY <1>2, <1>3 DEF IInv

\* A step of one request concerns no other.
LEMMA MoveKeeps ==
  ASSUME IInv, NEW r \in Requests, NEW label \in Labels, NEW q \in Shapes,
         Goto(r, label), request' = [request EXCEPT ![r] = q],
         UNCHANGED <<settings, userVars>>, Sound(r)'
  PROVE  IInv'
<1>1. TypeOK'
  BY DEF IInv, TypeOK, Goto, userVars
<1>2. ASSUME NEW s \in Requests \ {r} PROVE Sound(s)'
  BY DEF IInv, TypeOK, Goto, userVars, Sound, Routed, Keyed, Guarded, Identified
<1> QED BY <1>1, <1>2 DEF IInv

\* An answer leaves nothing behind.
LEMMA ReplyKeeps ==
  ASSUME IInv, NEW r \in Requests, NEW a, Reply(r, a), UNCHANGED <<settings, userVars>>
  PROVE  IInv'
<1>1. /\ Goto(r, "idle") /\ request' = [request EXCEPT ![r] = NoRequest]
      /\ NoRequest \in Shapes /\ NoRequest.key = Unset /\ "idle" \in Labels
  BY RoleNameFacts DEF Reply, NoRequest, Labels
<1>2. pc'[r] = "idle" /\ request'[r] = NoRequest
  BY <1>1 DEF IInv, TypeOK, Goto
<1>3. Sound(r)'
  BY <1>1, <1>2 DEF Sound, Routed, Keyed, Guarded, Identified
<1> QED BY <1>1, <1>3, MoveKeeps

\* A request that goes on has shown nothing new.
LEMMA ContinueKeeps ==
  ASSUME IInv, NEW r \in Requests, NEW label \in Labels, Continue(r, label),
         UNCHANGED <<settings, userVars>>,
         pc'[r] = label => Sound(r)'
  PROVE  IInv'
<1>1. /\ Goto(r, label) /\ request' = request
      /\ request[r] \in Shapes /\ pc'[r] = label
  BY DEF Continue, Goto, IInv, TypeOK
<1>2. request' = [request EXCEPT ![r] = request[r]]
  BY <1>1 DEF IInv, TypeOK
<1> QED BY <1>1, <1>2, MoveKeeps

LEMMA ArriveStep ==
  ASSUME IInv, NEW r \in Requests, NEW k \in Kinds, Arrive(r, k)
  PROVE  IInv'
<1>1. PICK bare \in BOOLEAN :
        request' = [request EXCEPT ![r] =
          [kind |-> k, key |-> Unset, bare |-> bare, body |-> "open",
           held |-> IF k \in OfUser THEN facts ELSE {}]]
  BY DEF Arrive
<1>2. PICK label \in {"payload", "credential"} : Goto(r, label)
  BY DEF Arrive
<1> DEFINE q == [kind |-> k, key |-> Unset, bare |-> bare, body |-> "open",
                 held |-> IF k \in OfUser THEN facts ELSE {}]
<1>3. q \in Shapes /\ label \in Labels
  BY DEF Shapes, Labels, IInv, TypeOK
<1>4. /\ UNCHANGED <<settings, userVars>>
      /\ pc'[r] = label /\ request'[r] = q /\ facts' = facts
  BY <1>1, <1>2 DEF Arrive, Goto, userVars, IInv, TypeOK
<1>5. Sound(r)'
  BY <1>4 DEF Sound, Routed, Keyed, Guarded, Identified
<1> QED BY <1>1, <1>2, <1>3, <1>4, <1>5, MoveKeeps

\* A body that is awaited shows nothing of the request.
LEMMA PayloadStep ==
  ASSUME IInv, NEW r \in Requests, Payload(r)
  PROVE  IInv'
<1>1. CASE \E a : Reply(r, a)
  BY <1>1, ReplyKeeps DEF Payload
<1>2. CASE ~ \E a : Reply(r, a)
  <2>1. /\ pc[r] = "payload" /\ Continue(r, "credential")
        /\ UNCHANGED <<settings, userVars>> /\ UNCHANGED <<settings, facts, request>>
        /\ Sound(r) /\ "credential" \in Labels
    BY <1>2 DEF Payload, Continue, userVars, IInv, Labels
  <2>2. ASSUME pc'[r] = "credential" PROVE Sound(r)'
    BY <2>1, <2>2 DEF Sound, Routed, Keyed, Guarded, Identified
  <2> QED BY <2>1, <2>2, ContinueKeeps
<1> QED BY <1>1, <1>2

LEMMA CredentialStep ==
  ASSUME IInv, NEW r \in Requests, Credential(r)
  PROVE  IInv'
<1>1. pc[r] = "credential" /\ UNCHANGED <<settings, userVars>>
  BY DEF Credential
<1>2. CASE \E a : Reply(r, a)
  BY <1>1, <1>2, ReplyKeeps
<1>3. CASE ~ \E a : Reply(r, a)
  <2>1. PICK presented \in Strong :
          /\ settings # Unset /\ presented = settings[RoleOf[request[r].kind]]
          /\ request' = [request EXCEPT ![r].key = presented]
    BY <1>3 DEF Credential
  <2> DEFINE q == [request[r] EXCEPT !.key = presented]
             label == IF request[r].kind \in Bounded THEN "guard" ELSE "session"
  <2>2. q \in Shapes /\ label \in Labels /\ Goto(r, label)
    BY <1>3 DEF Credential, Shapes, Labels, IInv, TypeOK, Values
  <2>3. /\ request' = [request EXCEPT ![r] = q]
        /\ pc'[r] = label /\ facts' = facts /\ settings' = settings
        /\ request'[r].kind = request[r].kind /\ request'[r].key = presented
        /\ request'[r].held = request[r].held
    BY <1>1, <2>1, <2>2 DEF Goto, userVars, IInv, TypeOK, Shapes
  <2>4. Sound(r)'
    BY <1>1, <2>1, <2>3
    DEF IInv, Sound, Routed, Keyed, Guarded, Identified, Bounded
  <2> QED BY <1>1, <2>2, <2>3, <2>4, MoveKeeps
<1> QED BY <1>2, <1>3

LEMMA SessionStep ==
  ASSUME IInv, NEW r \in Requests, Session(r)
  PROVE  IInv'
<1> DEFINE k == request[r].kind
           label == CASE k = "tenant"  -> "user"
                      [] k = "login"   -> "password"
                      [] k = "scope"   -> "head"
                      [] OTHER         -> "work"
<1>1. /\ pc[r] = "session" /\ Continue(r, label) /\ UNCHANGED <<settings, userVars>>
      /\ Sound(r) /\ UNCHANGED <<settings, facts, request>>
  BY DEF Session, Continue, userVars, IInv
<1>2. k \in Bounded => label = "work"
  BY DEF Bounded
<1>3. /\ label \in {"user", "password", "head", "work"}
      /\ label = "user" => k = "tenant"
      /\ label = "password" => k = "login"
      /\ label = "head" => k = "scope"
      /\ label = "work" => k \notin OfUser \cup {"scope"}
  BY DEF OfUser
<1>4. label \in Labels
  BY <1>3 DEF Labels
<1>5. ASSUME pc'[r] = label PROVE Sound(r)'
  <2> HIDE DEF label
  <2> QED BY <1>1, <1>3, <1>5
          DEF Sound, Routed, Keyed, Guarded, Identified, Bounded, OfUser
<1> HIDE DEF label
<1> QED BY <1>1, <1>4, <1>5, ContinueKeeps

\* The guards: the head, and the body to its end
LEMMA GuardStep ==
  ASSUME IInv, NEW r \in Requests,
         \/ RefuseHead(r) \/ ScopeHead(r) \/ BodyData(r) \/ BodyEnds(r)
         \/ SenderGone(r) \/ Deadline(r)
  PROVE  IInv'
<1>1. CASE RefuseHead(r) \/ BodyData(r) \/ SenderGone(r) \/ Deadline(r)
  BY <1>1, ReplyKeeps DEF RefuseHead, BodyData, SenderGone, Deadline
<1>2. CASE ScopeHead(r)
  <2>1. /\ pc[r] = "head" /\ request[r].bare /\ Continue(r, "body")
        /\ UNCHANGED <<settings, userVars>> /\ UNCHANGED <<settings, facts, request>>
        /\ Sound(r) /\ "body" \in Labels
    BY <1>2 DEF ScopeHead, Bare, Continue, userVars, IInv, Labels
  <2>2. ASSUME pc'[r] = "body" PROVE Sound(r)'
    BY <2>1, <2>2 DEF Sound, Routed, Keyed, Guarded, Identified, Bounded
  <2> QED BY <2>1, <2>2, ContinueKeeps
<1>3. CASE BodyEnds(r)
  <2> DEFINE q == [request[r] EXCEPT !.body = "ended"]
             label == IF pc[r] = "guard" THEN "session" ELSE "work"
  <2>1. /\ pc[r] = "guard" \/ (pc[r] = "body" /\ request[r].bare)
        /\ Sound(r) /\ UNCHANGED <<settings, userVars>> /\ Goto(r, label)
        /\ request' = [request EXCEPT ![r].body = "ended"]
        /\ request[r].bare
    BY <1>3
    DEF BodyEnds, ReadsBody, Bare, IInv, Sound, Guarded
  <2>2. q \in Shapes /\ label \in Labels
    BY DEF Shapes, Labels, IInv, TypeOK
  <2>3. /\ request' = [request EXCEPT ![r] = q]
        /\ pc'[r] = label /\ facts' = facts /\ settings' = settings
        /\ request'[r].kind = request[r].kind /\ request'[r].key = request[r].key
        /\ request'[r].held = request[r].held /\ request'[r].bare
        /\ request'[r].body = "ended"
    BY <2>1, <2>2 DEF Goto, userVars, IInv, TypeOK, Shapes
  <2>4. Sound(r)'
    BY <2>1, <2>3 DEF Sound, Routed, Keyed, Guarded, Identified, Bounded, OfUser
  <2> QED BY <2>1, <2>2, <2>3, <2>4, MoveKeeps
<1> QED BY <1>1, <1>2, <1>3

\* The statements: what is seen now has held since the request came.
LEMMA IdentityStep ==
  ASSUME IInv, NEW r \in Requests, ContextUser(r) \/ Password(r) \/ Membership(r)
  PROVE  IInv'
<1>1. CASE \E a : Reply(r, a)
  BY <1>1, ReplyKeeps DEF ContextUser, Password, Membership
<1>2. CASE ~ \E a : Reply(r, a)
  <2>1. /\ UNCHANGED <<settings, userVars>> /\ Sound(r)
        /\ \/ pc[r] = "user" /\ Continue(r, "membership") /\ "active" \in facts
           \/ /\ pc[r] = "password" /\ Continue(r, "membership")
              /\ {"active", "password"} \subseteq facts
           \/ pc[r] = "membership" /\ Continue(r, "work") /\ "member" \in facts
    BY <1>2 DEF ContextUser, Password, Membership, UserActive, IInv
  <2>2. UNCHANGED <<settings, facts, request>>
    BY <2>1 DEF Continue, userVars
  <2>3. ASSUME NEW label \in {"membership", "work"}, Continue(r, label),
               pc'[r] = label
        PROVE  Sound(r)'
    <3>1. label = IF pc[r] = "membership" THEN "work" ELSE "membership"
      BY <2>1, <2>3 DEF Continue, Goto, IInv, TypeOK
    <3> QED BY <2>1, <2>2, <2>3, <3>1
            DEF Sound, Routed, Keyed, Guarded, Identified, Bounded, OfUser
  <2>4. PICK label \in {"membership", "work"} : Continue(r, label)
    BY <2>1
  <2>5. label \in Labels
    BY DEF Labels
  <2> QED BY <2>1, <2>3, <2>4, <2>5, ContinueKeeps
<1> QED BY <1>1, <1>2

LEMMA ChangeStep ==
  ASSUME IInv, ChangeFacts
  PROVE  IInv'
<1>1. /\ facts' \in SUBSET Facts /\ UNCHANGED <<settings, pc>>
      /\ request' = [r \in Requests |->
           IF pc[r] = "idle" \/ request[r].kind \notin OfUser THEN request[r]
           ELSE [request[r] EXCEPT !.held = @ \cup facts']]
  BY DEF ChangeFacts, IInv, TypeOK
<1>2. ASSUME NEW r \in Requests
      PROVE  /\ request'[r] \in Shapes
             /\ request'[r].kind = request[r].kind /\ request'[r].key = request[r].key
             /\ request'[r].bare = request[r].bare
             /\ request'[r].body = request[r].body
             /\ request[r].held \subseteq request'[r].held
             /\ pc[r] # "idle" /\ request[r].kind \in OfUser =>
                  facts' \subseteq request'[r].held
  BY <1>1, <1>2 DEF IInv, TypeOK, Shapes
<1>3. TypeOK'
  BY <1>1, <1>2 DEF IInv, TypeOK
<1>4. ASSUME NEW r \in Requests PROVE Sound(r)'
  <2>1. Sound(r)
    BY DEF IInv
  <2> QED BY <1>1, <1>2, <2>1
          DEF Sound, Routed, Keyed, Guarded, Identified
<1> QED BY <1>3, <1>4 DEF IInv

LEMMA NextIInv == IInv /\ [Next]_vars => IInv'
<1> SUFFICES ASSUME IInv, [Next]_vars PROVE IInv'
  OBVIOUS
<1>1. ASSUME NEW r \in Requests,
             \/ \E k \in Kinds : Arrive(r, k)
             \/ Run(r) \/ Await(r) \/ Send(r) \/ StatementFails(r)
      PROVE  IInv'
  <2>1. ASSUME Work(r) \/ StatementFails(r) PROVE IInv'
    BY <2>1, ReplyKeeps DEF Work, StatementFails
  <2> QED BY <1>1, <2>1, ArriveStep, PayloadStep, CredentialStep, SessionStep,
             GuardStep, IdentityStep DEF Run, Await, Send
<1>2. CASE UNCHANGED vars
  BY <1>2 DEF vars, userVars, IInv, TypeOK, Sound, Routed, Keyed, Guarded,
              Identified
<1> QED BY <1>1, <1>2, ChangeStep DEF Next

(* The invariant holds of every reachable state. *)
THEOREM Invariant == Spec => []IInv
  BY InitIInv, NextIInv, PTL DEF Spec

(* Whatever opens the routes of one role opens those of no other. *)
THEOREM OneRole == Spec => []OneRolePerCredential
<1>1. ASSUME IInv, NEW q \in Requests, NEW r \in Requests,
             request[q].key # Unset, request[q].key = request[r].key
      PROVE  RoleOf[request[q].kind] = RoleOf[request[r].kind]
  <2>1. /\ settings # Unset
        /\ settings[RoleOf[request[q].kind]] = settings[RoleOf[request[r].kind]]
    BY <1>1 DEF IInv, Sound, Keyed
  <2>2. Distinct(settings)
    BY <1>1, <2>1 DEF IInv, TypeOK, Accepted
  <2>3. request[q].kind \in Kinds /\ request[r].kind \in Kinds
    BY <1>1 DEF IInv, TypeOK, Shapes
  <2> QED BY <2>1, <2>2, <2>3, RoleNameFacts, DistinctRoles
<1>2. IInv => OneRolePerCredential
  BY <1>1 DEF OneRolePerCredential
<1> QED BY <1>2, Invariant, PTL

(* No path-only request reaches the database but with its body read to an  *)
(* empty end, in whatever order its sender, the deadline and the threads   *)
(* come.                                                                   *)
THEOREM EmptyFirst == Spec => []EmptyBeforeDatabase
<1>1. IInv => EmptyBeforeDatabase
  BY DEF IInv, Sound, Guarded, EmptyBeforeDatabase, Bare
<1> QED BY <1>1, Invariant, PTL

(* What a request was served for had held at some time since it came. *)
THEOREM Served == Spec => []ServedWithAccess
<1>1. IInv => ServedWithAccess
  BY DEF IInv, Sound, Identified, ServedWithAccess, OfUser
<1> QED BY <1>1, Invariant, PTL
=============================================================================
