----------------------------- MODULE RequestGate -----------------------------
(***************************************************************************)
(* What a request passes before a service is called: the configuration of  *)
(* the application and the credential of the router's role (auth.py,       *)
(* settings.py, main.py), the path-only guards, and the identity of its    *)
(* user (get_tenant_context, authenticate_user).  Requests run at the same *)
(* time; synchronous code needs one of a pool of threads.                  *)
(*                                                                         *)
(* Kinds of request: the e-mail worker's operations on a "delivery" and    *)
(* the export worker's "recovery", whose guard reads the body on the event *)
(* loop under a deadline, the diagnostic worker's "scope", which reads it  *)
(* in a thread and without one, "tenant" operations of the BFF, its        *)
(* "login", and what is left of the two workers: "diagnostic" is a claim   *)
(* or a completion, "export" one of these or a page.  A login, a creation  *)
(* and a completion carry a JSON body, which the framework awaits on the   *)
(* event loop and without a deadline before anything else.                 *)
(*                                                                         *)
(* Outside src/: the senders, which need not send, the thread pool, and    *)
(* whoever edits users and memberships.                                    *)
(***************************************************************************)
EXTENDS Integers, FiniteSets

CONSTANTS Requests,
          Threads,     \* size of the pool
          Strong,      \* values the credential validator accepts
          Weak,        \* one that it does not
          MaxChanges,  \* bound: edits of users and memberships
          Unset

ASSUME PoolAssumption == Threads \in Nat \ {0}
ASSUME ValueAssumption == Weak \notin Strong /\ Unset \notin Strong \cup {Weak}
ASSUME ChangeAssumption == MaxChanges \in Nat

VARIABLES
  settings,  \* credential of each role, or Unset
  facts,     \* what now holds of the user: active, member, password
  changes,
  pc, answer,
  request    \* what a request in flight has shown of itself:
             \*   kind, the key it was admitted with, whether its head is bare
             \*   (no query, length or transfer encoding), how far its body is
             \*   read, and, for a user's request, which facts have held at
             \*   some time since it came

userVars == <<facts, changes>>
vars == <<settings, userVars, pc, answer, request>>

Roles   == <<"web_bff", "diagnostic_worker", "export_worker", "email_worker">>
RoleOf  == [tenant |-> "web_bff", login |-> "web_bff",
            scope |-> "diagnostic_worker", diagnostic |-> "diagnostic_worker",
            recovery |-> "export_worker", export |-> "export_worker",
            delivery |-> "email_worker"]
Kinds   == DOMAIN RoleOf
OfUser  == {"tenant", "login"}
Bounded == {"recovery", "delivery"}
PathOnly == Bounded \cup {"scope"}
Facts  == {"active", "member", "password"}
Values == Strong \cup {Weak}
NoRequest == [kind |-> "tenant", key |-> Unset, bare |-> TRUE, body |-> "open",
              held |-> {}]

\* Mutant: only neighbours are compared.
DistinctNeighbours(s) == \A i, j \in DOMAIN Roles :
                           j = i + 1 => s[Roles[i]] # s[Roles[j]]

\* require_distinct_service_credentials
Distinct(s) == \A i, j \in DOMAIN Roles : i < j => s[Roles[i]] # s[Roles[j]]

\* What the Settings model accepts
Accepted(s) == Distinct(s) /\ \A i \in DOMAIN Roles : s[Roles[i]] \in Strong

Init == /\ settings \in {s \in [{Roles[i] : i \in DOMAIN Roles} -> Values] :
                           Accepted(s)} \cup {Unset}
        /\ facts = Facts
        /\ changes = 0
        /\ pc = [r \in Requests |-> "idle"]
        /\ answer = [r \in Requests |-> "none"]
        /\ request = [r \in Requests |-> NoRequest]

------------------------------------------------------------------------------
Goto(r, label) == pc' = [pc EXCEPT ![r] = label]

\* The request is answered and leaves nothing behind.
Reply(r, a) == /\ Goto(r, "idle")
               /\ answer' = [answer EXCEPT ![r] = a]
               /\ request' = [request EXCEPT ![r] = NoRequest]

Continue(r, label) == Goto(r, label) /\ UNCHANGED <<answer, request>>

\* Handlers and get_tenant_context keep their thread from step to step.
InThread == {r \in Requests : pc[r] \in {"head", "body", "user", "password",
                                         "membership", "work"}}
ThreadFree == Cardinality(InThread) < Threads

\* Whether the operations of a kind declare a JSON body
Payloads(k) == CASE k = "login" -> {TRUE}
                 [] k \in PathOnly -> {FALSE}
                 [] OTHER -> BOOLEAN

Arrive(r, k) == /\ pc[r] = "idle"
                /\ \E json \in Payloads(k) :
                     Goto(r, IF json THEN "payload" ELSE "credential")
                /\ answer' = [answer EXCEPT ![r] = "none"]
                /\ \E bare \in IF k \in PathOnly THEN BOOLEAN ELSE {TRUE} :
                     request' = [request EXCEPT ![r] =
                       [kind |-> k, key |-> Unset, bare |-> bare, body |-> "open",
                        held |-> IF k \in OfUser THEN facts ELSE {}]]
                /\ UNCHANGED <<settings, userVars>>

\* The sender has sent its JSON body, has sent something else, or is gone.
\* Dependencies come after that.
Payload(r) == /\ pc[r] = "payload"
              /\ \/ Continue(r, "credential")
                 \/ Reply(r, "unprocessable")
                 \/ Reply(r, "bad_request")
              /\ UNCHANGED <<settings, userVars>>

\* get_settings and _require_service_credential, which looks at both strings
\* once more
Credential(r) ==
  /\ pc[r] = "credential" /\ ThreadFree
  /\ \/ settings = Unset /\ Reply(r, "unavailable")
     \/ settings # Unset /\ Reply(r, "unauthorized")
     \/ /\ settings # Unset
        /\ \E presented \in Strong :
             /\ presented = settings[RoleOf[request[r].kind]]
             /\ request' = [request EXCEPT ![r].key = presented]
        /\ Goto(r, IF request[r].kind \in Bounded THEN "guard" ELSE "session")
        /\ UNCHANGED answer
  /\ UNCHANGED <<settings, userVars>>

\* get_session; the dependency or handler that uses it enters a thread.
Session(r) ==
  /\ pc[r] = "session" /\ ThreadFree
  /\ Continue(r, CASE request[r].kind = "tenant"  -> "user"
                   [] request[r].kind = "login"   -> "password"
                   [] request[r].kind = "scope"   -> "head"
                   [] OTHER -> "work")
  /\ UNCHANGED <<settings, userVars>>

------------------------------------------------------------------------------
(* The path-only guards *)

Bare(r) == request[r].bare
ReadsBody(r) == (pc[r] = "guard" /\ Bare(r)) \/ pc[r] = "body"

\* The head alone is enough to refuse.
RefuseHead(r) == /\ pc[r] \in {"guard", "head"} /\ ~Bare(r)
                 /\ Reply(r, "unprocessable")
                 /\ UNCHANGED <<settings, userVars>>

ScopeHead(r) == /\ pc[r] = "head" /\ Bare(r)
                /\ Continue(r, "body")
                /\ UNCHANGED <<settings, userVars>>

\* The sender sends data.  An empty piece that is not the last one changes
\* nothing: the framework does not hand it on, so the guard's limit on the
\* number of pieces is never what refuses a request.
BodyData(r) == /\ ReadsBody(r)
               /\ Reply(r, "unprocessable")
               /\ UNCHANGED <<settings, userVars>>

BodyEnds(r) == /\ ReadsBody(r)
               /\ request' = [request EXCEPT ![r].body = "ended"]
               /\ Goto(r, IF pc[r] = "guard" THEN "session" ELSE "work")
               /\ UNCHANGED <<settings, userVars, answer>>

SenderGone(r) == /\ ReadsBody(r)
                 /\ Reply(r, IF pc[r] = "guard" THEN "unprocessable" ELSE "error")
                 /\ UNCHANGED <<settings, userVars>>

\* Mutants: no deadline; a time-out is no reason to refuse.
DeadlineNever(r) == FALSE /\ UNCHANGED vars
DeadlineLenient(r) == /\ pc[r] = "guard" /\ Bare(r)
                      /\ Continue(r, "session")
                      /\ UNCHANGED <<settings, userVars>>

\* fail_after(0.1)
Deadline(r) == /\ pc[r] = "guard" /\ Bare(r)
               /\ Reply(r, "unprocessable")
               /\ UNCHANGED <<settings, userVars>>

------------------------------------------------------------------------------
(* The identity of the user: two statements, nothing locked *)

\* Mutant: the row of the user is enough.
UserActiveAssumed == TRUE
UserActive == "active" \in facts

\* get_tenant_context
ContextUser(r) ==
  /\ pc[r] = "user"
  /\ \/ UserActive /\ Continue(r, "membership")
     \/ ~UserActive /\ Reply(r, "forbidden")
  /\ UNCHANGED <<settings, userVars>>

\* authenticate_user: one answer to an unknown address, a wrong password and
\* an inactive user
Password(r) ==
  /\ pc[r] = "password"
  /\ \/ /\ UserActive /\ "password" \in facts
        /\ Continue(r, "membership")
     \/ Reply(r, "unauthorized")
  /\ UNCHANGED <<settings, userVars>>

Membership(r) ==
  /\ pc[r] = "membership"
  /\ \/ "member" \in facts /\ Continue(r, "work")
     \/ "member" \notin facts /\ Reply(r, "forbidden")
  /\ UNCHANGED <<settings, userVars>>

\* The service; a login or the tenant-context route only answers.
Work(r) == /\ pc[r] = "work"
           /\ Reply(r, "ok")
           /\ UNCHANGED <<settings, userVars>>

\* A statement or the service raises.
StatementFails(r) == /\ pc[r] \in {"user", "password", "membership", "work"}
                     /\ Reply(r, "error")
                     /\ UNCHANGED <<settings, userVars>>

ChangeFacts ==
  /\ changes < MaxChanges /\ changes' = changes + 1
  /\ \E f \in Facts : facts' = IF f \in facts THEN facts \ {f} ELSE facts \cup {f}
  /\ request' = [r \in Requests |->
       IF pc[r] = "idle" \/ request[r].kind \notin OfUser THEN request[r]
       ELSE [request[r] EXCEPT !.held = @ \cup facts']]
  /\ UNCHANGED <<settings, pc, answer>>

------------------------------------------------------------------------------
Run(r) == \/ RefuseHead(r) \/ ScopeHead(r) \/ Deadline(r)
          \/ ContextUser(r) \/ Password(r) \/ Membership(r) \/ Work(r)
Await(r) == Credential(r) \/ Session(r)
Send(r) == Payload(r) \/ BodyData(r) \/ BodyEnds(r) \/ SenderGone(r)

Next == \/ \E r \in Requests : \/ \E k \in Kinds : Arrive(r, k)
                               \/ Run(r) \/ Await(r) \/ Send(r)
                               \/ StatementFails(r)
        \/ ChangeFacts

Spec == Init /\ [][Next]_vars

\* Code in a thread runs on, threads are given out in turn, and time passes;
\* that a sender ever sends is not assumed.
FairSpec == Spec /\ \A r \in Requests : WF_vars(Run(r)) /\ SF_vars(Await(r))

------------------------------------------------------------------------------
(* Properties *)

\* A credential that opens the routes of one role opens those of no other.
OneRolePerCredential ==
  \A q, r \in Requests : request[q].key # Unset /\ request[q].key = request[r].key
    => RoleOf[request[q].kind] = RoleOf[request[r].kind]

\* A path-only operation reaches the database only when its body is known to
\* be empty to its end, whatever the sender does about it.
EmptyBeforeDatabase ==
  \A r \in Requests :
    \/ request[r].kind \in Bounded /\ pc[r] \in {"session", "work"}
    \/ request[r].kind = "scope" /\ pc[r] = "work"
    => Bare(r) /\ request[r].body = "ended"

\* A request whose user was inactive, or no member, from before it came until
\* it was answered is not served, although the two are read one by one.
ServedWithAccess ==
  \A r \in Requests : pc[r] = "work" =>
    /\ request[r].kind \in OfUser =>
         {"active", "member"} \subseteq request[r].held
    /\ request[r].kind = "login" => "password" \in request[r].held

\* Only the sender can end this wait.
AtSender(r) == pc[r] \in {"payload", "body"}
\* Every thread waits for the sender of a scope.
PoolHeld == Cardinality({r \in Requests : pc[r] = "body"}) >= Threads

\* Every request ends, but for two kinds of wait: its own sender never finishes
\* a JSON body or the body of a scope; or it needs a thread, and senders of
\* scopes keep all of them for ever.  No guard, lock of the pool or statement
\* holds a request otherwise, however slowly it is sent.
EveryRequestEnds ==
  \A r \in Requests : \/ []<>(pc[r] = "idle")
                      \/ <>[]AtSender(r)
                      \/ <>[](PoolHeld /\ pc[r] \in {"credential", "session"})
=============================================================================
