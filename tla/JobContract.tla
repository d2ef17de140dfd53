----------------------------- MODULE JobContract -----------------------------
(***************************************************************************)
(* What a job, diagnostic or export, promises whoever looks only at        *)
(* committed rows: it is requested, claimed and completed once and in this *)
(* order, and each step appears with its outbox events and its e-mail or   *)
(* not at all.                                                             *)
(***************************************************************************)
EXTENDS Naturals

CONSTANTS Jobs, Results, NoResult

VARIABLES state, result,
          events,  \* outbox rows per event type and job
          mails    \* deliveries per job

Types == {"requested", "completed", "email"}

Init == /\ state = [j \in Jobs |-> "absent"]
        /\ result = [j \in Jobs |-> NoResult]
        /\ events = [t \in Types |-> [j \in Jobs |-> 0]]
        /\ mails = [j \in Jobs |-> 0]

Request(j) == /\ state[j] = "absent"
              /\ state' = [state EXCEPT ![j] = "pending"]
              /\ events' = [events EXCEPT !["requested"][j] = 1]
              /\ UNCHANGED <<result, mails>>

Claim(j) == /\ state[j] = "pending"
            /\ state' = [state EXCEPT ![j] = "claimed"]
            /\ UNCHANGED <<result, events, mails>>

Complete(j, r) == /\ state[j] = "claimed"
                  /\ state' = [state EXCEPT ![j] = "completed"]
                  /\ result' = [result EXCEPT ![j] = r]
                  /\ events' = [events EXCEPT !["completed"][j] = 1,
                                              !["email"][j] = 1]
                  /\ mails' = [mails EXCEPT ![j] = 1]

Next == \E j \in Jobs : \/ Request(j) \/ Claim(j)
                        \/ \E r \in Results : Complete(j, r)

Spec == Init /\ [][Next]_<<state, result, events, mails>>
=============================================================================
