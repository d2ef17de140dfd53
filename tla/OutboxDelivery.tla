--------------------------- MODULE OutboxDelivery ---------------------------
(***************************************************************************)
(* What the transactional outbox promises to the services that write it    *)
(* and to the workers that read the streams: a committed outbox row gets   *)
(* at most one stream entry, and the row is marked published only after    *)
(* that entry exists.                                                      *)
(***************************************************************************)
EXTENDS Naturals

CONSTANTS Events,       \* outbox rows
          Deliverable   \* the rows among them whose payload satisfies its contract

VARIABLES requested,    \* rows a service has committed
          copies,       \* how many stream entries were ever made of a row
          confirmed     \* rows with published_at set

vars == <<requested, copies, confirmed>>

Init == /\ requested = {}
        /\ copies = [e \in Events |-> 0]
        /\ confirmed = {}

\* One transaction may write several rows.
Request(E) == /\ E # {} /\ E \cap requested = {}
              /\ requested' = requested \cup E
              /\ UNCHANGED <<copies, confirmed>>

Send(e) == /\ e \in requested \cap Deliverable
           /\ copies[e] = 0
           /\ copies' = [copies EXCEPT ![e] = 1]
           /\ UNCHANGED <<requested, confirmed>>

Confirm(e) == /\ copies[e] = 1
              /\ e \notin confirmed
              /\ confirmed' = confirmed \cup {e}
              /\ UNCHANGED <<requested, copies>>

Next == \/ \E E \in SUBSET Events : Request(E)
        \/ \E e \in Events : Send(e) \/ Confirm(e)

Spec == Init /\ [][Next]_vars
=============================================================================
