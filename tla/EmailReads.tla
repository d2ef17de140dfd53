------------------------------ MODULE EmailReads ------------------------------
(***************************************************************************)
(* What a reader of a delivery is told (get_authoritative_delivery), by a  *)
(* history variable: every state the delivery was in while the call ran.   *)
(***************************************************************************)
EXTENDS EmailDeliveries

VARIABLE held  \* per call, the <status, address> pairs that were in force

\* pending with the user's present address, or what the claim froze
Authority(d) == [status |-> status[d],
                 email |-> IF status[d] = "pending" THEN recipient[RecipientOf[d]]
                                                    ELSE snapshot[d]]

ReadInit == Init /\ held = [c \in Calls |-> {}]

ReadNext == /\ Next
            /\ held' = [c \in Calls |->
                          IF pc'[c] = "idle" THEN {}
                          ELSE held[c] \cup {Authority(target[c])'}]

ReadSpec == ReadInit /\ [][ReadNext]_<<vars, held>>

\* "Return current authority for pending, or frozen authority after claim"
\* (services/email_deliveries.py:150): the answer was true at some moment of
\* the call.
GetIsCurrent ==
  \A c \in Calls : pc[c] = "respond" /\ op[c] = "get" => copy[c] \in held[c]
=============================================================================
