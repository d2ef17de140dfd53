---------------------------- MODULE EmailContract ----------------------------
(***************************************************************************)
(* What an e-mail delivery promises whoever looks only at committed rows   *)
(* and at the mailbox: it is claimed once, which freezes an address; one   *)
(* mail at most is sent, and to that address; one report at most ends it.  *)
(***************************************************************************)
EXTENDS Naturals

CONSTANTS Deliveries, Emails, NoEmail

VARIABLES state,
          address,  \* recipient_email_snapshot
          mailed    \* addresses of the mails sent

Init == /\ state = [d \in Deliveries |-> "absent"]
        /\ address = [d \in Deliveries |-> NoEmail]
        /\ mailed = [d \in Deliveries |-> <<>>]

Create(d) == /\ state[d] = "absent"
             /\ state' = [state EXCEPT ![d] = "pending"]
             /\ UNCHANGED <<address, mailed>>

Claim(d, a) == /\ state[d] = "pending"
               /\ state' = [state EXCEPT ![d] = "sending"]
               /\ address' = [address EXCEPT ![d] = a]
               /\ UNCHANGED mailed

Mail(d) == /\ address[d] # NoEmail /\ mailed[d] = <<>>
           /\ mailed' = [mailed EXCEPT ![d] = <<address[d]>>]
           /\ UNCHANGED <<state, address>>

Report(d, outcome) == /\ state[d] = "sending"
                      /\ state' = [state EXCEPT ![d] = outcome]
                      /\ UNCHANGED <<address, mailed>>

Next == \E d \in Deliveries : \/ Create(d) \/ Mail(d)
                              \/ \E a \in Emails : Claim(d, a)
                              \/ \E o \in {"sent", "failed"} : Report(d, o)

Spec == Init /\ [][Next]_<<state, address, mailed>>
=============================================================================
