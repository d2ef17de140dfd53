----------------------- MODULE EmailDeliveriesProofs -----------------------
(***************************************************************************)
(* Proofs about EmailDeliveries, for any number of calls, deliveries,      *)
(* users, addresses, faults and ticks, and whatever the workers report.    *)
(*                                                                         *)
(* The argument: a call that is about to write holds the row lock, so the  *)
(* status it read still stands when it commits; a delivery leaves pending  *)
(* by one commit, so at most one call is ever answered its claim, and      *)
(* until that call mails, the mailbox is empty.                            *)
(***************************************************************************)
EXTENDS EmailDeliveries, TLAPS

Writing  == {"recipient", "commit"}
Answered == {"respond", "mailing"}

\* A call under way has a delivery, and a statement that its operation has.
Targeted == \A c \in Calls :
  /\ pc[c] # "idle" => target[c] \in Deliveries
  /\ pc[c] = "commit" => op[c] # "get"
  /\ pc[c] = "recipient" => op[c] \in {"claim", "get"}
  /\ pc[c] = "mailing" => op[c] = "claim"

\* Who is about to write holds the row ...
Locked == \A c \in Calls :
  pc[c] \in Writing /\ op[c] # "get" => rowLock[target[c]] = c

\* ... and what it read of the row still stands.
InHand == \A c \in Calls :
  /\ pc[c] \in Writing /\ op[c] = "claim" => status[target[c]] = "pending"
  /\ pc[c] = "commit" /\ op[c] = "claim" =>
       copy[c].status = "sending" /\ copy[c].email \in Emails
  /\ pc[c] = "commit" /\ op[c] # "claim" =>
       copy[c].status = op[c] /\ status[target[c]] = "sending"

\* The call whose claim is committed: the only one, with nothing mailed yet.
HasLeave(c) == pc[c] \in Answered /\ op[c] = "claim"
Leave == \A c \in Calls : HasLeave(c) =>
  /\ copy[c].email = snapshot[target[c]] /\ copy[c].email \in Emails
  /\ mailed[target[c]] = <<>>
  /\ \A b \in Calls : HasLeave(b) /\ target[b] = target[c] => b = c

Mailbox == \A d \in Deliveries :
  /\ mailed[d] \in {<<>>, <<snapshot[d]>>}
  /\ snapshot[d] = NoEmail => mailed[d] = <<>>

IInv == TypeOK /\ Targeted /\ Locked /\ InHand /\ Leave /\ Mailbox

\* Who holds the share lock on a user: some calls, or the writer alone.
LEMMA NobodyHolds == {} \in Holders /\ {Writer} \in Holders
  BY DEF Holders

LEMMA HolderFacts ==
  ASSUME NEW h \in Holders, NEW c \in Calls
  PROVE  /\ h \ {c} \in Holders
         /\ Writer \notin h => h \cup {c} \in Holders
<1>1. Writer # c
  BY ValueAssumption
<1>2. CASE h \in SUBSET Calls
  <2>1. h \ {c} \in SUBSET Calls /\ h \cup {c} \in SUBSET Calls
    BY <1>2
  <2> QED BY <2>1 DEF Holders
<1>3. CASE h = {Writer}
  <2>1. h \ {c} = h
    BY <1>1, <1>3
  <2> QED BY <1>3, <2>1 DEF Holders
<1> QED BY <1>2, <1>3 DEF Holders

------------------------------------------------------------------------------
LEMMA InitIInv == Init => IInv
<1> SUFFICES ASSUME Init PROVE IInv
  OBVIOUS
<1> USE DEF Init
<1>1. TypeOK
  BY TimeAssumption, ValueAssumption, NobodyHolds
  DEF TypeOK, DeliveryState, States, Times, Ops, Copies, Kinds, Blank
<1>2. Targeted /\ Locked /\ InHand /\ Leave /\ Mailbox
  BY DEF Targeted, Locked, InHand, Leave, HasLeave, Mailbox, Writing, Answered
<1> QED BY <1>1, <1>2 DEF IInv

(* Types *)

\* The lock of a call is given back.
LEMMA UnlockTypes ==
  ASSUME TypeOK, NEW c \in Calls, Unlock(c)
  PROVE  /\ rowLock' \in [Deliveries -> Calls \cup {Free}]
         /\ share' \in [Users -> Holders]
<1>1. \A u \in Users : share[u] \ {c} \in Holders
  BY HolderFacts DEF TypeOK
<1> QED BY <1>1 DEF Unlock, TypeOK

\* What is left of a call that has ended; the other calls are untouched.
LEMMA Forgotten ==
  ASSUME TypeOK, NEW c \in Calls, Forget(c)
  PROVE  /\ pc' \in [Calls -> {"idle", "row", "recipient", "commit", "respond",
                               "mailing"}]
         /\ op' \in [Calls -> Ops]
         /\ target' \in [Calls -> Deliveries \cup {NoDelivery}]
         /\ began' \in [Calls -> Times]
         /\ copy' \in [Calls -> Copies]
         /\ pc'[c] = "idle" /\ began'[c] = 0
         /\ \A b \in Calls \ {c} :
              /\ pc'[b] = pc[b] /\ op'[b] = op[b] /\ target'[b] = target[b]
              /\ began'[b] = began[b] /\ copy'[b] = copy[b]
<1>1. 0 \in Times
  BY TimeAssumption DEF Times
<1>2. Blank \in Copies
  BY DEF Blank, Copies, States
<1> QED BY <1>1, <1>2 DEF Forget, Goto, TypeOK, Ops

LEMMA CommitTypes ==
  ASSUME IInv, NEW c \in Calls, pc[c] = "commit", Apply(c)
  PROVE  /\ status' \in [Deliveries -> States]
         /\ snapshot' \in [Deliveries -> Emails \cup {NoEmail}]
         /\ attempted' \in [Deliveries -> Times \cup {NoTime}]
         /\ sent' \in [Deliveries -> Times \cup {NoTime}]
         /\ DeliveryState'
<1> DEFINE d == target[c]
<1>1. d \in Deliveries /\ op[c] \in {"claim", "sent", "failed"}
  BY DEF IInv, Targeted, TypeOK, Ops
<1>2. began[c] \in Times /\ began[c] # NoTime
  BY TimeAssumption, ValueAssumption DEF IInv, TypeOK, Times
<1> USE DEF Apply
<1>3. CASE op[c] = "claim"
  <2>1. /\ status[d] = "pending" /\ copy[c].status = "sending"
        /\ copy[c].email \in Emails /\ copy[c].email # NoEmail
    BY <1>3, ValueAssumption DEF IInv, InHand, Writing
  <2>2. /\ status' = [status EXCEPT ![d] = "sending"]
        /\ snapshot' = [snapshot EXCEPT ![d] = copy[c].email]
        /\ attempted' = [attempted EXCEPT ![d] = began[c]]
        /\ sent' = sent
    BY <1>3, <2>1
  <2>3. sent[d] = NoTime
    BY <1>1, <2>1 DEF IInv, TypeOK, DeliveryState
  <2> HIDE DEF Apply
  <2>4. DeliveryState'
    BY <1>1, <1>2, <2>1, <2>2, <2>3 DEF IInv, TypeOK, DeliveryState
  <2> QED BY <1>1, <1>2, <2>1, <2>2, <2>4 DEF IInv, TypeOK, States
<1>4. CASE op[c] # "claim"
  <2>1. status[d] = "sending" /\ copy[c].status = op[c]
    BY <1>4 DEF IInv, InHand
  <2>2. /\ status' = [status EXCEPT ![d] = op[c]]
        /\ sent' = [sent EXCEPT ![d] = IF op[c] = "sent" THEN began[c]
                                                        ELSE NoTime]
        /\ UNCHANGED <<snapshot, attempted>>
    BY <1>4, <2>1
  <2> HIDE DEF Apply
  <2>3. DeliveryState'
    BY <1>1, <1>2, <1>4, <2>1, <2>2 DEF IInv, TypeOK, DeliveryState
  <2> QED BY <1>1, <1>2, <1>4, <2>2, <2>3 DEF IInv, TypeOK, States
<1> QED BY <1>3, <1>4

(* Steps of a call that write no row: only the call itself moves. *)

\* What such a step leaves alone.
Still(c) == /\ UNCHANGED <<deliveryVars, mailed>>
            /\ pc' = [pc EXCEPT ![c] = pc'[c]]
            /\ op' = [op EXCEPT ![c] = op'[c]]
            /\ target' = [target EXCEPT ![c] = target'[c]]
            /\ copy' = [copy EXCEPT ![c] = copy'[c]]
            /\ \A d \in Deliveries, b \in Calls \ {c} :
                 rowLock[d] = b => rowLock'[d] = b
            /\ TypeOK'

\* It keeps the invariant if the moving call has no claim it did not have
\* before, and nothing to write it did not read.
LEMMA StillKeeps ==
  ASSUME IInv, NEW c \in Calls, Still(c),
         \/ pc'[c] \in {"idle", "row"}
         \/ pc'[c] = "recipient" /\ op'[c] = "get"
         \/ pc'[c] = "respond" /\ op'[c] # "claim",
         pc'[c] # "idle" => target'[c] \in Deliveries
  PROVE  IInv'
<1>1. \A b \in Calls \ {c} : /\ pc'[b] = pc[b] /\ op'[b] = op[b]
                             /\ target'[b] = target[b] /\ copy'[b] = copy[b]
  BY DEF Still, IInv, TypeOK
<1>2. UNCHANGED <<status, snapshot, attempted, sent, mailed>>
  BY DEF Still, deliveryVars
<1>3. Targeted' /\ InHand' /\ Mailbox'
  BY <1>1, <1>2 DEF IInv, Targeted, InHand, Mailbox, Writing
<1>4. Locked'
  BY <1>1 DEF IInv, Targeted, Locked, Writing, Still
<1>5. Leave'
  BY <1>1, <1>2 DEF IInv, Leave, HasLeave, Answered
<1> QED BY <1>3, <1>4, <1>5 DEF IInv, Still

LEMMA ForgetStep ==
  ASSUME IInv, NEW c \in Calls, Forget(c), Unlock(c) \/ UNCHANGED lockVars,
         UNCHANGED <<deliveryVars, worldVars, now>>,
         answer' \in [Calls -> Kinds], faults' \in 0..MaxFaults
  PROVE  IInv'
<1>1. TypeOK'
  <2>1. /\ rowLock' \in [Deliveries -> Calls \cup {Free}]
        /\ share' \in [Users -> Holders]
    BY UnlockTypes DEF lockVars, IInv, TypeOK
  <2> QED BY <2>1, Forgotten
          DEF IInv, TypeOK, DeliveryState, deliveryVars, worldVars
<1>2. Still(c)
  <2>1. /\ pc' = [pc EXCEPT ![c] = pc'[c]]
        /\ op' = [op EXCEPT ![c] = op'[c]]
        /\ target' = [target EXCEPT ![c] = target'[c]]
        /\ copy' = [copy EXCEPT ![c] = copy'[c]]
    BY DEF Forget, Goto, IInv, TypeOK
  <2>2. \A d \in Deliveries, b \in Calls \ {c} :
          rowLock[d] = b => rowLock'[d] = b
    BY DEF Unlock, lockVars
  <2> QED BY <1>1, <2>1, <2>2 DEF Still, worldVars
<1>3. pc'[c] = "idle"
  BY Forgotten DEF IInv
<1> QED BY <1>2, <1>3, StillKeeps

LEMMA BeginStep ==
  ASSUME IInv, NEW c \in Calls, NEW o \in Ops, NEW d \in Deliveries,
         Begin(c, o, d)
  PROVE  IInv'
<1> USE DEF Begin, Goto, lockVars, worldVars
<1>1. TypeOK'
  BY DEF IInv, TypeOK, DeliveryState, deliveryVars, Kinds
<1>2. Still(c)
  BY <1>1 DEF Still, IInv, TypeOK
<1>3. pc'[c] = "row" /\ target'[c] = d
  BY DEF IInv, TypeOK
<1> HIDE DEF Begin
<1> QED BY <1>2, <1>3, StillKeeps

\* Every refusal, failure and rolled back call.
LEMMA ReplyStep ==
  ASSUME IInv, NEW c \in Calls, NEW kind \in Kinds, Reply(c, kind),
         UNCHANGED <<deliveryVars, worldVars, now>>,
         faults' \in 0..MaxFaults
  PROVE  IInv'
<1>1. answer' \in [Calls -> Kinds]
  BY DEF Reply, IInv, TypeOK
<1> QED BY <1>1, ForgetStep DEF Reply

LEMMA FaultTypes == TypeOK /\ Fault => faults' \in 0..MaxFaults
  BY TimeAssumption DEF TypeOK, Fault

LEMMA FailStep ==
  ASSUME IInv, NEW c \in Calls, CallFails(c) PROVE IInv'
  BY ReplyStep, FaultTypes DEF CallFails, IInv, Kinds

\* A call under way moves on without a write: what is left to show of it.
LEMMA MoveStep ==
  ASSUME IInv, NEW c \in Calls, NEW label, Goto(c, label),
         \/ label = "recipient" /\ op[c] = "get"
         \/ label = "respond" /\ op[c] # "claim",
         target[c] \in Deliveries,
         copy' = [copy EXCEPT ![c] = copy'[c]], copy'[c] \in Copies,
         answer' \in [Calls -> Kinds],
         UNCHANGED <<deliveryVars, lockVars, callVars, worldVars, now, faults>>
  PROVE  IInv'
<1> USE DEF lockVars, callVars, worldVars
<1>1. TypeOK'
  BY DEF IInv, TypeOK, DeliveryState, deliveryVars, Goto
<1>2. Still(c)
  BY <1>1 DEF Still, IInv, TypeOK, Goto
<1>3. pc'[c] = label /\ op'[c] = op[c] /\ target'[c] = target[c]
  BY DEF IInv, TypeOK, Goto
<1> QED BY <1>2, <1>3, StillKeeps

LEMMA RowTypes ==
  ASSUME TypeOK, NEW c \in Calls, target[c] \in Deliveries
  PROVE  Row(c) \in Copies
  BY DEF TypeOK, Row, Copies

LEMMA GetStep ==
  ASSUME IInv, NEW c \in Calls, GetRow(c) \/ GetRecipient(c) PROVE IInv'
<1>1. target[c] \in Deliveries
  BY DEF IInv, Targeted, GetRow, GetRecipient
<1>2. CASE \E kind \in Kinds : Reply(c, kind)
  BY <1>2, ReplyStep DEF GetRow, GetRecipient, IInv, TypeOK
<1>3. CASE /\ GetRow(c)
           /\ copy' = [copy EXCEPT ![c] = Row(c)]
           /\ \/ Goto(c, "recipient") \/ Goto(c, "respond")
           /\ UNCHANGED <<lockVars, callVars, answer>>
  BY <1>1, <1>3, RowTypes, MoveStep DEF GetRow, IInv, TypeOK
<1>4. CASE /\ GetRecipient(c)
           /\ Available(c)
           /\ copy' = [copy EXCEPT ![c].email = recipient[Recipient(c)]]
           /\ Goto(c, "respond")
           /\ UNCHANGED <<lockVars, callVars, answer>>
  <2>1. recipient[Recipient(c)] \in Emails
    BY <1>1, <1>4, RecipientAssumption DEF Available, Recipient, IInv, TypeOK
  <2>2. copy' = [copy EXCEPT ![c] = copy'[c]] /\ copy'[c] \in Copies
    BY <1>4, <2>1 DEF IInv, TypeOK, Copies
  <2> QED BY <1>1, <1>4, <2>2, MoveStep DEF GetRecipient, IInv, TypeOK
<1> QED BY <1>2, <1>3, <1>4 DEF GetRow, GetRecipient, Kinds

(* Steps that lock *)

\* A call that takes the row, found free, to write what it has read.
LEMMA TakeStep ==
  ASSUME IInv, NEW c \in Calls, NEW label \in Writing, Goto(c, label),
         target[c] \in Deliveries, rowLock[target[c]] = Free, LockRow(c),
         copy' = [copy EXCEPT ![c] = copy'[c]], copy'[c] \in Copies,
         \/ op[c] = "claim" /\ label = "recipient"
            /\ status[target[c]] = "pending"
         \/ op[c] \in {"sent", "failed"} /\ label = "commit"
            /\ status[target[c]] = "sending" /\ copy'[c].status = op[c],
         UNCHANGED <<deliveryVars, callVars, worldVars, now, answer, faults>>
  PROVE  IInv'
<1> USE DEF callVars, worldVars
<1>1. TypeOK'
  BY DEF IInv, TypeOK, DeliveryState, deliveryVars, Goto, LockRow, Writing
<1>2. /\ pc'[c] = label /\ rowLock'[target[c]] = c
      /\ \A b \in Calls \ {c} : pc'[b] = pc[b] /\ copy'[b] = copy[b]
      /\ \A b \in Calls, d \in Deliveries : rowLock[d] = b => rowLock'[d] = b
  BY ValueAssumption DEF IInv, TypeOK, Goto, LockRow
<1>3. UNCHANGED <<status, snapshot, mailed, op, target>>
  BY DEF deliveryVars
<1>4. Targeted' /\ Locked'
  BY <1>2, <1>3 DEF IInv, Targeted, Locked, Writing
<1>5. InHand'
  BY <1>2, <1>3 DEF IInv, InHand, Writing
<1>6. Leave' /\ Mailbox'
  BY <1>2, <1>3 DEF IInv, Leave, HasLeave, Answered, Mailbox, Writing
<1> QED BY <1>1, <1>4, <1>5, <1>6 DEF IInv

LEMMA ClaimRowStep ==
  ASSUME IInv, NEW c \in Calls, ClaimRow(c) PROVE IInv'
<1>1. target[c] \in Deliveries
  BY DEF IInv, Targeted, ClaimRow
<1>2. CASE \E kind \in Kinds : Reply(c, kind)
  BY <1>2, ReplyStep DEF ClaimRow, IInv, TypeOK
<1>3. CASE /\ status[target[c]] = "pending" /\ LockRow(c)
           /\ Goto(c, "recipient") /\ UNCHANGED <<callVars, copy, answer>>
  <2>1. copy' = [copy EXCEPT ![c] = copy'[c]] /\ copy'[c] \in Copies
    BY <1>3 DEF IInv, TypeOK
  <2> QED BY <1>1, <1>3, <2>1, TakeStep DEF ClaimRow, Writing
<1> QED BY <1>2, <1>3 DEF ClaimRow, Kinds

LEMMA ReportRowStep ==
  ASSUME IInv, NEW c \in Calls, ReportRow(c) PROVE IInv'
<1>1. target[c] \in Deliveries /\ Row(c) \in Copies
  BY RowTypes DEF IInv, Targeted, ReportRow
<1>2. CASE \E kind \in Kinds : Reply(c, kind)
  BY <1>2, ReplyStep DEF ReportRow, IInv, TypeOK
<1>3. CASE /\ copy' = [copy EXCEPT ![c] = Row(c)] /\ Goto(c, "respond")
           /\ UNCHANGED <<lockVars, callVars, answer>>
  BY <1>1, <1>3, MoveStep DEF ReportRow, IInv, TypeOK
<1>4. CASE /\ status[target[c]] \in Reportable(op[c]) /\ LockRow(c)
           /\ copy' = [copy EXCEPT ![c] = [Row(c) EXCEPT !.status = op[c]]]
           /\ Goto(c, "commit") /\ UNCHANGED <<callVars, answer>>
  <2>1. copy' = [copy EXCEPT ![c] = copy'[c]] /\ copy'[c] \in Copies
        /\ copy'[c].status = op[c]
    BY <1>1, <1>4 DEF IInv, TypeOK, Copies, States, ReportRow
  <2> QED BY <1>1, <1>4, <2>1, TakeStep DEF ReportRow, Reportable, Writing
<1> QED BY <1>2, <1>3, <1>4 DEF ReportRow, Kinds

LEMMA ClaimRecipientStep ==
  ASSUME IInv, NEW c \in Calls, ClaimRecipient(c) PROVE IInv'
<1>1. target[c] \in Deliveries
  BY DEF IInv, Targeted, ClaimRecipient
<1>2. CASE Reply(c, "missing")
  BY <1>2, ReplyStep DEF ClaimRecipient, IInv, TypeOK, Kinds
<1>3. CASE Available(c) /\ ShareRecipient(c) /\ Goto(c, "commit")
           /\ copy' = [copy EXCEPT ![c] = [status |-> "sending",
                                           email |-> recipient[Recipient(c)]]]
           /\ UNCHANGED <<callVars, answer>>
  <2> DEFINE e == recipient[Recipient(c)]
  <2>1. e \in Emails
    BY <1>1, <1>3, RecipientAssumption DEF Available, Recipient, IInv, TypeOK
  <2>2. /\ pc'[c] = "commit" /\ copy'[c] = [status |-> "sending", email |-> e]
        /\ \A b \in Calls \ {c} : pc'[b] = pc[b] /\ copy'[b] = copy[b]
    BY <1>3 DEF IInv, TypeOK, Goto
  <2>3. /\ UNCHANGED <<status, snapshot, mailed, op, target, rowLock>>
        /\ pc[c] = "recipient" /\ op[c] = "claim"
    BY <1>3
    DEF ClaimRecipient, ShareRecipient, deliveryVars, callVars, worldVars
  <2>8. share' \in [Users -> Holders]
    <3>1. Recipient(c) \in Users /\ share \in [Users -> Holders]
      BY <1>1, RecipientAssumption DEF Recipient, IInv, TypeOK
    <3>2. share[Recipient(c)] \cup {c} \in Holders
      BY <1>3, <3>1, HolderFacts DEF ShareRecipient
    <3> QED BY <1>3, <3>1, <3>2 DEF ShareRecipient
  <2>4. TypeOK'
    BY <1>3, <2>1, <2>8
    DEF ClaimRecipient, ShareRecipient, deliveryVars, callVars, worldVars,
        IInv, TypeOK, DeliveryState, Copies, States, Goto
  <2>5. Targeted' /\ Locked'
    BY <1>1, <2>2, <2>3 DEF IInv, Targeted, Locked, Writing
  <2>6. InHand'
    BY <2>1, <2>2, <2>3 DEF IInv, InHand, Writing
  <2>7. Leave' /\ Mailbox'
    BY <2>2, <2>3 DEF IInv, Leave, HasLeave, Answered, Mailbox
  <2> QED BY <2>4, <2>5, <2>6, <2>7 DEF IInv
<1> QED BY <1>2, <1>3 DEF ClaimRecipient

(* Steps that commit *)

\* No other call has the delivery a call commits in hand, nor leave to mail a
\* delivery that is still pending.
LEMMA Alone ==
  ASSUME IInv, NEW c \in Calls, pc[c] = "commit", NEW b \in Calls \ {c},
         target[b] = target[c]
  PROVE  /\ ~(pc[b] \in Writing /\ op[b] # "get")
         /\ status[target[c]] = "pending" => ~HasLeave(b)
<1>1. rowLock[target[c]] = c /\ target[c] \in Deliveries
  BY DEF IInv, Targeted, Locked, Writing
<1>2. ~(pc[b] \in Writing /\ op[b] # "get")
  BY <1>1 DEF IInv, Locked
<1>3. HasLeave(b) => snapshot[target[c]] # NoEmail
  BY ValueAssumption DEF IInv, Leave
<1> QED BY <1>1, <1>2, <1>3 DEF IInv, TypeOK, DeliveryState

LEMMA CommitKeeps ==
  ASSUME IInv, NEW c \in Calls, pc[c] = "commit", Apply(c), Unlock(c),
         \/ Goto(c, "respond") /\ UNCHANGED <<callVars, copy>>
         \/ Forget(c),
         answer' \in [Calls -> Kinds], faults' \in 0..MaxFaults,
         UNCHANGED <<worldVars, now>>
  PROVE  IInv'
<1> DEFINE d == target[c]
<1> USE DEF worldVars
<1>1. d \in Deliveries /\ op[c] # "get"
  BY DEF IInv, Targeted
<1>2. TypeOK'
  <2>1. /\ pc' \in [Calls -> {"idle", "row", "recipient", "commit", "respond",
                             "mailing"}]
        /\ op' \in [Calls -> Ops]
        /\ target' \in [Calls -> Deliveries \cup {NoDelivery}]
        /\ began' \in [Calls -> Times]
        /\ copy' \in [Calls -> Copies]
    <3>1. CASE Goto(c, "respond") /\ UNCHANGED <<callVars, copy>>
      BY <3>1 DEF Goto, callVars, IInv, TypeOK
    <3>2. CASE Forget(c)
      BY <3>2, Forgotten DEF IInv
    <3> QED BY <3>1, <3>2
  <2>2. /\ rowLock' \in [Deliveries -> Calls \cup {Free}]
        /\ share' \in [Users -> Holders]
    BY UnlockTypes DEF IInv
  <2>3. /\ status' \in [Deliveries -> States]
        /\ snapshot' \in [Deliveries -> Emails \cup {NoEmail}]
        /\ attempted' \in [Deliveries -> Times \cup {NoTime}]
        /\ sent' \in [Deliveries -> Times \cup {NoTime}]
        /\ DeliveryState'
    BY CommitTypes
  <2> QED BY <2>1, <2>2, <2>3 DEF IInv, TypeOK
<1>3. /\ \A b \in Calls \ {c} : /\ pc'[b] = pc[b] /\ op'[b] = op[b]
                               /\ target'[b] = target[b] /\ copy'[b] = copy[b]
      /\ \/ pc'[c] = "idle"
         \/ /\ pc'[c] = "respond" /\ op'[c] = op[c]
            /\ target'[c] = d /\ copy'[c] = copy[c]
      /\ \A b \in Calls \ {c}, e \in Deliveries :
           rowLock[e] = b => rowLock'[e] = b
      /\ UNCHANGED mailed
  <2>1. CASE Goto(c, "respond") /\ UNCHANGED <<callVars, copy>>
    BY <2>1 DEF Goto, callVars, IInv, TypeOK, Unlock
  <2>2. CASE Forget(c)
    BY <2>2, Forgotten DEF IInv, Unlock
  <2> QED BY <2>1, <2>2
<1>4. \A e \in Deliveries \ {d} :
        status'[e] = status[e] /\ snapshot'[e] = snapshot[e]
  BY DEF Apply, IInv, TypeOK
<1>5. Targeted' /\ Locked'
  BY <1>3 DEF IInv, Targeted, Locked, Writing
<1>6. InHand'
  BY <1>3, <1>4, Alone DEF IInv, InHand, Targeted, Writing
<1>7. CASE op[c] = "claim"
  <2>1. status[d] = "pending" /\ snapshot'[d] = copy[c].email
        /\ copy[c].email \in Emails
    BY <1>1, <1>7 DEF IInv, InHand, Writing, Apply, TypeOK
  <2>2. mailed[d] = <<>> /\ \A b \in Calls \ {c} :
          target[b] = d => ~HasLeave(b)
    BY <1>1, <2>1, Alone DEF IInv, Mailbox, TypeOK, DeliveryState
  <2>3. Leave'
    BY <1>3, <1>4, <2>1, <2>2 DEF IInv, Leave, HasLeave, Answered, Targeted
  <2>4. Mailbox'
    BY <1>3, <1>4, <2>2 DEF IInv, Mailbox
  <2> QED BY <1>2, <1>5, <1>6, <2>3, <2>4 DEF IInv
<1>8. CASE op[c] # "claim"
  <2>1. snapshot' = snapshot
    BY <1>8 DEF Apply
  <2>2. Leave' /\ Mailbox'
    BY <1>3, <1>8, <2>1 DEF IInv, Leave, HasLeave, Answered, Mailbox
  <2> QED BY <1>2, <1>5, <1>6, <2>2 DEF IInv
<1> QED BY <1>7, <1>8

LEMMA CommitStep ==
  ASSUME IInv, NEW c \in Calls, Commit(c) \/ CommitAckLost(c) PROVE IInv'
<1>1. CASE Commit(c)
  BY <1>1, CommitKeeps DEF Commit, IInv, TypeOK
<1>2. CASE CommitAckLost(c)
  <2>1. /\ answer' \in [Calls -> Kinds] /\ faults' \in 0..MaxFaults
        /\ Unlock(c) /\ Forget(c)
    BY <1>2, FaultTypes DEF CommitAckLost, Reply, IInv, TypeOK, Kinds
  <2> QED BY <1>2, <2>1, CommitKeeps DEF CommitAckLost
<1> QED BY <1>1, <1>2

LEMMA CreateStep ==
  ASSUME IInv, NEW d \in Deliveries, Create(d) PROVE IInv'
<1> USE DEF Create, lockVars, callVars, worldVars
<1>1. TypeOK'
  BY DEF IInv, TypeOK, DeliveryState, States
<1>2. Targeted' /\ Locked' /\ InHand'
  BY DEF IInv, Targeted, Locked, InHand, TypeOK, Writing
<1>3. Leave' /\ Mailbox'
  BY DEF IInv, Leave, HasLeave, Mailbox
<1> QED BY <1>1, <1>2, <1>3 DEF IInv

LEMMA RespondStep ==
  ASSUME IInv, NEW c \in Calls, Respond(c) PROVE IInv'
<1> USE DEF Respond
<1>1. target[c] \in Deliveries /\ answer' \in [Calls -> Kinds]
  BY DEF IInv, Targeted, TypeOK, Kinds
<1>2. CASE op[c] = "claim"
  <2>1. /\ pc' = [pc EXCEPT ![c] = "mailing"]
        /\ UNCHANGED <<deliveryVars, lockVars, callVars, worldVars, now, copy,
                       faults>>
    BY <1>2 DEF Goto
  <2>2. TypeOK'
    BY <1>1, <2>1 DEF lockVars, callVars, worldVars, deliveryVars, IInv, TypeOK,
                      DeliveryState
  <2>3. Targeted' /\ Locked' /\ InHand'
    BY <1>1, <1>2, <2>1
    DEF lockVars, callVars, worldVars, deliveryVars, IInv, TypeOK, Targeted,
        Locked, InHand, Writing
  <2>4. Leave' /\ Mailbox'
    BY <1>2, <2>1 DEF callVars, worldVars, deliveryVars, IInv, TypeOK, Leave,
                      HasLeave, Answered, Mailbox
  <2> QED BY <2>2, <2>3, <2>4 DEF IInv
<1>3. CASE op[c] # "claim"
  BY <1>1, <1>3, ForgetStep DEF IInv, TypeOK
<1> QED BY <1>2, <1>3

(* Steps outside the control plane *)

\* The SMTP dialogue ends, with a mail or without, and with it the leave.
LEMMA SmtpKeeps ==
  ASSUME IInv, NEW c \in Calls, pc[c] = "mailing", Mail(c) \/ UNCHANGED mailed,
         Dismiss(c), outcome' \in [Deliveries -> {"none", "sent", "failed"}],
         faults' \in 0..MaxFaults
  PROVE  IInv'
<1> DEFINE d == target[c]
<1> USE DEF Dismiss, deliveryVars, lockVars
<1>1. /\ d \in Deliveries /\ HasLeave(c) /\ mailed[d] = <<>>
      /\ copy[c].email = snapshot[d] /\ snapshot[d] \in Emails
  BY DEF IInv, Targeted, Leave, HasLeave, Answered
<1>2. /\ \A b \in Calls \ {c} : /\ pc'[b] = pc[b] /\ op'[b] = op[b]
                               /\ target'[b] = target[b] /\ copy'[b] = copy[b]
      /\ pc'[c] = "idle"
  BY Forgotten DEF IInv
<1>3. /\ \A e \in Deliveries \ {d} : mailed'[e] = mailed[e]
      /\ mailed'[d] \in {<<>>, <<snapshot[d]>>}
      /\ mailed' \in [Deliveries -> Seq(Emails)]
  <2>1. CASE UNCHANGED mailed
    BY <1>1, <2>1 DEF IInv, TypeOK
  <2>2. CASE Mail(c)
    <3>1. Append(mailed[d], copy[c].email) = <<snapshot[d]>>
      BY <1>1
    <3>2. mailed' = [mailed EXCEPT ![d] = <<snapshot[d]>>]
      BY <2>2, <3>1 DEF Mail
    <3> QED BY <1>1, <3>2 DEF IInv, TypeOK
  <2> QED BY <2>1, <2>2
<1>4. TypeOK'
  BY <1>3, Forgotten DEF IInv, TypeOK, DeliveryState
<1>5. Targeted' /\ Locked' /\ InHand'
  BY <1>2 DEF IInv, Targeted, Locked, InHand, Writing
<1>6. Leave'
  <2>1. ASSUME NEW b \in Calls, HasLeave(b)'
        PROVE  /\ b # c /\ HasLeave(b) /\ target'[b] = target[b]
               /\ target[b] \in Deliveries \ {d} /\ copy'[b] = copy[b]
    BY <1>1, <1>2, <2>1 DEF IInv, Targeted, Leave, HasLeave, Answered
  <2>2. snapshot' = snapshot
    OBVIOUS
  <2>3. ASSUME NEW b \in Calls, HasLeave(b)'
        PROVE  /\ copy'[b].email = snapshot'[target'[b]] /\ copy'[b].email \in Emails
               /\ mailed'[target'[b]] = <<>>
    <3>1. /\ copy[b].email = snapshot[target[b]] /\ copy[b].email \in Emails
          /\ mailed[target[b]] = <<>>
      BY <2>1, <2>3 DEF IInv, Leave
    <3>2. /\ target'[b] = target[b] /\ copy'[b] = copy[b]
          /\ mailed'[target[b]] = mailed[target[b]]
      BY <1>3, <2>1, <2>3
    <3> QED BY <2>2, <3>1, <3>2
  <2>4. ASSUME NEW b \in Calls, HasLeave(b)', NEW a \in Calls, HasLeave(a)',
               target'[a] = target'[b]
        PROVE  a = b
    <3>1. HasLeave(a) /\ HasLeave(b) /\ target[a] = target[b]
      BY <2>1, <2>4
    <3>2. Leave
      BY DEF IInv
    <3> QED BY <3>1, <3>2 DEF Leave
  <2> QED BY <2>3, <2>4 DEF Leave
<1>7. Mailbox'
  BY <1>1, <1>3, ValueAssumption DEF IInv, Mailbox
<1> QED BY <1>4, <1>5, <1>6, <1>7 DEF IInv

LEMMA SmtpStep ==
  ASSUME IInv, NEW c \in Calls,
         SmtpAccepts(c) \/ SmtpRefuses(c) \/ WorkerCrashes(c)
  PROVE  IInv'
<1>1. target[c] \in Deliveries /\ pc[c] = "mailing"
  BY DEF IInv, Targeted, SmtpAccepts, SmtpRefuses, WorkerCrashes
<1>2. outcome' \in [Deliveries -> {"none", "sent", "failed"}]
  BY <1>1 DEF IInv, TypeOK, SmtpAccepts, SmtpRefuses, WorkerCrashes
<1>3. faults' \in 0..MaxFaults
  BY FaultTypes DEF IInv, TypeOK, SmtpAccepts, SmtpRefuses, WorkerCrashes
<1> QED BY <1>1, <1>2, <1>3, SmtpKeeps
        DEF SmtpAccepts, SmtpRefuses, WorkerCrashes

\* Addresses, memberships and the clock.
LEMMA WorldStep ==
  ASSUME IInv,
         \/ \E u \in Users : EditRecipient(u) \/ ChangeRecipient(u)
         \/ Tick
         \/ UNCHANGED vars
  PROVE  IInv'
<1>1. /\ UNCHANGED <<deliveryVars, rowLock, callVars, mailed, outcome,
                     disciplined, pc, copy, answer, faults>>
      /\ share' \in [Users -> Holders]
      /\ recipient' \in [Users -> Emails \cup {Revoked}] /\ now' \in Times
  <2>1. ASSUME NEW u \in Users, EditRecipient(u)
        PROVE  /\ UNCHANGED <<recipient, now, mailed, outcome, disciplined>>
               /\ share' \in [Users -> Holders]
    <3>1. share \in [Users -> Holders]
      BY DEF IInv, TypeOK
    <3>2. share' = [share EXCEPT ![u] = {Writer}]
      BY <2>1 DEF EditRecipient
    <3>3. share' \in [Users -> Holders]
      BY <3>1, <3>2, NobodyHolds
    <3> QED BY <2>1, <3>3 DEF EditRecipient, worldVars
  <2>4. ASSUME NEW u \in Users, ChangeRecipient(u)
        PROVE  /\ UNCHANGED now
               /\ recipient' \in [Users -> Emails \cup {Revoked}]
               /\ share' \in [Users -> Holders]
    BY <2>4, NobodyHolds DEF ChangeRecipient, IInv, TypeOK
  <2>5. CASE \E u \in Users : EditRecipient(u) \/ ChangeRecipient(u)
    BY <2>1, <2>4, <2>5 DEF EditRecipient, ChangeRecipient, IInv, TypeOK
  <2>2. CASE Tick
    <3>1. now' \in Times
      BY <2>2, TimeAssumption DEF Tick, IInv, TypeOK, Times
    <3> QED BY <2>2, <3>1 DEF Tick, worldVars, lockVars, IInv, TypeOK
  <2>3. CASE UNCHANGED vars
    BY <2>3 DEF vars, worldVars, lockVars, IInv, TypeOK
  <2> QED BY <2>2, <2>3, <2>5
<1>2. TypeOK'
  BY <1>1 DEF IInv, TypeOK, DeliveryState, deliveryVars, lockVars, callVars
<1>3. Targeted' /\ Locked' /\ InHand' /\ Leave' /\ Mailbox'
  BY <1>1 DEF IInv, Targeted, Locked, InHand, Leave, HasLeave, Mailbox,
              deliveryVars, lockVars, callVars
<1> QED BY <1>2, <1>3 DEF IInv

LEMMA NextIInv == IInv /\ [Next]_vars => IInv'
<1> SUFFICES ASSUME IInv, [Next]_vars PROVE IInv'
  OBVIOUS
<1>1. ASSUME NEW d \in Deliveries, Create(d) PROVE IInv'
  BY <1>1, CreateStep
<1>2. ASSUME NEW c \in Calls, NEW o \in Ops, NEW d \in Deliveries,
             Begin(c, o, d)
      PROVE  IInv'
  BY <1>2, BeginStep
<1>3. ASSUME NEW c \in Calls, Serve(c) PROVE IInv'
  BY <1>3, CommitStep, GetStep, RespondStep DEF Serve
<1>4. ASSUME NEW c \in Calls, Lock(c) PROVE IInv'
  BY <1>4, ClaimRowStep, ReportRowStep, ClaimRecipientStep DEF Lock
<1>5. ASSUME NEW c \in Calls, CommitAckLost(c) \/ CallFails(c) PROVE IInv'
  BY <1>5, CommitStep, FailStep
<1>6. ASSUME NEW c \in Calls,
             SmtpAccepts(c) \/ SmtpRefuses(c) \/ WorkerCrashes(c)
      PROVE  IInv'
  BY <1>6, SmtpStep
<1>7. ASSUME \/ \E u \in Users : EditRecipient(u) \/ ChangeRecipient(u)
             \/ Tick
             \/ UNCHANGED vars
      PROVE  IInv'
  BY <1>7, WorldStep
<1>8. CASE \E d \in Deliveries : \/ Create(d)
                               \/ \E c \in Calls, o \in Ops : Begin(c, o, d)
  BY <1>8, <1>1, <1>2
<1>9. CASE \E c \in Calls : \/ Serve(c) \/ Lock(c)
                          \/ CommitAckLost(c) \/ CallFails(c)
                          \/ SmtpAccepts(c) \/ SmtpRefuses(c)
                          \/ WorkerCrashes(c)
  BY <1>9, <1>3, <1>4, <1>5, <1>6
<1> QED BY <1>7, <1>8, <1>9 DEF Next

(* The invariant holds of every reachable state. *)
THEOREM Invariant == Spec => []IInv
  BY InitIInv, NextIInv, PTL DEF Spec

(* Types hold, and with them the shape of a row the database demands. *)
THEOREM TypeCorrect == Spec => []TypeOK
<1>1. IInv => TypeOK
  BY DEF IInv
<1> QED BY <1>1, Invariant, PTL

(* However many workers call, and whatever is lost, one mail at most goes out. *)
THEOREM OneMail == Spec => []AtMostOneMail
<1>1. ASSUME Mailbox PROVE AtMostOneMail
  <2> SUFFICES ASSUME NEW d \in Deliveries PROVE Len(mailed[d]) <= 1
    BY DEF AtMostOneMail
  <2>1. mailed[d] = <<>> \/ mailed[d] = <<snapshot[d]>>
    BY <1>1 DEF Mailbox
  <2>2. \A e : Len(<<e>>) = 1
    OBVIOUS
  <2>3. CASE mailed[d] = <<>>
    BY <2>3
  <2>4. CASE mailed[d] = <<snapshot[d]>>
    BY <2>2, <2>4
  <2> QED BY <2>1, <2>3, <2>4
<1>2. IInv => AtMostOneMail
  BY <1>1 DEF IInv
<1> QED BY <1>2, Invariant, PTL

------------------------------------------------------------------------------
(* What a step may never do *)

\* Only a commit or the creation of a row writes one.
LEMMA RowsStay ==
  ASSUME [Next]_vars,
         ~ \E c \in Calls : Commit(c) \/ CommitAckLost(c)
  PROVE  \/ UNCHANGED deliveryVars
         \/ \E d \in Deliveries : Create(d)
<1>1. ASSUME NEW c \in Calls,
             \/ ClaimRow(c) \/ ReportRow(c) \/ ClaimRecipient(c)
             \/ GetRow(c) \/ GetRecipient(c) \/ Respond(c) \/ CallFails(c)
             \/ SmtpAccepts(c) \/ SmtpRefuses(c) \/ WorkerCrashes(c)
             \/ \E o \in Ops, d \in Deliveries : Begin(c, o, d)
      PROVE  UNCHANGED deliveryVars
  BY <1>1 DEF ClaimRow, ReportRow, ClaimRecipient, GetRow, GetRecipient,
              Respond, CallFails, SmtpAccepts, SmtpRefuses, WorkerCrashes,
              Dismiss, Begin
<1>2. ASSUME \/ \E u \in Users : EditRecipient(u) \/ ChangeRecipient(u)
             \/ Tick
             \/ UNCHANGED vars
      PROVE  UNCHANGED deliveryVars
  BY <1>2 DEF EditRecipient, ChangeRecipient, Tick, vars
<1> QED BY <1>1, <1>2 DEF Next, Serve, Lock

LEMMA StepFreezes ==
  ASSUME IInv, [Next]_vars, NEW d \in Deliveries
  PROVE  /\ snapshot[d] # NoEmail => /\ snapshot'[d] = snapshot[d]
                                     /\ attempted'[d] = attempted[d]
         /\ status[d] \in {"sent", "failed"} => /\ status'[d] = status[d]
                                                /\ sent'[d] = sent[d]
<1>1. CASE \E c \in Calls : Commit(c) \/ CommitAckLost(c)
  <2>1. PICK c \in Calls : pc[c] = "commit" /\ Apply(c)
    BY <1>1 DEF Commit, CommitAckLost
  <2>2. target[c] \in Deliveries
    BY <2>1 DEF IInv, Targeted
  <2>3. CASE op[c] = "claim"
    <3>1. status[target[c]] = "pending" /\ snapshot[target[c]] = NoEmail
      BY <2>1, <2>2, <2>3 DEF IInv, InHand, Writing, TypeOK, DeliveryState
    <3> QED BY <2>1, <2>2, <2>3, <3>1 DEF Apply, IInv, TypeOK
  <2>4. CASE op[c] # "claim"
    <3>1. status[target[c]] = "sending"
      BY <2>1, <2>4 DEF IInv, InHand
    <3> QED BY <2>1, <2>2, <2>4, <3>1 DEF Apply, IInv, TypeOK
  <2> QED BY <2>3, <2>4
<1>2. CASE \E e \in Deliveries : Create(e)
  BY <1>2 DEF Create, IInv, TypeOK
<1>3. CASE UNCHANGED deliveryVars
  BY <1>3 DEF deliveryVars
<1> QED BY <1>1, <1>2, <1>3, RowsStay

(* What a claim froze stays, and a report is never changed again. *)
THEOREM FrozenStays == Spec => FrozenIsFinal
<1>1. IInv /\ [Next]_vars =>
        [\A d \in Deliveries :
           /\ snapshot[d] # NoEmail => /\ snapshot'[d] = snapshot[d]
                                       /\ attempted'[d] = attempted[d]
           /\ status[d] \in {"sent", "failed"} =>
                /\ status'[d] = status[d]
                /\ sent'[d] = sent[d]]_vars
  BY StepFreezes
<1> QED BY <1>1, Invariant, PTL DEF Spec, FrozenIsFinal

\* The share lock lies on the recipient from the check to the commit.
Shared == \A c \in Calls : pc[c] = "commit" /\ op[c] = "claim" =>
  /\ c \in share[Recipient(c)]
  /\ copy[c].email = recipient[Recipient(c)]

\* What a step of one call leaves to the others.
Apart(c) == \A b \in Calls \ {c} :
  /\ pc'[b] = pc[b] /\ op'[b] = op[b] /\ target'[b] = target[b]
  /\ copy'[b] = copy[b]
  /\ \A u \in Users : b \in share[u] => b \in share'[u]

LEMMA ApartKeeps ==
  ASSUME IInv, Shared, NEW c \in Calls, Apart(c), UNCHANGED recipient,
         pc'[c] = "commit" /\ op'[c] = "claim" =>
           /\ c \in share'[RecipientOf[target'[c]]]
           /\ copy'[c].email = recipient[RecipientOf[target'[c]]]
  PROVE  Shared'
<1> SUFFICES ASSUME NEW b \in Calls, pc'[b] = "commit", op'[b] = "claim"
             PROVE  /\ b \in share'[RecipientOf[target'[b]]]
                    /\ copy'[b].email = recipient'[RecipientOf[target'[b]]]
  BY DEF Shared, Recipient
<1>1. CASE b = c
  BY <1>1
<1>2. CASE b # c
  <2>1. /\ pc[b] = "commit" /\ op[b] = "claim"
        /\ target'[b] = target[b] /\ copy'[b] = copy[b]
    BY <1>2 DEF Apart
  <2>2. target[b] \in Deliveries
    BY <2>1 DEF IInv, Targeted
  <2>3. RecipientOf[target[b]] \in Users
    BY <2>2, RecipientAssumption
  <2>4. /\ b \in share[RecipientOf[target[b]]]
        /\ copy[b].email = recipient[RecipientOf[target[b]]]
    BY <2>1 DEF Shared, Recipient
  <2> QED BY <1>2, <2>1, <2>3, <2>4 DEF Apart
<1> QED BY <1>1, <1>2

LEMMA ForgetApart ==
  ASSUME TypeOK, NEW c \in Calls, Forget(c), Unlock(c) \/ UNCHANGED lockVars
  PROVE  Apart(c) /\ pc'[c] = "idle"
<1>1. \A u \in Users, b \in Calls \ {c} : b \in share[u] => b \in share'[u]
  BY DEF Unlock, lockVars
<1> QED BY <1>1, Forgotten DEF Apart

LEMMA CallShares ==
  ASSUME IInv, Shared, NEW c \in Calls,
         \/ Serve(c) \/ Lock(c) \/ CommitAckLost(c) \/ CallFails(c)
         \/ SmtpAccepts(c) \/ SmtpRefuses(c) \/ WorkerCrashes(c)
         \/ \E o \in Ops, d \in Deliveries : Begin(c, o, d)
  PROVE  Shared'
<1> USE DEF IInv
<1>0. CASE /\ Forget(c) /\ UNCHANGED recipient
           /\ Unlock(c) \/ UNCHANGED lockVars
  BY <1>0, ForgetApart, ApartKeeps
<1>1. CASE \E kind \in Kinds : Reply(c, kind) /\ UNCHANGED recipient
  BY <1>0, <1>1 DEF Reply
<1>2. CASE ClaimRow(c) \/ ReportRow(c)
  <2>1. /\ UNCHANGED recipient
        /\ \/ \E kind \in Kinds : Reply(c, kind)
           \/ /\ UNCHANGED <<callVars, share>>
              /\ \/ Goto(c, "recipient")
                 \/ op[c] # "claim" /\ (Goto(c, "respond") \/ Goto(c, "commit"))
              /\ copy' = copy \/ \E row : copy' = [copy EXCEPT ![c] = row]
    BY <1>2 DEF ClaimRow, ReportRow, LockRow, lockVars, worldVars, Kinds
  <2>2. CASE UNCHANGED <<callVars, share>> /\ ~ \E kind \in Kinds : Reply(c, kind)
    <3>1. Apart(c)
      BY <2>1, <2>2 DEF Goto, callVars, Apart, TypeOK
    <3>2. ~(pc'[c] = "commit" /\ op'[c] = "claim")
      BY <2>1, <2>2 DEF Goto, callVars, TypeOK
    <3> QED BY <2>1, <3>1, <3>2, ApartKeeps
  <2> QED BY <1>1, <2>1, <2>2
<1>3. CASE ClaimRecipient(c)
  <2>1. CASE Available(c) /\ ShareRecipient(c)
    <3>1. /\ target[c] \in Deliveries /\ Recipient(c) \in Users
          /\ UNCHANGED <<op, target, recipient>>
      <4>1. target[c] \in Deliveries
        BY <1>3 DEF ClaimRecipient, Targeted
      <4>2. UNCHANGED <<callVars, worldVars>>
        BY <1>3, <2>1 DEF ClaimRecipient
      <4> QED BY <4>1, <4>2, RecipientAssumption
              DEF Recipient, callVars, worldVars
    <3>2. share' = [share EXCEPT ![Recipient(c)] = @ \cup {c}]
      BY <2>1 DEF ShareRecipient
    <3>3. pc' = [pc EXCEPT ![c] = "commit"]
          /\ copy' = [copy EXCEPT ![c] = [status |-> "sending",
                                          email |-> recipient[Recipient(c)]]]
      BY <1>3, <2>1 DEF ClaimRecipient, Goto
    <3>4. Apart(c)
      BY <3>1, <3>2, <3>3 DEF Apart, TypeOK
    <3> QED BY <3>1, <3>2, <3>3, <3>4, ApartKeeps DEF TypeOK, Recipient
  <2> QED BY <1>1, <1>3, <2>1 DEF ClaimRecipient, worldVars, Kinds
<1>4. CASE GetRow(c) \/ GetRecipient(c)
  BY <1>1, <1>4, ApartKeeps
  DEF GetRow, GetRecipient, Goto, callVars, lockVars, worldVars, Apart,
      TypeOK, Kinds
<1>5. CASE Commit(c)
  BY <1>5, ApartKeeps
  DEF Commit, Unlock, Goto, callVars, worldVars, Apart, TypeOK
<1>6. CASE Respond(c)
  BY <1>0, <1>6, ApartKeeps
  DEF Respond, Goto, callVars, lockVars, worldVars, Apart, TypeOK
<1>7. CASE CommitAckLost(c) \/ CallFails(c)
  BY <1>1, <1>7 DEF CommitAckLost, CallFails, worldVars, Kinds
<1>8. CASE SmtpAccepts(c) \/ SmtpRefuses(c) \/ WorkerCrashes(c)
  BY <1>0, <1>8 DEF SmtpAccepts, SmtpRefuses, WorkerCrashes, Dismiss
<1>9. CASE \E o \in Ops, d \in Deliveries : Begin(c, o, d)
  BY <1>9, ApartKeeps
  DEF Begin, Goto, lockVars, worldVars, Apart, TypeOK
<1> QED BY <1>2, <1>3, <1>4, <1>5, <1>6, <1>7, <1>8, <1>9 DEF Serve, Lock

LEMMA NextShares == IInv /\ Shared /\ [Next]_vars => Shared'
<1> SUFFICES ASSUME IInv, Shared, [Next]_vars PROVE Shared'
  OBVIOUS
<1>1. CASE \E c \in Calls :
             \/ Serve(c) \/ Lock(c) \/ CommitAckLost(c) \/ CallFails(c)
             \/ SmtpAccepts(c) \/ SmtpRefuses(c) \/ WorkerCrashes(c)
             \/ \E o \in Ops, d \in Deliveries : Begin(c, o, d)
  BY <1>1, CallShares
<1>2. CASE (\E d \in Deliveries : Create(d)) \/ Tick \/ UNCHANGED vars
  BY <1>2
  DEF Create, Tick, vars, callVars, lockVars, worldVars, Shared, Recipient
<1>3. ASSUME NEW u \in Users, EditRecipient(u) \/ ChangeRecipient(u)
      PROVE  Shared'
  <2>1. /\ share[u] \cap Calls = {}
        /\ \A v \in Users \ {u} : /\ recipient'[v] = recipient[v]
                                  /\ share'[v] = share[v]
        /\ UNCHANGED <<pc, op, target, copy>>
    BY <1>3, ValueAssumption
    DEF EditRecipient, ChangeRecipient, callVars, worldVars, IInv, TypeOK
  <2> QED BY <2>1, RecipientAssumption
          DEF Shared, Recipient, IInv, Targeted
<1> QED BY <1>1, <1>2, <1>3 DEF Next

LEMMA StepAuthorized ==
  ASSUME IInv, Shared, [Next]_vars, NEW d \in Deliveries,
         snapshot'[d] # snapshot[d]
  PROVE  snapshot'[d] = recipient[RecipientOf[d]]
<1>1. CASE \E c \in Calls : Commit(c) \/ CommitAckLost(c)
  <2>1. PICK c \in Calls : pc[c] = "commit" /\ Apply(c)
    BY <1>1 DEF Commit, CommitAckLost
  <2>2. op[c] = "claim" /\ target[c] = d /\ snapshot'[d] = copy[c].email
    BY <2>1 DEF Apply, IInv, TypeOK
  <2> QED BY <2>1, <2>2 DEF Shared, Recipient
<1>2. CASE \E e \in Deliveries : Create(e)
  BY <1>2 DEF Create
<1>3. CASE UNCHANGED deliveryVars
  BY <1>3 DEF deliveryVars
<1> QED BY <1>1, <1>2, <1>3, RowsStay

(* No claim commits an address its user has lost, or after a revocation. *)
THEOREM ClaimsAreAuthorized == Spec => ClaimIsAuthorized
<1>1. Init => Shared
  BY DEF Init, Shared
<1>2. IInv /\ Shared /\ [Next]_vars =>
        [\A d \in Deliveries : snapshot'[d] # snapshot[d] =>
           snapshot'[d] = recipient[RecipientOf[d]]]_vars
  BY StepAuthorized
<1> QED BY <1>1, <1>2, NextShares, Invariant, PTL DEF Spec, ClaimIsAuthorized

------------------------------------------------------------------------------
(* Refinement: what committed rows and the mailbox show is the contract. *)

Committed == <<status, snapshot, mailed>>

\* A commit is the claim or the report it was called for.
LEMMA CommitImplements ==
  ASSUME IInv, NEW c \in Calls, pc[c] = "commit", Apply(c), UNCHANGED mailed
  PROVE  Contract!Next
<1> DEFINE d == target[c]
<1>1. d \in Deliveries /\ op[c] \in {"claim", "sent", "failed"}
  BY DEF IInv, Targeted, TypeOK, Ops
<1>2. CASE op[c] = "claim"
  <2>1. /\ status[d] = "pending" /\ copy[c].status = "sending"
        /\ copy[c].email \in Emails
    BY <1>2 DEF IInv, InHand, Writing
  <2>2. Contract!Claim(d, copy[c].email)
    BY <1>2, <2>1 DEF Contract!Claim, Apply
  <2> QED BY <1>1, <2>1, <2>2 DEF Contract!Next
<1>3. CASE op[c] \in {"sent", "failed"}
  <2>1. status[d] = "sending" /\ copy[c].status = op[c]
    BY <1>3 DEF IInv, InHand
  <2>2. Contract!Report(d, op[c])
    BY <1>3, <2>1 DEF Contract!Report, Apply
  <2> QED BY <1>1, <1>3, <2>2 DEF Contract!Next
<1> QED BY <1>1, <1>2, <1>3

\* An SMTP dialogue is the one mail, to the frozen address, or nothing.
LEMMA SmtpImplements ==
  ASSUME IInv, NEW c \in Calls,
         SmtpAccepts(c) \/ SmtpRefuses(c) \/ WorkerCrashes(c)
  PROVE  Contract!Next \/ UNCHANGED Committed
<1> DEFINE d == target[c]
<1>1. pc[c] = "mailing" /\ (Mail(c) \/ UNCHANGED mailed)
      /\ UNCHANGED <<status, snapshot>>
  BY DEF SmtpAccepts, SmtpRefuses, WorkerCrashes, Dismiss, deliveryVars
<1>2. /\ d \in Deliveries /\ mailed[d] = <<>>
      /\ copy[c].email = snapshot[d] /\ snapshot[d] \in Emails
  BY <1>1 DEF IInv, Targeted, Leave, HasLeave, Answered
<1>3. CASE Mail(c)
  <2>1. Append(mailed[d], copy[c].email) = <<snapshot[d]>>
    BY <1>2
  <2>2. Contract!Mail(d)
    BY <1>1, <1>2, <1>3, <2>1, ValueAssumption DEF Contract!Mail, Mail
  <2> QED BY <1>2, <2>2 DEF Contract!Next
<1>4. CASE UNCHANGED mailed
  BY <1>1, <1>4 DEF Committed
<1> QED BY <1>1, <1>3, <1>4

LEMMA StepImplements ==
  ASSUME IInv, [Next]_vars
  PROVE  Contract!Next \/ UNCHANGED Committed
<1>1. ASSUME NEW d \in Deliveries, Create(d)
      PROVE  Contract!Next
  BY <1>1 DEF Create, Contract!Create, Contract!Next, worldVars
<1>2. ASSUME NEW c \in Calls, Commit(c) \/ CommitAckLost(c)
      PROVE  Contract!Next
  BY <1>2, CommitImplements DEF Commit, CommitAckLost, worldVars
<1>3. ASSUME NEW c \in Calls,
             \/ ClaimRow(c) \/ ReportRow(c) \/ ClaimRecipient(c)
             \/ GetRow(c) \/ GetRecipient(c) \/ Respond(c) \/ CallFails(c)
             \/ \E o \in Ops, d \in Deliveries : Begin(c, o, d)
      PROVE  UNCHANGED Committed
  BY <1>3 DEF ClaimRow, ReportRow, ClaimRecipient, GetRow, GetRecipient,
              Respond, CallFails, Begin, deliveryVars, worldVars, Committed
<1>4. ASSUME \/ \E u \in Users : EditRecipient(u) \/ ChangeRecipient(u)
             \/ Tick
             \/ UNCHANGED vars
      PROVE  UNCHANGED Committed
  BY <1>4 DEF EditRecipient, ChangeRecipient, Tick, vars, deliveryVars, worldVars, Committed
<1>5. CASE \E d \in Deliveries : \/ Create(d)
                               \/ \E c \in Calls, o \in Ops : Begin(c, o, d)
  BY <1>5, <1>1, <1>3
<1>6. CASE \E c \in Calls : \/ Serve(c) \/ Lock(c)
                          \/ CommitAckLost(c) \/ CallFails(c)
                          \/ SmtpAccepts(c) \/ SmtpRefuses(c)
                          \/ WorkerCrashes(c)
  BY <1>6, <1>2, <1>3, SmtpImplements DEF Serve, Lock
<1> QED BY <1>4, <1>5, <1>6 DEF Next

(* The calls, their failures and the workers implement the contract. *)
THEOREM Implements == Spec => ContractSpec
<1>1. Init => Contract!Init
  BY DEF Init, Contract!Init
<1>2. IInv /\ [Next]_vars => [Contract!Next]_Committed
  BY StepImplements
<1> QED BY <1>1, <1>2, Invariant, PTL
        DEF Spec, ContractSpec, Contract!Spec, Committed

------------------------------------------------------------------------------
(* Times: a worker that reports what SMTP answered reports after a claim whose
   transaction had begun before. *)

Early == {"row", "recipient", "commit"}
Reporting(c) == pc[c] \in Early /\ op[c] \in {"sent", "failed"}

\* The attempt at a delivery is known by a time.
Attempt(d, time) == attempted[d] # NoTime /\ attempted[d] <= time

ClocksAgree == /\ \A c \in Calls : began[c] <= now
               /\ \A d \in Deliveries : attempted[d] # NoTime => attempted[d] <= now
               /\ \A d \in Deliveries : outcome[d] # "none" => attempted[d] # NoTime
ReportsFollow ==
  disciplined => /\ \A c \in Calls : Reporting(c) => Attempt(target[c], began[c])
                 /\ \A d \in Deliveries : sent[d] # NoTime => Attempt(d, sent[d])
Timely == ClocksAgree /\ ReportsFollow

\* A call begins now, has begun and goes on, or is over.
Continues(c) == /\ UNCHANGED <<op[c], target[c], began[c]>>
                /\ pc'[c] \in Early => pc[c] \in Early
Ends(c) == pc'[c] = "idle" /\ began'[c] = 0
Starts(c) == /\ began'[c] = now /\ target'[c] \in Deliveries
             /\ disciplined /\ op'[c] \in {"sent", "failed"} =>
                  outcome[target'[c]] # "none"

LEMMA StepCalls ==
  ASSUME IInv, [Next]_vars, NEW b \in Calls
  PROVE  Continues(b) \/ Ends(b) \/ Starts(b)
<1> USE DEF IInv, TypeOK
<1>1. ASSUME NEW c \in Calls, NEW o \in Ops, NEW d \in Deliveries, Begin(c, o, d)
      PROVE  Continues(b) \/ Starts(b)
  <2>1. /\ pc' = [pc EXCEPT ![c] = "row"] /\ op' = [op EXCEPT ![c] = o]
        /\ target' = [target EXCEPT ![c] = d] /\ began' = [began EXCEPT ![c] = now]
        /\ o \in {"sent", "failed"} /\ disciplined => outcome[d] = o
    BY <1>1 DEF Begin, Goto
  <2>2. CASE b = c
    BY <2>1, <2>2 DEF Starts
  <2>3. CASE b # c
    BY <2>1, <2>3 DEF Continues
  <2> QED BY <2>2, <2>3
<1>2. ASSUME NEW c \in Calls, NEW label, Goto(c, label), UNCHANGED callVars,
             label \in Early => pc[c] \in Early
      PROVE  Continues(b)
  BY <1>2 DEF Goto, Continues, callVars
<1>3. ASSUME NEW c \in Calls, Forget(c)
      PROVE  Continues(b) \/ Ends(b)
  BY <1>3, Forgotten DEF Continues, Ends
<1>5. ASSUME NEW c \in Calls,
             \/ Serve(c) \/ Lock(c) \/ CommitAckLost(c) \/ CallFails(c)
             \/ SmtpAccepts(c) \/ SmtpRefuses(c) \/ WorkerCrashes(c)
      PROVE  Continues(b) \/ Ends(b)
  <2>1. ASSUME Lock(c) \/ GetRow(c) \/ GetRecipient(c)
        PROVE  \/ Forget(c)
               \/ UNCHANGED callVars /\ pc[c] \in Early /\ \E label : Goto(c, label)
    BY <2>1 DEF Lock, ClaimRow, ReportRow, ClaimRecipient, GetRow, GetRecipient,
                Reply, Early
  <2>2. ASSUME Commit(c) \/ Respond(c)
        PROVE  \/ Forget(c)
               \/ UNCHANGED callVars /\ \E label \in Answered : Goto(c, label)
    BY <2>2 DEF Commit, Respond, Answered
  <2>3. ASSUME \/ CommitAckLost(c) \/ CallFails(c)
               \/ SmtpAccepts(c) \/ SmtpRefuses(c) \/ WorkerCrashes(c)
        PROVE  Forget(c)
    BY <2>3 DEF CommitAckLost, CallFails, Reply, SmtpAccepts, SmtpRefuses,
                WorkerCrashes, Dismiss
  <2>4. CASE UNCHANGED callVars /\ pc[c] \in Early /\ \E label : Goto(c, label)
    BY <1>2, <2>4
  <2>5. CASE UNCHANGED callVars /\ \E label \in Answered : Goto(c, label)
    BY <1>2, <2>5 DEF Answered, Early
  <2> QED BY <1>3, <1>5, <2>1, <2>2, <2>3, <2>4, <2>5 DEF Serve
<1>4. ASSUME \/ \E d \in Deliveries : Create(d)
             \/ \E u \in Users : EditRecipient(u) \/ ChangeRecipient(u)
             \/ Tick \/ UNCHANGED vars
      PROVE  Continues(b)
  BY <1>4 DEF Create, EditRecipient, ChangeRecipient, Tick, vars, callVars, Continues
<1> QED BY <1>1, <1>4, <1>5 DEF Next

\* The clock goes on, and SMTP answers only who has attempted.
LEMMA StepClock ==
  ASSUME IInv, [Next]_vars
  PROVE  /\ now <= now' /\ now' \in Times /\ disciplined' = disciplined
         /\ \A d \in Deliveries : outcome'[d] # outcome[d] =>
              /\ attempted[d] # NoTime /\ attempted'[d] = attempted[d]
<1> USE DEF IInv, TypeOK
<1>1. CASE Tick
  BY <1>1, TimeAssumption DEF Tick, Times, worldVars
<1>2. ASSUME NEW c \in Calls, SmtpAccepts(c) \/ SmtpRefuses(c)
      PROVE  /\ UNCHANGED <<now, disciplined, attempted>>
             /\ \A d \in Deliveries : outcome'[d] # outcome[d] => attempted[d] # NoTime
  <2>1. /\ pc[c] = "mailing" /\ UNCHANGED <<now, disciplined, attempted>>
        /\ \A d \in Deliveries : outcome'[d] # outcome[d] => d = target[c]
    BY <1>2 DEF SmtpAccepts, SmtpRefuses, Dismiss, deliveryVars
  <2>2. target[c] \in Deliveries /\ snapshot[target[c]] \in Emails
    BY <2>1 DEF Targeted, Leave, HasLeave, Answered
  <2>3. attempted[target[c]] # NoTime
    BY <2>2, ValueAssumption DEF DeliveryState
  <2> QED BY <2>1, <2>3
<1>3. ASSUME NEW c \in Calls,
             \/ Serve(c) \/ Lock(c) \/ CommitAckLost(c) \/ CallFails(c)
             \/ WorkerCrashes(c) \/ \E o \in Ops, d \in Deliveries : Begin(c, o, d)
      PROVE  UNCHANGED <<now, disciplined, outcome>>
  BY <1>3 DEF Serve, Lock, ClaimRow, ReportRow, ClaimRecipient, Commit, GetRow,
              GetRecipient, Respond, CommitAckLost, CallFails, WorkerCrashes,
              Dismiss, Begin, worldVars
<1>4. ASSUME \/ \E d \in Deliveries : Create(d)
             \/ \E u \in Users : EditRecipient(u) \/ ChangeRecipient(u)
             \/ UNCHANGED vars
      PROVE  UNCHANGED <<now, disciplined, outcome>>
  BY <1>4 DEF Create, EditRecipient, ChangeRecipient, vars, worldVars
<1>5. now <= now
  BY DEF Times
<1> QED BY <1>1, <1>2, <1>3, <1>4, <1>5 DEF Next

\* A commit writes the time its transaction began.
LEMMA StepWrites ==
  ASSUME IInv, [Next]_vars, NEW d \in Deliveries
  PROVE  /\ attempted[d] # NoTime => attempted'[d] = attempted[d]
         /\ attempted'[d] # attempted[d] => \E c \in Calls : attempted'[d] = began[c]
         /\ sent'[d] # sent[d] /\ sent'[d] # NoTime => \E c \in Calls :
              Reporting(c) /\ target[c] = d /\ sent'[d] = began[c]
<1>1. attempted[d] # NoTime => snapshot[d] # NoEmail
  BY DEF IInv, TypeOK, DeliveryState
<1>2. attempted[d] # NoTime => attempted'[d] = attempted[d]
  BY <1>1, StepFreezes
<1>3. CASE \E c \in Calls : Commit(c) \/ CommitAckLost(c)
  <2>1. PICK c \in Calls : pc[c] = "commit" /\ Apply(c)
    BY <1>3 DEF Commit, CommitAckLost
  <2>2. target[c] \in Deliveries /\ op[c] \in Ops \ {"get"}
    BY <2>1 DEF IInv, Targeted, TypeOK
  <2> QED BY <1>2, <2>1, <2>2 DEF Apply, IInv, TypeOK, Reporting, Early, Ops
<1>4. CASE \E e \in Deliveries : Create(e)
  BY <1>2, <1>4 DEF Create
<1>5. CASE UNCHANGED deliveryVars
  BY <1>2, <1>5 DEF deliveryVars
<1> QED BY <1>3, <1>4, <1>5, RowsStay

LEMMA NextTimely == IInv /\ Timely /\ [Next]_vars => Timely'
<1> SUFFICES ASSUME IInv, Timely, [Next]_vars PROVE Timely'
  OBVIOUS
<1>1. /\ now \in Times /\ now' \in Times /\ now <= now' /\ disciplined' = disciplined
      /\ \A c \in Calls : began[c] \in Times /\ began[c] <= now
      /\ \A d \in Deliveries : attempted[d] \in Times \cup {NoTime}
      /\ Times \subseteq Int /\ NoTime \notin Times
  BY StepClock, TimeAssumption, ValueAssumption DEF IInv, TypeOK, Timely, ClocksAgree,
     Times
<1>0. ASSUME NEW time \in Times, time <= now PROVE time <= now'
  <2>1. time \in Int /\ now \in Int /\ now' \in Int /\ now <= now'
    BY <1>1
  <2> QED BY <1>0, <2>1
<1>2. ASSUME NEW d \in Deliveries, attempted'[d] # NoTime
      PROVE  attempted'[d] <= now'
  <2>1. CASE attempted'[d] = attempted[d]
    <3>1. attempted[d] \in Times /\ attempted[d] <= now
      BY <1>1, <1>2, <2>1 DEF Timely, ClocksAgree
    <3> QED BY <1>0, <2>1, <3>1
  <2>2. CASE attempted'[d] # attempted[d]
    <3>1. PICK c \in Calls : attempted'[d] = began[c]
      BY <2>2, StepWrites
    <3>2. began[c] \in Times /\ began[c] <= now
      BY <1>1
    <3> QED BY <1>0, <3>1, <3>2
  <2> QED BY <2>1, <2>2
<1>3. ASSUME NEW c \in Calls PROVE began'[c] <= now'
  <2>1. Continues(c) \/ Ends(c) \/ Starts(c)
    BY StepCalls
  <2>2. began'[c] \in {began[c], now, 0}
    BY <2>1 DEF Continues, Ends, Starts
  <2>3. began[c] \in Times /\ began[c] <= now
    BY <1>1
  <2>4. now <= now' /\ 0 <= now'
    BY <1>1 DEF Times
  <2> QED BY <1>0, <2>2, <2>3, <2>4
<1>4. ASSUME NEW d \in Deliveries, outcome'[d] # "none" PROVE attempted'[d] # NoTime
  <2>1. CASE outcome'[d] # outcome[d]
    BY <2>1, StepClock
  <2>2. CASE outcome'[d] = outcome[d]
    <3>1. attempted[d] # NoTime
      BY <1>4, <2>2 DEF Timely, ClocksAgree
    <3> QED BY <3>1, StepWrites
  <2> QED BY <2>1, <2>2
<1>5. ASSUME NEW d \in Deliveries, NEW time, Attempt(d, time)
      PROVE  attempted'[d] # NoTime /\ attempted'[d] <= time
  BY <1>5, StepWrites DEF Attempt
<1>6. ASSUME disciplined, NEW c \in Calls, Reporting(c)' PROVE Attempt(target[c], began[c])'
  <2>1. CASE Continues(c)
    <3>1. Reporting(c) /\ target[c] \in Deliveries
      BY <1>6, <2>1 DEF Continues, Reporting, Early, IInv, Targeted
    <3>2. Attempt(target[c], began[c])
      BY <1>6, <3>1 DEF Timely, ReportsFollow
    <3> QED BY <1>5, <2>1, <3>1, <3>2 DEF Continues, Attempt
  <2>2. CASE Starts(c)
    <3>1. /\ began'[c] = now /\ target'[c] \in Deliveries
          /\ outcome[target'[c]] # "none"
      BY <1>6, <2>2 DEF Starts, Reporting
    <3>2. Attempt(target'[c], now)
      BY <3>1 DEF Timely, ClocksAgree, Attempt
    <3> QED BY <1>5, <3>1, <3>2 DEF Attempt
  <2>3. CASE Ends(c)
    BY <1>6, <2>3 DEF Ends, Reporting, Early
  <2> QED BY <2>1, <2>2, <2>3, StepCalls
<1>7. ASSUME disciplined, NEW d \in Deliveries, sent'[d] # NoTime
      PROVE  Attempt(d, sent[d])'
  <2>1. CASE sent'[d] = sent[d]
    BY <1>5, <1>7, <2>1 DEF Timely, ReportsFollow, Attempt
  <2>2. CASE sent'[d] # sent[d]
    <3>1. PICK c \in Calls : Reporting(c) /\ target[c] = d /\ sent'[d] = began[c]
      BY <1>7, <2>2, StepWrites
    <3>2. Attempt(d, began[c])
      BY <1>7, <3>1 DEF Timely, ReportsFollow
    <3> QED BY <1>5, <3>1, <3>2 DEF Attempt
  <2> QED BY <2>1, <2>2
<1>8. ClocksAgree'
  BY <1>2, <1>3, <1>4 DEF ClocksAgree
<1>9. ReportsFollow'
  BY <1>1, <1>6, <1>7 DEF ReportsFollow
<1> QED BY <1>8, <1>9 DEF Timely

(* Two clocks read in two transactions, but no mail sent before its attempt. *)
THEOREM SentAfterAttempt == Spec => []SentNotBeforeAttempt
<1>1. Init => Timely
  <2> SUFFICES ASSUME Init PROVE Timely
    OBVIOUS
  <2>1. ClocksAgree
    BY DEF Init, ClocksAgree
  <2>2. ReportsFollow
    BY DEF Init, ReportsFollow, Reporting, Early
  <2> QED BY <2>1, <2>2 DEF Timely
<1>2. Timely => SentNotBeforeAttempt
  BY DEF Timely, ReportsFollow, Attempt, SentNotBeforeAttempt
<1> QED BY <1>1, <1>2, NextTimely, Invariant, PTL DEF Spec
=============================================================================
