------------------------ MODULE OutboxPublisherProofs ------------------------
(***************************************************************************)
(* Proofs about OutboxPublisher, for any set of publishers, rows, streams  *)
(* and any number of faults and of foreign writes to Redis.                *)
(***************************************************************************)
EXTENDS OutboxPublisher, FiniteSetTheorems, TLAPS

(* The initial state is typed. *)
LEMMA InitTyped == Init => Typed
  BY FS_EmptySet, EventAssumption, RetryAssumption, BoundAssumption,
     ValueAssumption
  DEF Init, Typed, TypeOK, RowInHand, Busy, States, Markers

(* A deferral fits its type. *)
LEMMA RetryDelayType == \A n : RetryDelay(n) \in 0..RetryMax
  BY RetryAssumption DEF RetryDelay

(* The stream ids XADD gives are numbers. *)
LEMMA NextIdType == ASSUME Typed, NEW s PROVE NextId(s) \in Nat
<1>1. IsFiniteSet({x \in appended : x.stream = s})
  BY FS_Subset DEF Typed
<1> QED BY <1>1, FS_CardinalityType DEF NextId

(* The arguments of an EVAL are what Redis may later be asked to run. *)
LEMMA RequestType ==
  ASSUME Typed, NEW p \in Publishers, current[p] \in Events
  PROVE  Request(p) \in Requests
<1>1. Canonical(current[p], p) \in CanonicalForms
  BY DEF CanonicalForms
<1> QED BY <1>1 DEF Request, Requests

(* The script keeps the types of Redis. *)
LEMMA PublishOnceTyped ==
  ASSUME Typed, NEW r \in Requests, PublishOnce(r)
  PROVE  /\ appended' \subseteq Entries /\ trimmed' \subseteq appended'
         /\ marker' \in [Events -> Markers] /\ IsFiniteSet(appended')
<1>1. CASE marker[r.event_id] = NoMarker
  <2>1. NewEntry(r) \in Entries
    BY NextIdType, EventAssumption DEF NewEntry, Entries, Requests
  <2>2. Place(NewEntry(r)) \in Markers
    BY <2>1 DEF Place, Markers, Entries
  <2>3. IsFiniteSet(appended')
    BY <1>1, FS_AddElement DEF Typed, PublishOnce
  <2> QED BY <1>1, <2>1, <2>2, <2>3 DEF Typed, TypeOK, PublishOnce
<1>2. CASE marker[r.event_id] # NoMarker
  BY <1>2 DEF Typed, TypeOK, PublishOnce
<1> QED BY <1>1, <1>2
------------------------------------------------------------------------------
(* Types *)

LEMMA SetPublishedTyped ==
  ASSUME Typed, NEW e \in Events, SetPublished(e)
  PROVE  /\ rows' \subseteq Events /\ published' \subseteq Events
         /\ attempt_count' \in [Events -> 0..AttemptCap]
         /\ wait' \in [Events -> 0..RetryMax]
  BY RetryAssumption DEF SetPublished, Typed, TypeOK

LEMMA DeferTyped ==
  ASSUME Typed, NEW p \in Publishers, current[p] \in Events, Defer(p)
  PROVE  /\ rows' \subseteq Events /\ published' \subseteq Events
         /\ attempt_count' \in [Events -> 0..AttemptCap]
         /\ wait' \in [Events -> 0..RetryMax]
<1> DEFINE e == current[p]
           n == attempt_count[e] + 1
           left == RetryDelay(n) - elapsed[p]
<1>1. attempt_count[e] \in 0..AttemptCap
  BY DEF Typed, TypeOK
<1>2. (IF n <= AttemptCap THEN n ELSE attempt_count[e]) \in 0..AttemptCap
  BY <1>1, RetryAssumption
<1>3. elapsed[p] \in 0..RetryMax /\ RetryDelay(n) \in 0..RetryMax
  BY RetryDelayType DEF Typed, TypeOK
<1>4. (IF left > 0 THEN left ELSE 0) \in 0..RetryMax
  BY <1>3, RetryAssumption
<1> QED BY <1>2, <1>4 DEF Defer, Typed, TypeOK

LEMMA StepTyped == Typed /\ [Next]_vars => Typed'
<1> SUFFICES ASSUME Typed, [Next]_vars PROVE Typed'
  OBVIOUS
<1> USE RetryAssumption, BoundAssumption
    DEF rowVars, redisVars, batchVars, vars
<1>1. ASSUME NEW E \in SUBSET Events, Insert(E) PROVE Typed'
  BY <1>1 DEF Insert, Typed, TypeOK, RowInHand
<1>2. ASSUME NEW e \in Events, OverwriteMarker(e) PROVE Typed'
  <2>1. \A x \in appended : Place(x) \in Markers
    BY DEF Typed, TypeOK, Place, Entries, Markers
  <2>2. BadMarker \in Markers
    BY DEF Markers
  <2>3. marker' \in [Events -> Markers]
    BY <1>2, <2>1, <2>2 DEF OverwriteMarker, Typed, TypeOK
  <2> QED BY <1>2, <2>3 DEF OverwriteMarker, Typed, TypeOK, RowInHand
<1>3. ASSUME NEW r \in delayed, RunDelayed(r) PROVE Typed'
  <2>1. r \in Requests
    BY DEF Typed, TypeOK
  <2> QED BY <1>3, <2>1, PublishOnceTyped
          DEF RunDelayed, Typed, TypeOK, RowInHand
<1>4. ASSUME NEW x \in appended, Trim(x) PROVE Typed'
  BY <1>4 DEF Trim, Live, Typed, TypeOK, RowInHand
<1>5. CASE Tick
  BY <1>5 DEF Tick, Waiting, Typed, TypeOK, RowInHand
<1>6. CASE UNCHANGED vars
  BY <1>6 DEF Typed, TypeOK, RowInHand, Requests, Entries, CanonicalForms,
              Canonical, Markers
<1>7. ASSUME NEW p \in Publishers, PublisherNext(p) PROVE Typed'
  <2> USE DEF Typed, TypeOK, RowInHand, Busy, States, Goto, LeaveBatch,
              NextRow, FailRow, Released, Acquired, Holds, Fault
  <2>1. CASE StartBatch(p)
    BY <2>1 DEF StartBatch
  <2>2. CASE TopologyCheckFails(p)
    BY <2>2 DEF TopologyCheckFails
  <2>3. CASE Select(p)
    BY <2>3 DEF Select, Eligible
  <2>4. CASE FinishBatch(p)
    BY <2>4 DEF FinishBatch
  <2>5. CASE SelectFails(p)
    BY <2>5 DEF SelectFails
  <2>6. CASE Evaluate(p)
    <3>1. current[p] \in Events
      BY <2>6 DEF Evaluate
    <3>2. PublishOnce(Request(p))
      BY <2>6 DEF Evaluate
    <3>3. /\ appended' \subseteq Entries /\ trimmed' \subseteq appended'
          /\ marker' \in [Events -> Markers] /\ IsFiniteSet(appended')
      BY <3>1, <3>2, RequestType, PublishOnceTyped
    <3> QED BY <2>6, <3>3 DEF Evaluate
  <2>7. CASE AnswerLost(p)
    <3>1. current[p] \in Events
      BY <2>7 DEF AnswerLost
    <3>2. PublishOnce(Request(p))
      BY <2>7 DEF AnswerLost
    <3>3. /\ appended' \subseteq Entries /\ trimmed' \subseteq appended'
          /\ marker' \in [Events -> Markers] /\ IsFiniteSet(appended')
      BY <3>1, <3>2, RequestType, PublishOnceTyped
    <3> QED BY <2>7, <3>3 DEF AnswerLost
  <2>8. CASE EvalAbandoned(p)
    BY <2>8, RequestType DEF EvalAbandoned
  <2>9. CASE CommitMark(p)
    <3>1. SetPublished(current[p])
      BY <2>9 DEF CommitMark
    <3>2. current[p] \in Events
      BY <2>9 DEF CommitMark
    <3>3. /\ rows' \subseteq Events /\ published' \subseteq Events
          /\ attempt_count' \in [Events -> 0..AttemptCap]
          /\ wait' \in [Events -> 0..RetryMax]
      BY <3>1, <3>2, SetPublishedTyped
    <3>4. rows' = rows
      BY <3>1 DEF SetPublished
    <3> QED BY <2>9, <3>2, <3>3, <3>4 DEF CommitMark
  <2>10. CASE MarkAckLost(p)
    <3>1. SetPublished(current[p])
      BY <2>10 DEF MarkAckLost
    <3>2. current[p] \in Events
      BY <2>10 DEF MarkAckLost
    <3>3. /\ rows' \subseteq Events /\ published' \subseteq Events
          /\ attempt_count' \in [Events -> 0..AttemptCap]
          /\ wait' \in [Events -> 0..RetryMax]
      BY <3>1, <3>2, SetPublishedTyped
    <3>4. rows' = rows
      BY <3>1 DEF SetPublished
    <3> QED BY <2>10, <3>2, <3>3, <3>4 DEF MarkAckLost
  <2>11. CASE MarkFails(p)
    BY <2>11 DEF MarkFails
  <2>12. CASE Rollback(p)
    BY <2>12 DEF Rollback
  <2>13. CASE RollbackFails(p)
    BY <2>13 DEF RollbackFails
  <2>14. CASE BeginRetry(p)
    BY <2>14 DEF BeginRetry
  <2>15. CASE RetryUnneeded(p)
    BY <2>15 DEF RetryUnneeded
  <2>16. CASE LockRow(p)
    BY <2>16 DEF LockRow
  <2>17. CASE CommitRetry(p)
    <3>1. Defer(p)
      BY <2>17 DEF CommitRetry
    <3>2. current[p] \in Events
      BY <2>17 DEF CommitRetry
    <3>3. /\ rows' \subseteq Events /\ published' \subseteq Events
          /\ attempt_count' \in [Events -> 0..AttemptCap]
          /\ wait' \in [Events -> 0..RetryMax]
      BY <3>1, <3>2, DeferTyped
    <3>4. rows' = rows
      BY <3>1 DEF Defer
    <3> QED BY <2>17, <3>3, <3>4 DEF CommitRetry
  <2>18. CASE RetryAckLost(p)
    <3>1. Defer(p)
      BY <2>18 DEF RetryAckLost
    <3>2. current[p] \in Events
      BY <2>18 DEF RetryAckLost
    <3>3. /\ rows' \subseteq Events /\ published' \subseteq Events
          /\ attempt_count' \in [Events -> 0..AttemptCap]
          /\ wait' \in [Events -> 0..RetryMax]
      BY <3>1, <3>2, DeferTyped
    <3>4. rows' = rows
      BY <3>1 DEF Defer
    <3> QED BY <2>18, <3>3, <3>4 DEF RetryAckLost
  <2>19. CASE RetryFails(p)
    BY <2>19 DEF RetryFails
  <2>20. CASE SigTerm(p)
    BY <2>20 DEF SigTerm
  <2>21. CASE Exit(p)
    BY <2>21 DEF Exit
  <2>22. CASE Crash(p)
    BY <2>22, RequestType DEF Crash
  <2>23. CASE Restart(p)
    BY <2>23 DEF Restart
  <2>24. CASE DropConnection(p)
    BY <2>24 DEF DropConnection
  <2> QED
    BY <1>7, <2>1, <2>2, <2>3, <2>4, <2>5, <2>6, <2>7, <2>8, <2>9, <2>10,
       <2>11, <2>12, <2>13, <2>14, <2>15, <2>16, <2>17, <2>18, <2>19, <2>20,
       <2>21, <2>22, <2>23, <2>24
    DEF PublisherNext
<1> QED BY <1>1, <1>2, <1>3, <1>4, <1>5, <1>6, <1>7 DEF Next
(* TypeOK, for every number of publishers, rows, faults and foreign writes. *)
THEOREM TypeCorrect == Spec => []TypeOK
<1>1. Typed => TypeOK
  BY DEF Typed
<1> QED BY <1>1, InitTyped, StepTyped, PTL DEF Spec

------------------------------------------------------------------------------
(* Redis *)

\* Entries are made for clean rows only.
CleanEntries == \A x \in appended : x.event_id \notin Poison
RedisInv == MarkerCoversEntry /\ AtMostOnce /\ OwnEntry /\ CleanEntries

\* A request a publisher could have sent.
Proper(r) == /\ r \in Requests
             /\ r.event_id \in rows
             /\ r.event_id \notin Poison
             /\ r.event[1] = r.event_id

LEMMA RequestProper ==
  ASSUME IInv, NEW p \in Publishers, pc[p] = "eval"
  PROVE  Proper(Request(p))
<1>1. current[p] \in rows /\ current[p] \in Events /\ current[p] \notin Poison
  BY DEF IInv, Typed, TypeOK, RowInHand, Busy, CleanInHand
<1>2. Request(p) \in Requests
  BY <1>1, RequestType DEF IInv
<1> QED BY <1>1, <1>2 DEF Proper, Request, Canonical

LEMMA DelayedProper == ASSUME IInv, NEW r \in delayed PROVE Proper(r)
  BY DEF IInv, Typed, TypeOK, OwnRequest, PoisonIsolated, Proper

(* The three things a step can do to Redis. *)
LEMMA RedisSteps ==
  ASSUME IInv, [Next]_vars
  PROVE  \/ UNCHANGED <<marker, appended>>
         \/ \E e \in Events : OverwriteMarker(e)
         \/ \E r : Proper(r) /\ PublishOnce(r)
<1> USE DEF redisVars
<1>1. ASSUME NEW p \in Publishers, PublisherNext(p)
      PROVE  \/ UNCHANGED <<marker, appended>>
             \/ \E r : Proper(r) /\ PublishOnce(r)
  <2>1. CASE Evaluate(p) \/ AnswerLost(p)
    BY <2>1, RequestProper DEF Evaluate, AnswerLost
  <2>2. CASE ~(Evaluate(p) \/ AnswerLost(p))
    BY <1>1, <2>2 DEF PublisherNext, StartBatch, TopologyCheckFails, Select,
      FinishBatch, SelectFails, EvalAbandoned, CommitMark, MarkAckLost,
      MarkFails, Rollback, RollbackFails, BeginRetry, RetryUnneeded, LockRow,
      CommitRetry, RetryAckLost, RetryFails, SigTerm, Exit, Crash, Restart,
      DropConnection
  <2> QED BY <2>1, <2>2
<1>2. ASSUME NEW r \in delayed, RunDelayed(r)
      PROVE  Proper(r) /\ PublishOnce(r)
  BY <1>2, DelayedProper DEF RunDelayed
<1>3. ASSUME \/ \E E \in SUBSET Events : Insert(E)
             \/ \E x \in appended : Trim(x)
             \/ Tick
             \/ UNCHANGED vars
      PROVE  UNCHANGED <<marker, appended>>
  BY <1>3 DEF Insert, Trim, Tick, vars
<1> QED BY <1>1, <1>2, <1>3 DEF Next

(* One run of the script: no second entry, no entry without its marker. *)
LEMMA PublishOnceRedis ==
  ASSUME IInv, NEW r, Proper(r), PublishOnce(r), RedisInv
  PROVE  RedisInv' /\ appended \subseteq appended'
<1>1. CASE marker[r.event_id] = NoMarker
  <2> DEFINE new == NewEntry(r)
  <2>1. /\ new.event_id = r.event_id /\ new.event = r.event
        /\ new.stream = StreamOf[r.event_id]
    BY DEF NewEntry
  <2>2. /\ appended' = appended \cup {new}
        /\ marker' = [marker EXCEPT ![r.event_id] = Place(new)]
    BY <1>1 DEF PublishOnce
  <2>3. Place(new) # NoMarker
    <3>1. new \in Entries
      BY NextIdType, EventAssumption
      DEF IInv, NewEntry, Entries, Proper, Requests
    <3> QED BY <3>1, ValueAssumption DEF Place, Entries
  <2>4. \A x \in appended : x.event_id # r.event_id
    BY <1>1 DEF RedisInv, MarkerCoversEntry
  <2>5. marker \in [Events -> Markers] /\ r.event_id \in Events
    BY DEF IInv, Typed, TypeOK, Proper, Requests
  <2>6. MarkerCoversEntry'
    BY <2>1, <2>2, <2>3, <2>5 DEF RedisInv, MarkerCoversEntry
  <2>7. AtMostOnce'
    BY <2>1, <2>2, <2>4 DEF RedisInv, AtMostOnce
  <2>8. OwnEntry' /\ CleanEntries'
    BY <2>1, <2>2 DEF RedisInv, OwnEntry, CleanEntries, Proper
  <2> QED BY <2>2, <2>6, <2>7, <2>8 DEF RedisInv
<1>2. CASE marker[r.event_id] # NoMarker
  BY <1>2 DEF PublishOnce, RedisInv, MarkerCoversEntry, AtMostOnce, OwnEntry,
              CleanEntries
<1> QED BY <1>1, <1>2

LEMMA StepRedis ==
  ASSUME IInv, [Next]_vars
  PROVE  RedisInv' /\ appended \subseteq appended'
<1>1. RedisInv
  BY DEF IInv, RedisInv, CleanEntries, PoisonIsolated
<1>2. CASE UNCHANGED <<marker, appended>>
  BY <1>1, <1>2 DEF RedisInv, MarkerCoversEntry, AtMostOnce, OwnEntry,
                    CleanEntries
<1>3. ASSUME NEW e \in Events, OverwriteMarker(e)
      PROVE  RedisInv' /\ appended \subseteq appended'
  <2>1. appended' = appended
    BY <1>3 DEF OverwriteMarker
  <2>2. PICK m \in {BadMarker} \cup {Place(x) : x \in appended} :
          marker' = [marker EXCEPT ![e] = m]
    BY <1>3 DEF OverwriteMarker
  <2>3. m # NoMarker
    BY ValueAssumption DEF IInv, Typed, TypeOK, Place, Entries
  <2>4. MarkerCoversEntry'
    BY <1>1, <2>1, <2>2, <2>3
    DEF RedisInv, MarkerCoversEntry, IInv, Typed, TypeOK
  <2> QED BY <1>1, <2>1, <2>4
          DEF RedisInv, AtMostOnce, OwnEntry, CleanEntries
<1> QED BY <1>1, <1>2, <1>3, RedisSteps, PublishOnceRedis

------------------------------------------------------------------------------
(* PostgreSQL *)

\* The three things a step can do to the set of published rows.
LEMMA DbSteps ==
  ASSUME [Next]_vars
  PROVE  \/ UNCHANGED <<rows, published>>
         \/ \E E \in SUBSET Events : Insert(E)
         \/ /\ UNCHANGED <<rows, marker, appended>>
            /\ \E p \in Publishers : /\ pc[p] = "mark" /\ Holds(p)
                                     /\ SetPublished(current[p])
<1> USE DEF rowVars, redisVars
<1>1. ASSUME NEW p \in Publishers, PublisherNext(p)
      PROVE  \/ UNCHANGED <<rows, published>>
             \/ /\ UNCHANGED <<rows, marker, appended>>
                /\ pc[p] = "mark" /\ Holds(p) /\ SetPublished(current[p])
  <2>1. CASE CommitMark(p) \/ MarkAckLost(p)
    BY <2>1 DEF CommitMark, MarkAckLost, SetPublished
  <2>2. CASE ~(CommitMark(p) \/ MarkAckLost(p))
    BY <1>1, <2>2 DEF PublisherNext, StartBatch, TopologyCheckFails, Select,
      FinishBatch, SelectFails, Evaluate, AnswerLost, EvalAbandoned,
      MarkFails, Rollback, RollbackFails, BeginRetry, RetryUnneeded, LockRow,
      CommitRetry, RetryAckLost, Defer, RetryFails, SigTerm, Exit, Crash,
      Restart, DropConnection
  <2> QED BY <2>1, <2>2
<1>2. ASSUME \/ \E e \in Events : OverwriteMarker(e)
             \/ \E r \in delayed : RunDelayed(r)
             \/ \E x \in appended : Trim(x)
             \/ Tick
             \/ UNCHANGED vars
      PROVE  UNCHANGED <<rows, published>>
  BY <1>2 DEF OverwriteMarker, RunDelayed, Trim, Tick, vars
<1> QED BY <1>1, <1>2 DEF Next

LEMMA StepRows == ASSUME [Next]_vars PROVE rows \subseteq rows'
  BY DbSteps DEF Insert

------------------------------------------------------------------------------
(* What is in the hands of the publishers and under way to Redis *)

\* IInv of a publisher's row: a request goes out for a clean row, and the
\* row is marked after its entry was made.
HandInv == OwnRequest /\ CleanInHand /\ MarkAfterEntry
             /\ \A r \in delayed : r.event_id \notin Poison

LEMMA ConfirmedHasEntry ==
  ASSUME IInv, NEW r, Proper(r), PublishOnce(r), Confirms(r)
  PROVE  \E x \in appended' : x.event_id = r.event_id
<1>1. CASE marker[r.event_id] = NoMarker
  BY <1>1 DEF PublishOnce, NewEntry
<1>2. CASE marker[r.event_id] # NoMarker
  BY <1>2 DEF PublishOnce, Confirms, Verified, Live
<1> QED BY <1>1, <1>2
\* No step but these changes what a publisher is about to send or to mark.
Quiet == \A q \in Publishers :
  pc'[q] \in {"eval", "mark"} => pc'[q] = pc[q] /\ current'[q] = current[q]

LEMMA QuietSteps ==
  ASSUME IInv, NEW p \in Publishers, PublisherNext(p),
         ~Evaluate(p), ~Select(p)
  PROVE  /\ Quiet
         /\ \/ delayed' = delayed
            \/ pc[p] = "eval" /\ delayed' = delayed \cup {Request(p)}
<1> USE DEF IInv, Typed, TypeOK, Quiet, Goto, LeaveBatch, NextRow, FailRow,
            batchVars
<1>1. CASE StartBatch(p) \/ TopologyCheckFails(p) \/ FinishBatch(p)
             \/ SelectFails(p)
  BY <1>1 DEF StartBatch, TopologyCheckFails, FinishBatch, SelectFails
<1>2. CASE AnswerLost(p) \/ EvalAbandoned(p)
  BY <1>2 DEF AnswerLost, EvalAbandoned
<1>3. CASE CommitMark(p) \/ MarkAckLost(p) \/ MarkFails(p)
  BY <1>3 DEF CommitMark, MarkAckLost, MarkFails
<1>4. CASE Rollback(p) \/ RollbackFails(p) \/ BeginRetry(p)
             \/ RetryUnneeded(p) \/ LockRow(p)
  BY <1>4 DEF Rollback, RollbackFails, BeginRetry, RetryUnneeded, LockRow
<1>5. CASE CommitRetry(p) \/ RetryAckLost(p) \/ RetryFails(p)
  BY <1>5 DEF CommitRetry, RetryAckLost, RetryFails
<1>6. CASE SigTerm(p) \/ Exit(p) \/ Restart(p) \/ DropConnection(p)
  BY <1>6 DEF SigTerm, Exit, Restart, DropConnection
<1>7. CASE Crash(p)
  BY <1>7 DEF Crash
<1> QED BY <1>1, <1>2, <1>3, <1>4, <1>5, <1>6, <1>7 DEF PublisherNext

LEMMA StepHand == ASSUME IInv, [Next]_vars PROVE HandInv'
<1> USE DEF HandInv
<1>1. HandInv
  BY DEF IInv, PoisonIsolated
<1>2. appended \subseteq appended' /\ rows \subseteq rows'
  BY StepRedis, StepRows
<1>3. ASSUME Quiet, \A r \in delayed' : r \in delayed \/ Proper(r)
      PROVE  HandInv'
  <2>1. OwnRequest' /\ \A r \in delayed' : r.event_id \notin Poison
    BY <1>1, <1>2, <1>3 DEF OwnRequest, Proper
  <2>2. CleanInHand'
    BY <1>1, <1>3 DEF Quiet, CleanInHand
  <2>3. MarkAfterEntry'
    BY <1>1, <1>2, <1>3 DEF Quiet, MarkAfterEntry
  <2> QED BY <2>1, <2>2, <2>3
<1>4. ASSUME NEW p \in Publishers, Select(p) PROVE HandInv'
  <2>1. PICK e \in Eligible(p) :
          /\ current' = [current EXCEPT ![p] = e]
          /\ IF e \in Poison THEN Goto(p, "failed") ELSE Goto(p, "eval")
    BY <1>4 DEF Select
  <2>2. pc[p] = "select" /\ delayed' = delayed
    BY <1>4 DEF Select
  <2>3. OwnRequest' /\ \A r \in delayed' : r.event_id \notin Poison
    BY <1>1, <1>2, <2>2 DEF OwnRequest
  <2>4. CleanInHand'
    BY <1>1, <2>1 DEF CleanInHand, Goto, IInv, Typed, TypeOK
  <2>5. MarkAfterEntry'
    BY <1>1, <1>2, <2>1 DEF MarkAfterEntry, Goto, IInv, Typed, TypeOK
  <2> QED BY <2>3, <2>4, <2>5
<1>5. ASSUME NEW p \in Publishers, Evaluate(p) PROVE HandInv'
  <2>1. pc[p] = "eval" /\ PublishOnce(Request(p)) /\ delayed' = delayed
          /\ current' = current
    BY <1>5 DEF Evaluate, FailRow, batchVars
  <2>2. Proper(Request(p)) /\ Request(p).event_id = current[p]
    BY <2>1, RequestProper DEF Request
  <2>3. OwnRequest' /\ \A r \in delayed' : r.event_id \notin Poison
    BY <1>1, <1>2, <2>1 DEF OwnRequest
  <2>4. CASE Confirms(Request(p))
    <3>1. pc' = [pc EXCEPT ![p] = "mark"]
      BY <1>5, <2>4 DEF Evaluate, Goto
    <3>2. \E x \in appended' : x.event_id = current[p]
      BY <2>1, <2>2, <2>4, ConfirmedHasEntry
    <3>3. CleanInHand'
      BY <1>1, <2>1, <3>1 DEF CleanInHand, IInv, Typed, TypeOK
    <3>4. MarkAfterEntry'
      BY <1>1, <1>2, <2>1, <3>1, <3>2 DEF MarkAfterEntry, IInv, Typed, TypeOK
    <3> QED BY <2>3, <3>3, <3>4
  <2>5. CASE ~Confirms(Request(p))
    <3>1. pc' = [pc EXCEPT ![p] = "failed"]
      BY <1>5, <2>5 DEF Evaluate, FailRow, Goto
    <3>2. Quiet
      BY <2>1, <3>1 DEF Quiet, IInv, Typed, TypeOK
    <3> QED BY <1>3, <2>1, <3>2
  <2> QED BY <2>4, <2>5
<1>6. ASSUME NEW p \in Publishers, PublisherNext(p),
             ~Evaluate(p), ~Select(p)
      PROVE  HandInv'
  BY <1>3, <1>6, QuietSteps, RequestProper
<1>7. ASSUME \/ \E E \in SUBSET Events : Insert(E)
             \/ \E e \in Events : OverwriteMarker(e)
             \/ \E r \in delayed : RunDelayed(r)
             \/ \E x \in appended : Trim(x)
             \/ Tick
             \/ UNCHANGED vars
      PROVE  HandInv'
  <2>1. pc' = pc /\ current' = current /\ delayed' \subseteq delayed
    BY <1>7 DEF Insert, OverwriteMarker, RunDelayed, Trim, Tick, vars,
                batchVars
  <2> QED BY <1>3, <2>1 DEF Quiet
<1> QED BY <1>4, <1>5, <1>6, <1>7 DEF Next

------------------------------------------------------------------------------
(* The row locks, and a published row at rest *)

LockInv == LockDiscipline /\ PublishedAtRest

LEMMA StepLock == ASSUME IInv, [Next]_vars PROVE LockInv'
<1> USE DEF LockInv, LockDiscipline, PublishedAtRest, IInv, Typed, TypeOK,
            rowVars, redisVars, batchVars
<1> USE ValueAssumption
<1>1. ASSUME NEW p \in Publishers, PublisherNext(p) PROVE LockInv'
  <2> USE DEF Goto, LeaveBatch, NextRow, FailRow, Released, Acquired, Holds,
              Eligible
  <2>1. CASE StartBatch(p) \/ TopologyCheckFails(p) \/ FinishBatch(p)
               \/ SelectFails(p)
    BY <2>1 DEF StartBatch, TopologyCheckFails, FinishBatch, SelectFails
  <2>2. CASE Select(p)
    BY <2>2 DEF Select
  <2>3. CASE Evaluate(p)
    BY <2>3 DEF Evaluate
  <2>4. CASE AnswerLost(p)
    BY <2>4 DEF AnswerLost
  <2>5. CASE EvalAbandoned(p)
    BY <2>5 DEF EvalAbandoned
  <2>6. CASE CommitMark(p)
    BY <2>6 DEF CommitMark, SetPublished
  <2>7. CASE MarkAckLost(p)
    BY <2>7 DEF MarkAckLost, SetPublished
  <2>8. CASE MarkFails(p)
    BY <2>8 DEF MarkFails
  <2>9. CASE Rollback(p) \/ RollbackFails(p)
    BY <2>9 DEF Rollback, RollbackFails
  <2>10. CASE BeginRetry(p) \/ RetryUnneeded(p)
    BY <2>10 DEF BeginRetry, RetryUnneeded
  <2>11. CASE LockRow(p)
    BY <2>11 DEF LockRow
  <2>12. CASE CommitRetry(p)
    BY <2>12 DEF CommitRetry, Defer
  <2>13. CASE RetryAckLost(p)
    BY <2>13 DEF RetryAckLost, Defer
  <2>14. CASE RetryFails(p)
    BY <2>14 DEF RetryFails
  <2>15. CASE SigTerm(p) \/ Exit(p) \/ Restart(p) \/ DropConnection(p)
    BY <2>15 DEF SigTerm, Exit, Restart, DropConnection
  <2>16. CASE Crash(p)
    BY <2>16 DEF Crash
  <2> QED BY <1>1, <2>1, <2>2, <2>3, <2>4, <2>5, <2>6, <2>7, <2>8, <2>9,
             <2>10, <2>11, <2>12, <2>13, <2>14, <2>15, <2>16
          DEF PublisherNext
<1>2. ASSUME \/ \E E \in SUBSET Events : Insert(E)
             \/ \E e \in Events : OverwriteMarker(e)
      PROVE  LockInv'
  BY <1>2 DEF Insert, OverwriteMarker
<1>3. ASSUME NEW r \in delayed, RunDelayed(r) PROVE LockInv'
  BY <1>3 DEF RunDelayed
<1>4. ASSUME NEW x \in appended, Trim(x) PROVE LockInv'
  BY <1>4 DEF Trim
<1>5. CASE Tick
  BY <1>5, RetryAssumption DEF Tick
<1>6. CASE UNCHANGED vars
  BY <1>6 DEF vars
<1> QED BY <1>1, <1>2, <1>3, <1>4, <1>5, <1>6 DEF Next
------------------------------------------------------------------------------
(* The list of failed rows *)

\* What is attempted is published, failed or in hand.
Account(p) ==
  /\ attempted[p] \ (failures[p] \cup {current[p]}) \subseteq published
  /\ pc[p] \notin Busy => current[p] = None
  /\ pc[p] \in Late => current[p] \in failures[p]

\* A step keeps the account of its own publisher and leaves the others alone.
Own(p) == \A q \in Publishers \ {p} :
            UNCHANGED <<pc[q], current[q], attempted[q], failures[q]>>

LEMMA AccountsReported == Reported <=> \A p \in Publishers : Account(p)
  BY DEF Reported, Account, UnreportedIsPublished

LEMMA OthersKeepAccount ==
  ASSUME NEW q \in Publishers, Account(q), published \subseteq published',
         UNCHANGED <<pc[q], current[q], attempted[q], failures[q]>>
  PROVE  Account(q)'
  BY DEF Account

\* publish_batch returns or raises, or the process dies.
LEMMA LeaveAccount ==
  ASSUME Typed, NEW p \in Publishers, NEW label, label \notin Busy,
         Goto(p, label),
         current' = [current EXCEPT ![p] = None],
         attempted' = [attempted EXCEPT ![p] = {}],
         failures' = [failures EXCEPT ![p] = {}]
  PROVE  Account(p)' /\ Own(p)
  BY DEF Account, Own, Goto, Typed, TypeOK, Busy, Late

\* The row in hand is published, or on the list already.
LEMMA NextRowAccount ==
  ASSUME Typed, NEW p \in Publishers, Account(p), NextRow(p),
         published \subseteq published',
         current[p] \in published' \/ current[p] \in failures[p]
  PROVE  Account(p)' /\ Own(p)
  BY DEF Account, Own, NextRow, Goto, Typed, TypeOK, Busy, Late

LEMMA FailRowAccount ==
  ASSUME Typed, NEW p \in Publishers, Account(p), FailRow(p),
         published \subseteq published'
  PROVE  Account(p)' /\ Own(p)
<1> USE DEF Typed, TypeOK, FailRow, Goto
<1>1. /\ pc' = [pc EXCEPT ![p] = "failed"]
      /\ failures' = [failures EXCEPT ![p] = @ \cup {current[p]}]
      /\ UNCHANGED <<current, attempted>>
  OBVIOUS
<1> QED BY <1>1 DEF Account, Own, Busy, Late

\* The row in hand stays in hand.
LEMMA GoOnAccount ==
  ASSUME Typed, NEW p \in Publishers, Account(p), NEW label, Goto(p, label),
         UNCHANGED batchVars, published \subseteq published',
         label \in Late => pc[p] \in Late,
         label \notin Busy => pc[p] \notin Busy
  PROVE  Account(p)' /\ Own(p)
  BY DEF Account, Own, Goto, batchVars, Typed, TypeOK

LEMMA PublisherAccount ==
  ASSUME IInv, NEW p \in Publishers, PublisherNext(p), published \subseteq published'
  PROVE  Account(p)' /\ Own(p)
<1>1. Typed /\ Account(p) /\ pc[p] \in States
  BY AccountsReported DEF IInv, Typed, TypeOK
<1>2. CASE TopologyCheckFails(p) \/ FinishBatch(p) \/ SelectFails(p)
             \/ RollbackFails(p) \/ RetryAckLost(p) \/ RetryFails(p) \/ Crash(p)
  <2>1. CASE Crash(p)
    BY <1>1, <2>1, LeaveAccount DEF Crash, Busy
  <2>2. CASE ~Crash(p)
    <3>1. LeaveBatch(p)
      BY <1>2, <2>2 DEF TopologyCheckFails, FinishBatch, SelectFails,
                        RollbackFails, RetryAckLost, RetryFails
    <3> QED BY <1>1, <3>1, LeaveAccount DEF LeaveBatch, Busy
  <2> QED BY <2>1, <2>2
<1>3. CASE CommitMark(p) \/ RetryUnneeded(p) \/ CommitRetry(p)
  <2>1. current[p] \in published' \/ current[p] \in failures[p]
    BY <1>1, <1>3 DEF CommitMark, SetPublished, RetryUnneeded, CommitRetry,
                      Account, Late
  <2>2. NextRow(p)
    BY <1>3 DEF CommitMark, RetryUnneeded, CommitRetry
  <2> QED BY <1>1, <2>1, <2>2, NextRowAccount
<1>4. CASE EvalAbandoned(p) \/ MarkAckLost(p) \/ MarkFails(p)
  <2>1. FailRow(p)
    BY <1>4 DEF EvalAbandoned, MarkAckLost, MarkFails
  <2> QED BY <1>1, <2>1, FailRowAccount
<1>5. CASE Evaluate(p) \/ AnswerLost(p)
  <2>1. \/ FailRow(p)
        \/ pc[p] = "eval" /\ Goto(p, "mark") /\ UNCHANGED batchVars
        \/ UNCHANGED <<pc, batchVars>>
    BY <1>5 DEF Evaluate, AnswerLost
  <2>2. CASE FailRow(p)
    BY <1>1, <2>2, FailRowAccount
  <2>3. CASE pc[p] = "eval" /\ Goto(p, "mark") /\ UNCHANGED batchVars
    BY <1>1, <2>3, GoOnAccount DEF Busy, Late
  <2>4. CASE UNCHANGED <<pc, batchVars>>
    BY <1>1, <2>4, OthersKeepAccount DEF batchVars, Own
  <2> QED BY <2>1, <2>2, <2>3, <2>4
<1>6. CASE StartBatch(p) \/ Rollback(p) \/ BeginRetry(p) \/ LockRow(p)
             \/ Exit(p) \/ Restart(p)
  <2>1. CASE StartBatch(p) \/ Exit(p) \/ Restart(p)
    <3>1. pc[p] \notin Busy /\ UNCHANGED batchVars
      BY <2>1 DEF StartBatch, Exit, Restart, Busy
    <3>2. Goto(p, "select") \/ Goto(p, "exited") \/ Goto(p, "idle")
      BY <2>1 DEF StartBatch, Exit, Restart
    <3> QED BY <1>1, <3>1, <3>2, GoOnAccount DEF Late
  <2>2. CASE Rollback(p) \/ BeginRetry(p) \/ LockRow(p)
    <3>1. pc[p] \in Late /\ UNCHANGED batchVars
      BY <2>2 DEF Rollback, BeginRetry, LockRow, Late
    <3>2. Goto(p, "retry") \/ Goto(p, "lockwait") \/ Goto(p, "scheduling")
      BY <2>2 DEF Rollback, BeginRetry, LockRow
    <3> QED BY <1>1, <3>1, <3>2, GoOnAccount DEF Busy, Late
  <2> QED BY <1>6, <2>1, <2>2
<1>7. CASE Select(p)
  <2>1. PICK e \in Eligible(p) :
          /\ current' = [current EXCEPT ![p] = e]
          /\ attempted' = [attempted EXCEPT ![p] = @ \cup {e}]
          /\ \/ /\ Goto(p, "failed")
                /\ failures' = [failures EXCEPT ![p] = @ \cup {e}]
             \/ Goto(p, "eval") /\ UNCHANGED failures
    BY <1>7 DEF Select
  <2>2. current[p] = None /\ None \notin Events
    BY <1>1, <1>7, ValueAssumption DEF Select, Account, Busy
  <2>3. CASE Goto(p, "failed") /\ failures' = [failures EXCEPT ![p] = @ \cup {e}]
    BY <1>1, <2>1, <2>2, <2>3 DEF Account, Own, Goto, Typed, TypeOK, Busy, Late
  <2>4. CASE Goto(p, "eval") /\ UNCHANGED failures
    BY <1>1, <2>1, <2>2, <2>4 DEF Account, Own, Goto, Typed, TypeOK, Busy, Late
  <2> QED BY <2>1, <2>3, <2>4
<1>8. CASE SigTerm(p) \/ DropConnection(p)
  <2>1. UNCHANGED <<pc, batchVars>>
    BY <1>8 DEF SigTerm, DropConnection
  <2> QED BY <1>1, <2>1, OthersKeepAccount DEF batchVars, Own
<1> QED BY <1>2, <1>3, <1>4, <1>5, <1>6, <1>7, <1>8 DEF PublisherNext

LEMMA StepReported == ASSUME IInv, [Next]_vars PROVE Reported'
<1>1. published \subseteq published'
  BY DbSteps DEF Insert, SetPublished
<1>2. \A q \in Publishers : Account(q)
  BY AccountsReported DEF IInv
<1>3. ASSUME NEW p \in Publishers, PublisherNext(p), NEW q \in Publishers
      PROVE  Account(q)'
  BY <1>1, <1>2, <1>3, PublisherAccount, OthersKeepAccount DEF Own
<1>4. ASSUME \/ \E E \in SUBSET Events : Insert(E)
             \/ \E e \in Events : OverwriteMarker(e)
             \/ \E r \in delayed : RunDelayed(r)
             \/ \E x \in appended : Trim(x)
             \/ Tick
             \/ UNCHANGED vars,
             NEW q \in Publishers
      PROVE  Account(q)'
  <2>1. UNCHANGED <<pc, batchVars>>
    BY <1>4 DEF Insert, OverwriteMarker, RunDelayed, Trim, Tick, vars
  <2> QED BY <1>1, <1>2, <2>1, OthersKeepAccount DEF batchVars
<1>5. ASSUME NEW q \in Publishers PROVE Account(q)'
  BY <1>3, <1>4 DEF Next
<1> QED BY <1>5 DEF Reported, Account, UnreportedIsPublished

------------------------------------------------------------------------------
(* The invariant *)

LEMMA InitInv == Init => IInv
<1> SUFFICES ASSUME Init PROVE IInv
  OBVIOUS
<1>1. Typed
  BY InitTyped
<1>2. LockDiscipline /\ PublishedAtRest
  BY DEF Init, LockDiscipline, PublishedAtRest
<1>3. MarkerCoversEntry /\ AtMostOnce /\ OwnEntry /\ OwnRequest
  BY DEF Init, MarkerCoversEntry, AtMostOnce, OwnEntry, OwnRequest
<1>4. CleanInHand /\ MarkAfterEntry
  BY DEF Init, CleanInHand, MarkAfterEntry
<1>5. PoisonIsolated /\ PublishedIsStreamed
  BY DEF Init, PoisonIsolated, PublishedIsStreamed
<1>6. Reported
  BY DEF Init, Reported, UnreportedIsPublished, Busy, Late
<1> QED BY <1>1, <1>2, <1>3, <1>4, <1>5, <1>6 DEF IInv

LEMMA StepPublished == ASSUME IInv, [Next]_vars PROVE PublishedIsStreamed'
<1>1. RedisInv' /\ appended \subseteq appended'
  BY StepRedis
<1>2. \A e \in published' :
        e \in published \/ \E x \in appended' : x.event_id = e
  BY <1>1, DbSteps DEF IInv, MarkAfterEntry, Insert, SetPublished
<1>3. \A e \in published' : \E x \in appended' : x.event_id = e
  BY <1>1, <1>2 DEF IInv, PublishedIsStreamed
<1> QED BY <1>1, <1>3 DEF RedisInv, OwnEntry, PublishedIsStreamed

(* IInv is inductive. *)
LEMMA StepInv == IInv /\ [Next]_vars => IInv'
<1> SUFFICES ASSUME IInv, [Next]_vars PROVE IInv'
  OBVIOUS
<1>1. Typed'
  BY StepTyped DEF IInv
<1>2. RedisInv' /\ HandInv' /\ LockInv' /\ PublishedIsStreamed'
  BY StepRedis, StepHand, StepLock, StepPublished
<1>3. PoisonIsolated'
  BY <1>2 DEF RedisInv, CleanEntries, HandInv, PublishedIsStreamed,
              PoisonIsolated
<1> QED BY <1>1, <1>2, <1>3, StepReported DEF IInv, RedisInv, HandInv, LockInv

(* The inductive invariant holds of every reachable state. *)
THEOREM Invariant == Spec => []IInv
  BY InitInv, StepInv, PTL DEF Spec

(* At most one stream entry per outbox row, whatever is lost, late, trimmed *)
(* or overwritten.                                                          *)
THEOREM ExactlyOneEntry == Spec => []AtMostOnce
<1>1. IInv => AtMostOnce
  BY DEF IInv
<1> QED BY <1>1, Invariant, PTL

(* published_at is set only over the row's own entry in its own stream. *)
THEOREM NoFalseConfirmation == Spec => []PublishedIsStreamed
<1>1. IInv => PublishedIsStreamed
  BY DEF IInv
<1> QED BY <1>1, Invariant, PTL

(* A payload that breaks its contract never leaves PostgreSQL. *)
THEOREM PoisonStaysHome == Spec => []PoisonIsolated
<1>1. IInv => PoisonIsolated
  BY DEF IInv
<1> QED BY <1>1, Invariant, PTL

(* A publisher holds at most the lock of the row it works on, and none while *)
(* it waits for one.                                                         *)
THEOREM NoHoldAndWait == Spec => []LockDiscipline
<1>1. IInv => LockDiscipline
  BY DEF IInv
<1> QED BY <1>1, Invariant, PTL

(* Every row a batch attempted and does not report is published, even if the *)
(* answer, the commit or the retry of another was lost on the way.           *)
THEOREM CountIsTrue == Spec => []UnreportedIsPublished
<1>1. IInv => UnreportedIsPublished
  BY DEF IInv, Reported
<1> QED BY <1>1, Invariant, PTL

------------------------------------------------------------------------------
(* A published row is never touched again *)

LEMMA StepFinal ==
  ASSUME IInv, [Next]_vars, NEW e \in published
  PROVE  /\ e \in published' /\ attempt_count'[e] = attempt_count[e]
         /\ wait'[e] = wait[e]
<1> USE DEF rowVars
<1>1. /\ lock[e] = Free /\ wait[e] = 0 /\ e \in Events
      /\ wait \in [Events -> 0..RetryMax]
      /\ attempt_count \in [Events -> 0..AttemptCap]
  BY DEF IInv, PublishedAtRest, Typed, TypeOK
<1>2. ASSUME NEW p \in Publishers, PublisherNext(p)
      PROVE  /\ e \in published' /\ attempt_count'[e] = attempt_count[e]
             /\ wait'[e] = wait[e]
  <2>1. CASE CommitMark(p) \/ MarkAckLost(p)
    BY <1>1, <2>1 DEF CommitMark, MarkAckLost, SetPublished
  <2>2. CASE CommitRetry(p) \/ RetryAckLost(p)
    <3>1. current[p] # e
      BY <1>1, <2>2, ValueAssumption DEF CommitRetry, RetryAckLost, Holds
    <3> QED BY <1>1, <2>2, <3>1 DEF CommitRetry, RetryAckLost, Defer
  <2>3. CASE ~(CommitMark(p) \/ MarkAckLost(p) \/ CommitRetry(p)
                 \/ RetryAckLost(p))
    BY <1>2, <2>3 DEF PublisherNext, StartBatch, TopologyCheckFails, Select,
      FinishBatch, SelectFails, Evaluate, AnswerLost, EvalAbandoned,
      MarkFails, Rollback, RollbackFails, BeginRetry, RetryUnneeded, LockRow,
      RetryFails, SigTerm, Exit, Crash, Restart, DropConnection
  <2> QED BY <2>1, <2>2, <2>3
<1>3. CASE Tick
  BY <1>1, <1>3 DEF Tick
<1>4. ASSUME \/ \E E \in SUBSET Events : Insert(E)
             \/ \E f \in Events : OverwriteMarker(f)
             \/ \E r \in delayed : RunDelayed(r)
             \/ \E x \in appended : Trim(x)
             \/ UNCHANGED vars
      PROVE  UNCHANGED <<published, attempt_count, wait>>
  BY <1>4 DEF Insert, OverwriteMarker, RunDelayed, Trim, vars
<1> QED BY <1>2, <1>3, <1>4 DEF Next

(* Neither a late retry transaction nor the clock changes a published row. *)
THEOREM PublishedStaysFinal == Spec => PublishedIsFinal
<1>1. IInv /\ [Next]_vars =>
        [\A e \in published : /\ e \in published'
                              /\ attempt_count'[e] = attempt_count[e]
                              /\ wait'[e] = wait[e]]_vars
  BY StepFinal
<1> QED BY <1>1, Invariant, PTL DEF Spec, PublishedIsFinal

------------------------------------------------------------------------------
(* Refinement of OutboxDelivery *)

Copies(e) == {x \in appended : x.event_id = e}

LEMMA OneCopy ==
  ASSUME AtMostOnce, NEW x \in appended
  PROVE  Cardinality(Copies(x.event_id)) = 1
<1>1. Copies(x.event_id) = {x}
  BY DEF Copies, AtMostOnce
<1> QED BY <1>1, FS_Singleton

LEMMA NoCopy ==
  ASSUME NEW e, \A x \in appended : x.event_id # e
  PROVE  Cardinality(Copies(e)) = 0
<1>1. Copies(e) = {}
  BY DEF Copies
<1> QED BY <1>1, FS_EmptySet
LEMMA DeliveryInit == Init => Delivery!Init
<1>1. Init => \A e \in Events : Cardinality(Copies(e)) = 0
  BY NoCopy DEF Init
<1> QED BY <1>1 DEF Init, Delivery!Init, Copies

\* A run of the script that appends is Send; any other leaves the copies.
LEMMA DeliverySend ==
  ASSUME IInv, IInv', NEW r, Proper(r), PublishOnce(r),
         UNCHANGED <<rows, published>>
  PROVE  [Delivery!Next]_(Delivery!vars)
<1>1. CASE marker[r.event_id] = NoMarker
  <2> DEFINE e == r.event_id
             new == NewEntry(r)
  <2>1. appended' = appended \cup {new} /\ new.event_id = e
    BY <1>1 DEF PublishOnce, NewEntry
  <2>2. e \in Events /\ e \in rows /\ e \notin Poison
    BY DEF Proper, Requests
  <2>3. \A x \in appended : x.event_id # e
    BY <1>1 DEF IInv, MarkerCoversEntry
  <2>4. Cardinality(Copies(e)) = 0
    BY <2>3, NoCopy
  <2>5. Copies(e)' = {new}
    BY <2>1, <2>3 DEF Copies
  <2>6. \A f \in Events \ {e} : Copies(f)' = Copies(f)
    BY <2>1 DEF Copies
  <2>7. [f \in Events |-> Cardinality(Copies(f)')] =
          [[f \in Events |-> Cardinality(Copies(f))] EXCEPT ![e] = 1]
    BY <2>2, <2>5, <2>6, FS_Singleton
  <2>8. Delivery!Send(e)
    BY <2>2, <2>4, <2>7 DEF Delivery!Send, Copies
  <2> QED BY <2>2, <2>8 DEF Delivery!Next
<1>2. CASE marker[r.event_id] # NoMarker
  BY <1>2 DEF PublishOnce, Delivery!vars
<1> QED BY <1>1, <1>2

LEMMA DeliveryConfirm ==
  ASSUME IInv, NEW p \in Publishers, pc[p] = "mark", Holds(p),
         SetPublished(current[p]), UNCHANGED <<rows, appended>>
  PROVE  Delivery!Next
<1> DEFINE e == current[p]
<1>1. e \in Events /\ e \notin published
  BY ValueAssumption DEF IInv, Typed, TypeOK, RowInHand, Busy, Holds,
                         PublishedAtRest
<1>2. PICK x \in appended : x.event_id = e
  BY DEF IInv, MarkAfterEntry
<1>3. Cardinality(Copies(e)) = 1
  BY <1>2, OneCopy DEF IInv
<1>4. Delivery!Confirm(e)
  BY <1>1, <1>3 DEF Delivery!Confirm, Copies, SetPublished
<1> QED BY <1>1, <1>4 DEF Delivery!Next

LEMMA DeliveryStep ==
  IInv /\ IInv' /\ [Next]_vars => [Delivery!Next]_(Delivery!vars)
<1> SUFFICES ASSUME IInv, IInv', [Next]_vars
             PROVE  [Delivery!Next]_(Delivery!vars)
  OBVIOUS
<1>1. ASSUME NEW E \in SUBSET Events, Insert(E) PROVE Delivery!Next
  BY <1>1 DEF Insert, redisVars, Delivery!Next, Delivery!Request
<1>2. ASSUME UNCHANGED <<rows, published>>
      PROVE  [Delivery!Next]_(Delivery!vars)
  BY <1>2, RedisSteps, DeliverySend DEF Delivery!vars, OverwriteMarker
<1>3. ASSUME UNCHANGED <<rows, marker, appended>>, NEW p \in Publishers,
             pc[p] = "mark", Holds(p), SetPublished(current[p])
      PROVE  Delivery!Next
  BY <1>3, DeliveryConfirm
<1> QED BY <1>1, <1>2, <1>3, DbSteps

(* The publishers, PostgreSQL and Redis together implement OutboxDelivery. *)
THEOREM ImplementsDelivery == Spec => DeliverySpec
  BY DeliveryInit, DeliveryStep, Invariant, PTL
  DEF Spec, DeliverySpec, Delivery!Spec
=============================================================================
