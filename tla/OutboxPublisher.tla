--------------------------- MODULE OutboxPublisher ---------------------------
(***************************************************************************)
(* The outbox publisher (outbox_publisher.py): any number of processes     *)
(* drain one PostgreSQL table into Redis streams.  A row is selected under *)
(* FOR UPDATE SKIP LOCKED, published by one atomic Lua script that leaves  *)
(* a marker key beside the stream entry, and marked in the transaction     *)
(* that selected it.  A failed row is rolled back and deferred in a second *)
(* transaction of its own.                                                 *)
(*                                                                         *)
(* An outbox row is a natural number: its position in the (created_at, id) *)
(* order the publisher selects by.  Time is a number of ticks.             *)
(***************************************************************************)
EXTENDS Integers, FiniteSets

CONSTANTS Publishers,   \* publisher processes
          Once,         \* the ones started with --once
          Events,       \* outbox rows
          Poison,       \* rows whose payload breaks its contract
          Streams,      \* Redis streams
          StreamOf,     \* REDIS_STREAM_BY_EVENT_TYPE of the row's type
          Encoding,     \* the canonical form each publisher's contracts make
          BatchSize, RetryBase, RetryMax,
          AttemptCap,   \* bound: attempt_count stops counting here
          MaxFaults,    \* bound: failures of connections and processes
          MaxDamage,    \* bound: foreign writes to Redis
          None, Free, NoMarker, BadMarker

ASSUME EventAssumption == /\ Events \subseteq Nat
                          /\ Poison \subseteq Events
                          /\ StreamOf \in [Events -> Streams]
ASSUME RetryAssumption == /\ RetryBase \in Nat /\ RetryMax \in Nat
                          /\ AttemptCap \in Nat /\ BatchSize \in Nat
                          /\ 0 < RetryBase /\ RetryBase <= RetryMax
                          /\ 0 < BatchSize
ASSUME BoundAssumption == MaxFaults \in Nat /\ MaxDamage \in Nat
ASSUME ValueAssumption == /\ None \notin Events
                          /\ Free \notin Publishers
                          /\ NoMarker # BadMarker
                          /\ {NoMarker, BadMarker}
                               \cap [stream : Streams, id : Nat] = {}

VARIABLES
  rows,           \* committed outbox rows
  published,      \* those with published_at set
  attempt_count,
  wait,           \* ticks until next_attempt_at; 0 when it is NULL or past
  lock,           \* who holds the row lock
  marker,         \* Redis key signaldesk:outbox:published:<id>
  appended,       \* every entry XADD ever made, trimmed ones included
  trimmed,        \* entries deleted from their stream since
  delayed,        \* EVAL requests the publisher gave up, Redis not yet ran
  pc, current, attempted, failures, \* publish_batch and its locals
  elapsed,        \* age in ticks of a _schedule_retry transaction
  stop,           \* stop_event of run_forever
  faults, damage  \* counters of the two bounds

rowVars   == <<rows, published, attempt_count, wait>>
redisVars == <<marker, appended, trimmed>>
batchVars == <<current, attempted, failures>>
vars == <<rowVars, lock, redisVars, delayed, pc, batchVars, elapsed, stop,
          faults, damage>>

------------------------------------------------------------------------------
(* Values *)

Canonical(e, p) == <<e, Encoding[p]>>
CanonicalForms  == {Canonical(e, p) : e \in Events, p \in Publishers}

\* The arguments of one EVAL; its keys are functions of the event id.
Request(p) == [event_id |-> current[p], event |-> Canonical(current[p], p)]
Requests   == [event_id : Events, event : CanonicalForms]
Entries    == [stream : Streams, id : Nat,
               event_id : Events, event : CanonicalForms]
Place(x)   == [stream |-> x.stream, id |-> x.id]
Markers    == {NoMarker, BadMarker} \cup [stream : Streams, id : Nat]

States == {"idle", "select", "eval", "mark", "failed", "retry", "lockwait",
           "scheduling", "down", "exited"}

\* Bug: the first retry already waits twice the base.
RetryDelayLate(n) == IF RetryBase * 2 ^ n \in 0..RetryMax
                     THEN RetryBase * 2 ^ n ELSE RetryMax

\* min(RetryMax, RetryBase * 2 ** min(n - 1, 30))
RetryDelay(n) ==
  LET delay == RetryBase * 2 ^ (IF n - 1 < 30 THEN n - 1 ELSE 30)
  IN  IF delay \in 0..RetryMax THEN delay ELSE RetryMax

Init == /\ rows = {} /\ published = {}
        /\ attempt_count = [e \in Events |-> 0]
        /\ wait = [e \in Events |-> 0]
        /\ lock = [e \in Events |-> Free]
        /\ marker = [e \in Events |-> NoMarker]
        /\ appended = {} /\ trimmed = {} /\ delayed = {}
        /\ pc = [p \in Publishers |-> "idle"]
        /\ current = [p \in Publishers |-> None]
        /\ attempted = [p \in Publishers |-> {}]
        /\ failures = [p \in Publishers |-> {}]
        /\ elapsed = [p \in Publishers |-> 0]
        /\ stop = [p \in Publishers |-> FALSE]
        /\ faults = 0 /\ damage = 0

------------------------------------------------------------------------------
(* Helpers of the actions *)

Fault == faults < MaxFaults /\ faults' = faults + 1
Goto(p, label) == pc' = [pc EXCEPT ![p] = label]

Holds(p)    == current[p] # None /\ lock[current[p]] = p
Released(p) == [e \in Events |-> IF lock[e] = p THEN Free ELSE lock[e]]
Acquired(p, e) == [lock EXCEPT ![e] = p]

Eligible(p) == {e \in rows \ (published \cup attempted[p]) :
                  wait[e] = 0 /\ lock[e] = Free}
Exhausted(p) == Cardinality(attempted[p]) >= BatchSize

\* publish_batch returns or raises: its locals go, its connection is closed.
LeaveBatch(p) == /\ Goto(p, IF p \in Once THEN "exited" ELSE "idle")
                 /\ lock' = Released(p)
                 /\ current' = [current EXCEPT ![p] = None]
                 /\ attempted' = [attempted EXCEPT ![p] = {}]
                 /\ failures' = [failures EXCEPT ![p] = {}]
                 /\ elapsed' = [elapsed EXCEPT ![p] = 0]

NextRow(p) == /\ Goto(p, "select")
              /\ current' = [current EXCEPT ![p] = None]
              /\ elapsed' = [elapsed EXCEPT ![p] = 0]
              /\ UNCHANGED <<attempted, failures>>

\* Bug: a failed row is not put on the list.
FailRowUnreported(p) == Goto(p, "failed") /\ UNCHANGED batchVars

FailRow(p) == /\ Goto(p, "failed")
              /\ failures' = [failures EXCEPT ![p] = @ \cup {current[p]}]
              /\ UNCHANGED <<current, attempted>>

------------------------------------------------------------------------------
(* The Lua script *)

Live == appended \ trimmed
NextId(s) == Cardinality({x \in appended : x.stream = s}) + 1
NewEntry(r) == [stream |-> StreamOf[r.event_id],
                id |-> NextId(StreamOf[r.event_id]),
                event_id |-> r.event_id, event |-> r.event]

Verified(r) == \E x \in Live : /\ marker[r.event_id] = Place(x)
                               /\ x.stream = StreamOf[r.event_id]
                               /\ x.event_id = r.event_id
                               /\ x.event = r.event

\* Bug: a negative status counts as an answer.
ConfirmsAnyAnswer(r) == TRUE

\* The script answers 0 or 1 (as against a negative status).
Confirms(r) == marker[r.event_id] = NoMarker \/ Verified(r)

\* Bugs: XADD without SET; XADD again where the entry is missing; XADD always.
PublishOnceUnmarked(r) == /\ marker[r.event_id] = NoMarker
                          /\ appended' = appended \cup {NewEntry(r)}
                          /\ UNCHANGED <<marker, trimmed>>
PublishOnceReplacing(r) ==
  /\ IF Verified(r)
     THEN UNCHANGED <<appended, marker>>
     ELSE /\ appended' = appended \cup {NewEntry(r)}
          /\ marker' = [marker EXCEPT ![r.event_id] = Place(NewEntry(r))]
  /\ UNCHANGED trimmed
PublishOnceBlind(r) ==
  /\ appended' = appended \cup {NewEntry(r)}
  /\ marker' = [marker EXCEPT ![r.event_id] = Place(NewEntry(r))]
  /\ UNCHANGED trimmed

PublishOnce(r) ==
  /\ IF marker[r.event_id] = NoMarker
     THEN /\ appended' = appended \cup {NewEntry(r)}
          /\ marker' = [marker EXCEPT ![r.event_id] = Place(NewEntry(r))]
     ELSE UNCHANGED <<appended, marker>>
  /\ UNCHANGED trimmed

------------------------------------------------------------------------------
(* The services: the rows of a transaction become visible when it commits,  *)
(* in any order, since created_at is the start of that transaction.         *)

Insert(E) == /\ E # {} /\ E \cap rows = {}
             /\ rows' = rows \cup E
             /\ UNCHANGED <<published, attempt_count, wait, lock, redisVars,
                            delayed, pc, batchVars, elapsed, stop, faults,
                            damage>>

------------------------------------------------------------------------------
(* publish_batch, one transaction per row *)

\* Bug: the loop does not look at stop_event.
StartBatchUnstoppable(p) ==
  /\ pc[p] = "idle"
  /\ Goto(p, "select")
  /\ UNCHANGED <<rowVars, lock, redisVars, delayed, batchVars, elapsed, stop,
                 faults, damage>>

\* run_forever finds stop_event clear; the topology check accepts Redis.
StartBatch(p) == /\ pc[p] = "idle" /\ ~stop[p]
                 /\ Goto(p, "select")
                 /\ UNCHANGED <<rowVars, lock, redisVars, delayed, batchVars,
                                elapsed, stop, faults, damage>>

\* It cannot be asked, or it answers that Redis is a cluster.
TopologyCheckFails(p) == /\ pc[p] = "idle" /\ ~stop[p]
                         /\ Fault
                         /\ LeaveBatch(p)
                         /\ UNCHANGED <<rowVars, redisVars, delayed, stop,
                                        damage>>

\* Bug: the payload is not parsed before it is sent.
SelectUnparsed(p) ==
  /\ pc[p] = "select" /\ ~Exhausted(p)
  /\ \E e \in Eligible(p) :
       /\ \A f \in Eligible(p) : e <= f
       /\ lock' = Acquired(p, e)
       /\ current' = [current EXCEPT ![p] = e]
       /\ attempted' = [attempted EXCEPT ![p] = @ \cup {e}]
  /\ Goto(p, "eval")
  /\ UNCHANGED <<rowVars, redisVars, delayed, failures, elapsed, stop, faults,
                 damage>>

\* The first eligible row, locked.  _canonical_event refuses a poison row.
Select(p) == /\ pc[p] = "select" /\ ~Exhausted(p)
             /\ \E e \in Eligible(p) :
                  /\ \A f \in Eligible(p) : e <= f
                  /\ lock' = Acquired(p, e)
                  /\ current' = [current EXCEPT ![p] = e]
                  /\ attempted' = [attempted EXCEPT ![p] = @ \cup {e}]
                  /\ IF e \in Poison
                     THEN /\ Goto(p, "failed")
                          /\ failures' = [failures EXCEPT ![p] = @ \cup {e}]
                     ELSE Goto(p, "eval") /\ UNCHANGED failures
             /\ UNCHANGED <<rowVars, redisVars, delayed, elapsed, stop,
                            faults, damage>>

FinishBatch(p) == /\ pc[p] = "select"
                  /\ Exhausted(p) \/ Eligible(p) = {}
                  /\ LeaveBatch(p)
                  /\ UNCHANGED <<rowVars, redisVars, delayed, stop, faults,
                                 damage>>

SelectFails(p) == /\ pc[p] = "select" /\ ~Exhausted(p)
                  /\ Fault
                  /\ LeaveBatch(p)
                  /\ UNCHANGED <<rowVars, redisVars, delayed, stop, damage>>

\* Redis runs the script and its answer arrives.
Evaluate(p) == /\ pc[p] = "eval"
               /\ PublishOnce(Request(p))
               /\ IF Confirms(Request(p))
                  THEN Goto(p, "mark") /\ UNCHANGED batchVars
                  ELSE FailRow(p)
               /\ UNCHANGED <<rowVars, lock, delayed, elapsed, stop, faults,
                              damage>>

\* Redis runs it, the answer is lost or unreadable; the client library
\* sends the command again or the error reaches publish_batch.
AnswerLost(p) == /\ pc[p] = "eval"
                 /\ Fault
                 /\ PublishOnce(Request(p))
                 /\ \/ UNCHANGED <<pc, batchVars>>
                    \/ FailRow(p)
                 /\ UNCHANGED <<rowVars, lock, delayed, elapsed, stop, damage>>

\* The publisher gives up on a command that was never sent, or that Redis
\* will still run later.
EvalAbandoned(p) == /\ pc[p] = "eval"
                    /\ Fault
                    /\ FailRow(p)
                    /\ delayed' \in {delayed, delayed \cup {Request(p)}}
                    /\ UNCHANGED <<rowVars, lock, redisVars, elapsed, stop,
                                   damage>>

RunDelayed(r) == /\ r \in delayed
                 /\ PublishOnce(r)
                 /\ delayed' = delayed \ {r}
                 /\ UNCHANGED <<rowVars, lock, pc, batchVars, elapsed, stop,
                                faults, damage>>

SetPublished(e) == /\ published' = published \cup {e}
                   /\ wait' = [wait EXCEPT ![e] = 0]
                   /\ UNCHANGED <<rows, attempt_count>>

CommitMark(p) == /\ pc[p] = "mark" /\ Holds(p)
                 /\ SetPublished(current[p])
                 /\ lock' = Released(p)
                 /\ NextRow(p)
                 /\ UNCHANGED <<redisVars, delayed, stop, faults, damage>>

\* The commit is applied but its acknowledgement does not arrive.
MarkAckLost(p) == /\ pc[p] = "mark" /\ Holds(p)
                  /\ Fault
                  /\ SetPublished(current[p])
                  /\ lock' = Released(p)
                  /\ FailRow(p)
                  /\ UNCHANGED <<redisVars, delayed, elapsed, stop, damage>>

\* The commit is not applied: an error, or the connection was gone already.
MarkFails(p) == /\ pc[p] = "mark"
                /\ \/ Holds(p) /\ Fault
                   \/ ~Holds(p) /\ UNCHANGED faults
                /\ lock' = Released(p)
                /\ FailRow(p)
                /\ UNCHANGED <<rowVars, redisVars, delayed, elapsed, stop,
                               damage>>

\* Bug: _schedule_retry starts inside the failed transaction.
RollbackForgotten(p) ==
  /\ pc[p] = "failed"
  /\ Goto(p, "retry")
  /\ UNCHANGED <<rowVars, lock, redisVars, delayed, batchVars, elapsed, stop,
                 faults, damage>>

Rollback(p) == /\ pc[p] = "failed"
               /\ lock' = Released(p)
               /\ Goto(p, "retry")
               /\ UNCHANGED <<rowVars, redisVars, delayed, batchVars, elapsed,
                              stop, faults, damage>>

RollbackFails(p) == /\ pc[p] = "failed"
                    /\ Fault
                    /\ LeaveBatch(p)
                    /\ UNCHANGED <<rowVars, redisVars, delayed, stop, damage>>

------------------------------------------------------------------------------
(* _schedule_retry: now() is the start of the transaction, which may then   *)
(* wait for the row lock.                                                   *)

BeginRetry(p) == /\ pc[p] = "retry"
                 /\ Goto(p, "lockwait")
                 /\ elapsed' = [elapsed EXCEPT ![p] = 0]
                 /\ UNCHANGED <<rowVars, lock, redisVars, delayed, batchVars,
                                stop, faults, damage>>

\* WHERE published_at IS NULL finds no row: nothing to defer.
RetryUnneeded(p) == /\ pc[p] = "lockwait" /\ current[p] \in published
                    /\ NextRow(p)
                    /\ UNCHANGED <<rowVars, lock, redisVars, delayed, stop,
                                   faults, damage>>

\* Bug: the retry does not ask for published_at IS NULL.
LockRowUnfiltered(p) ==
  /\ pc[p] = "lockwait" /\ lock[current[p]] = Free
  /\ lock' = Acquired(p, current[p])
  /\ Goto(p, "scheduling")
  /\ UNCHANGED <<rowVars, redisVars, delayed, batchVars, elapsed, stop,
                 faults, damage>>

LockRow(p) == /\ pc[p] = "lockwait" /\ current[p] \notin published
              /\ lock[current[p]] = Free
              /\ lock' = Acquired(p, current[p])
              /\ Goto(p, "scheduling")
              /\ UNCHANGED <<rowVars, redisVars, delayed, batchVars, elapsed,
                             stop, faults, damage>>

Defer(p) ==
  LET e == current[p]
      n == attempt_count[e] + 1
      left == RetryDelay(n) - elapsed[p]
  IN /\ attempt_count' =
          [attempt_count EXCEPT ![e] = IF n <= AttemptCap THEN n ELSE @]
     /\ wait' = [wait EXCEPT ![e] = IF left > 0 THEN left ELSE 0]
     /\ UNCHANGED <<rows, published>>

\* Bug: the batch ends at its first failed row.
CommitRetryStops(p) == /\ pc[p] = "scheduling" /\ Holds(p)
                       /\ Defer(p)
                       /\ LeaveBatch(p)
                       /\ UNCHANGED <<redisVars, delayed, stop, faults,
                                      damage>>

CommitRetry(p) == /\ pc[p] = "scheduling" /\ Holds(p)
                  /\ Defer(p)
                  /\ lock' = Released(p)
                  /\ NextRow(p)
                  /\ UNCHANGED <<redisVars, delayed, stop, faults, damage>>

RetryAckLost(p) == /\ pc[p] = "scheduling" /\ Holds(p)
                   /\ Fault
                   /\ Defer(p)
                   /\ LeaveBatch(p)
                   /\ UNCHANGED <<redisVars, delayed, stop, damage>>

RetryFails(p) == /\ pc[p] \in {"lockwait", "scheduling"}
                 /\ \/ Fault
                    \/ pc[p] = "scheduling" /\ ~Holds(p) /\ UNCHANGED faults
                 /\ LeaveBatch(p)
                 /\ UNCHANGED <<rowVars, redisVars, delayed, stop, damage>>

------------------------------------------------------------------------------
(* The process: SIGTERM, exit, crash, supervisor *)

SigTerm(p) == /\ p \notin Once /\ pc[p] \notin {"down", "exited"} /\ ~stop[p]
              /\ Fault
              /\ stop' = [stop EXCEPT ![p] = TRUE]
              /\ UNCHANGED <<rowVars, lock, redisVars, delayed, pc, batchVars,
                             elapsed, damage>>

Exit(p) == /\ pc[p] = "idle" /\ stop[p]
           /\ Goto(p, "exited")
           /\ stop' = [stop EXCEPT ![p] = FALSE]
           /\ UNCHANGED <<rowVars, lock, redisVars, delayed, batchVars,
                          elapsed, faults, damage>>

\* The database aborts the transaction of a dead client; a command on its
\* way to Redis may still be run.
Crash(p) == /\ pc[p] \notin {"down", "exited"}
            /\ Fault
            /\ Goto(p, "down")
            /\ lock' = Released(p)
            /\ delayed' \in {delayed} \cup
                 (IF pc[p] = "eval" THEN {delayed \cup {Request(p)}} ELSE {})
            /\ current' = [current EXCEPT ![p] = None]
            /\ attempted' = [attempted EXCEPT ![p] = {}]
            /\ failures' = [failures EXCEPT ![p] = {}]
            /\ elapsed' = [elapsed EXCEPT ![p] = 0]
            /\ stop' = [stop EXCEPT ![p] = FALSE]
            /\ UNCHANGED <<rowVars, redisVars, damage>>

Restart(p) == /\ pc[p] \in {"down", "exited"}
              /\ Goto(p, "idle")
              /\ UNCHANGED <<rowVars, lock, redisVars, delayed, batchVars,
                             elapsed, stop, faults, damage>>

\* PostgreSQL ends the session under the publisher, which learns of it only
\* when it next uses it.
DropConnection(p) == /\ Holds(p)
                     /\ Fault
                     /\ lock' = Released(p)
                     /\ UNCHANGED <<rowVars, redisVars, delayed, pc, batchVars,
                                    elapsed, stop, damage>>

------------------------------------------------------------------------------
(* Time, and others who write to Redis *)

Waiting == {p \in Publishers : /\ pc[p] \in {"lockwait", "scheduling"}
                               /\ elapsed[p] < RetryMax}

Tick == /\ Waiting # {} \/ \E e \in Events : wait[e] > 0
        /\ wait' = [e \in Events |-> IF wait[e] > 0 THEN wait[e] - 1 ELSE 0]
        /\ elapsed' = [p \in Publishers |->
                         IF p \in Waiting THEN elapsed[p] + 1 ELSE elapsed[p]]
        /\ UNCHANGED <<rows, published, attempt_count, lock, redisVars,
                       delayed, pc, batchVars, stop, faults, damage>>

OverwriteMarker(e) == /\ damage < MaxDamage /\ damage' = damage + 1
                      /\ \E m \in {BadMarker} \cup {Place(x) : x \in appended} :
                           marker' = [marker EXCEPT ![e] = m]
                      /\ UNCHANGED <<rowVars, lock, appended, trimmed, delayed,
                                     pc, batchVars, elapsed, stop, faults>>

Trim(x) == /\ x \in Live
           /\ damage < MaxDamage /\ damage' = damage + 1
           /\ trimmed' = trimmed \cup {x}
           /\ UNCHANGED <<rowVars, lock, marker, appended, delayed, pc,
                          batchVars, elapsed, stop, faults>>

------------------------------------------------------------------------------

\* What a running publisher does of itself, without any fault.
Work(p) == \/ StartBatch(p) \/ Select(p) \/ FinishBatch(p) \/ Evaluate(p)
           \/ CommitMark(p) \/ (~Holds(p) /\ MarkFails(p)) \/ Rollback(p)
           \/ BeginRetry(p) \/ RetryUnneeded(p) \/ CommitRetry(p)
           \/ (pc[p] = "scheduling" /\ ~Holds(p) /\ RetryFails(p)) \/ Exit(p)

PublisherNext(p) ==
  \/ StartBatch(p) \/ TopologyCheckFails(p)
  \/ Select(p) \/ FinishBatch(p) \/ SelectFails(p)
  \/ Evaluate(p) \/ AnswerLost(p) \/ EvalAbandoned(p)
  \/ CommitMark(p) \/ MarkAckLost(p) \/ MarkFails(p)
  \/ Rollback(p) \/ RollbackFails(p)
  \/ BeginRetry(p) \/ RetryUnneeded(p) \/ LockRow(p)
  \/ CommitRetry(p) \/ RetryAckLost(p) \/ RetryFails(p)
  \/ SigTerm(p) \/ Exit(p) \/ Crash(p) \/ Restart(p) \/ DropConnection(p)

Next == \/ \E p \in Publishers : PublisherNext(p)
        \/ \E E \in SUBSET Events : Insert(E)
        \/ \E e \in Events : OverwriteMarker(e)
        \/ \E r \in delayed : RunDelayed(r)
        \/ \E x \in appended : Trim(x)
        \/ Tick

Spec == Init /\ [][Next]_vars

Fairness == /\ \A p \in Publishers : /\ WF_vars(Work(p))
                                     /\ SF_vars(LockRow(p))
                                     /\ WF_vars(Restart(p))
            /\ WF_vars(Tick)

FairSpec == Spec /\ Fairness

------------------------------------------------------------------------------
(* Properties *)

\* Every variable keeps its type.
TypeOK ==
  /\ rows \subseteq Events
  /\ published \subseteq Events
  /\ attempt_count \in [Events -> 0..AttemptCap]
  /\ wait \in [Events -> 0..RetryMax]
  /\ lock \in [Events -> Publishers \cup {Free}]
  /\ marker \in [Events -> Markers]
  /\ appended \subseteq Entries
  /\ trimmed \subseteq appended
  /\ delayed \subseteq Requests
  /\ pc \in [Publishers -> States]
  /\ current \in [Publishers -> Events \cup {None}]
  /\ attempted \in [Publishers -> SUBSET Events]
  /\ failures \in [Publishers -> SUBSET Events]
  /\ elapsed \in [Publishers -> 0..RetryMax]
  /\ stop \in [Publishers -> BOOLEAN]
  /\ faults \in 0..MaxFaults
  /\ damage \in 0..MaxDamage

\* No row ever gets a second stream entry: not when an answer, a commit or a
\* connection is lost, not from a command that runs late, not when the entry
\* has been trimmed or the marker overwritten.
AtMostOnce == \A x, y \in appended : x.event_id = y.event_id => x = y

\* A row is marked published only once its own canonical event stands, or
\* stood, in the stream of its type.
PublishedIsStreamed ==
  \A e \in published : \E x \in appended : /\ x.event_id = e
                                           /\ x.stream = StreamOf[e]
                                           /\ x.event[1] = e

\* A row that breaks its contract reaches neither Redis nor published_at,
\* not even through a command that is still under way.
PoisonIsolated == /\ published \cap Poison = {}
                  /\ \A x \in appended \cup delayed : x.event_id \notin Poison

\* A publisher that is between rows or waits for a row lock holds none, so
\* publishers never wait for each other in a circle.
LockDiscipline ==
  \A e \in Events : LET p == lock[e] IN
    p # Free => /\ current[p] = e
                /\ pc[p] \in {"eval", "mark", "failed", "scheduling"}

\* What publish_batch does not report as failed it has published: the count
\* it returns is the truth.
UnreportedIsPublished ==
  \A p \in Publishers :
    attempted[p] \ (failures[p] \cup {current[p]}) \subseteq published

\* No step touches a published row again: a retry scheduled after a commit
\* whose acknowledgement was lost, or after another publisher's success,
\* neither counts an attempt nor defers the row.
PublishedIsFinal ==
  [][\A e \in published : /\ e \in published'
                          /\ attempt_count'[e] = attempt_count[e]
                          /\ wait'[e] = wait[e]]_vars

\* Every committed row that keeps its contract is published in the end,
\* whatever poison rows stand before it in the order.
EveryEventPublished ==
  \A e \in Events \ Poison : e \in rows ~> e \in published

\* SIGTERM is honoured: the process ends once its batch does.
StopIsHonoured ==
  \A p \in Publishers : stop[p] ~> pc[p] \in {"exited", "down"}

\* The inductive invariant behind the safety properties.
Busy == {"eval", "mark", "failed", "retry", "lockwait", "scheduling"}
RowInHand == \A p \in Publishers : pc[p] \in Busy => current[p] \in rows
Typed == TypeOK /\ RowInHand /\ IsFiniteSet(appended)

MarkerCoversEntry == \A x \in appended : marker[x.event_id] # NoMarker
OwnEntry == \A x \in appended : /\ x.stream = StreamOf[x.event_id]
                                 /\ x.event[1] = x.event_id
OwnRequest == \A r \in delayed : /\ r.event_id \in rows
                                  /\ r.event[1] = r.event_id
CleanInHand == \A p \in Publishers :
                 pc[p] \in {"eval", "mark"} => current[p] \notin Poison
MarkAfterEntry == \A p \in Publishers :
  pc[p] = "mark" => \E x \in appended : x.event_id = current[p]
PublishedAtRest == \A e \in published : lock[e] = Free /\ wait[e] = 0
Late == {"failed", "retry", "lockwait", "scheduling"}
Reported == /\ UnreportedIsPublished
            /\ \A p \in Publishers :
                 /\ pc[p] \notin Busy => current[p] = None
                 /\ pc[p] \in Late => current[p] \in failures[p]

\* Types, the lock discipline, one marked entry per row, a published row at
\* rest, and a row put on the list before its failure is dealt with: what each
\* step needs of the state it starts in.
IInv == /\ Typed /\ LockDiscipline /\ PublishedAtRest
        /\ MarkerCoversEntry /\ AtMostOnce /\ OwnEntry /\ OwnRequest
        /\ CleanInHand /\ MarkAfterEntry
        /\ PoisonIsolated /\ PublishedIsStreamed /\ Reported

\* The publishers, PostgreSQL and Redis together keep what OutboxDelivery
\* promises.
Delivery == INSTANCE OutboxDelivery WITH
  Deliverable <- Events \ Poison,
  requested <- rows,
  copies <- [e \in Events |-> Cardinality({x \in appended : x.event_id = e})],
  confirmed <- published

DeliverySpec == Delivery!Spec
=============================================================================
