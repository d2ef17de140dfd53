--------------------------- MODULE MigrationsProofs ---------------------------
(***************************************************************************)
(* Proofs about Migrations, for any rows of any number of organizations,   *)
(* any course of upgrades and downgrades between 0002 and 0007, and any    *)
(* number of them.                                                         *)
(*                                                                         *)
(* The argument has three parts.  Rows, their columns and their events     *)
(* agree at every revision, so that each revision finds what it needs.  A  *)
(* delivery that is not yet claimed has a mail to its credit, and only a   *)
(* downgrade gives one back.  And the number of a snapshot is never drawn  *)
(* again, so who holds rows under a number holds the ones of that          *)
(* snapshot.                                                               *)
(***************************************************************************)
EXTENDS Migrations, FiniteSetTheorems, TLAPS

Absent == {Null, Gone}
EventStates == {"waiting", "deferred"}

TypeOK ==
  /\ revision \in 2..7
  /\ diagnostic_jobs \in [Diags -> JobStates \cup Absent]
  /\ export_jobs \in [Exports -> JobStates \cup Absent]
  /\ email_deliveries \in [Deliveries -> MailStates \cup Absent]
  /\ outbox_events \in [Aggregates -> EventStates \cup Absent]
  /\ users \in SUBSET Users
  /\ fields \in [Deliveries -> Fields]
  /\ snapshot_id \in [Exports -> Nat \cup {Null}]
  /\ drawn \in [Exports -> Nat]
  /\ leave \in [Deliveries -> Nat]
  /\ mailed \in [Deliveries -> Nat]
  /\ rewound \in [Deliveries -> Nat]

\* Before 0004 there are neither exports nor deliveries.
Young == revision < 4 => Rows(export_jobs) = {} /\ Rows(email_deliveries) = {}

\* Every row has its event.
Announced(table) == \A a \in Rows(table) : outbox_events[a] \notin Absent

Eventful == /\ Young
            /\ Announced(diagnostic_jobs)
            /\ Announced(export_jobs)
            /\ Announced(email_deliveries)
            /\ revision < 5 => \A a \in Aggregates : outbox_events[a] # "deferred"

\* A delivery has its recipient, so that the join of 0006 finds it, and from
\* 0006 on its fields go with its status.
FieldsInv == \A d \in Deliveries :
  /\ email_deliveries[d] \in Absent => fields[d] = NoFields
  /\ email_deliveries[d] \notin Absent =>
       /\ Joined(d)
       /\ IF revision >= 6 THEN DeliveryState(email_deliveries[d], fields[d])
                           ELSE email_deliveries[d] # "sending"

\* Claims that are to come: one, until the delivery is claimed.
Credit(d) == IF email_deliveries[d] \in {Null, "pending"} THEN 1 ELSE 0
MailInv == \A d \in Deliveries : mailed[d] + leave[d] + Credit(d) <= 1 + rewound[d]

\* Two rows of an export's snapshot differ in their job and their position.
Alike(x, r, s) == r.export = x /\ s.export = x /\ (r.id = s.id \/ r.position = s.position)
Keyed == \A x \in Exports : \A r, s \in snapshots : Alike(x, r, s) => r = s

\* The rows of a snapshot carry the number its export has at 0007, which was
\* drawn for it.
FrozenInv ==
  /\ revision # 7 => snapshots = {} /\ \A x \in Exports : snapshot_id[x] = Null
  /\ \A x \in Exports :
       /\ snapshot_id[x] # Null => snapshot_id[x] <= drawn[x]
       /\ revision = 7 /\ x \in Rows(export_jobs) => snapshot_id[x] # Null
  /\ \A r \in snapshots : /\ r.export \in Rows(export_jobs)
                          /\ r.snapshot = snapshot_id[r.export]
                          /\ OrgOf[r.id] = OrgOf[r.export]

\* What a worker holds, or has stored, under a number drawn is what that
\* snapshot holds, as long as the export has it.
Genuine(copy, x) ==
  /\ copy.snapshot \in Nat /\ copy.snapshot <= drawn[x]
  /\ copy.snapshot = snapshot_id[x] => copy.rows = Table(x)
HeldInv == \A x \in Exports : /\ held[x] # Null => Genuine(held[x], x)
                              /\ object[x] # Null => Genuine(object[x], x)
Stores == DOMAIN held = Exports /\ DOMAIN object = Exports

IInv == /\ TypeOK /\ Eventful /\ FieldsInv /\ MailInv
        /\ Keyed /\ FrozenInv /\ Stores /\ HeldInv

------------------------------------------------------------------------------
LEMMA StateFacts == /\ Null \notin JobStates \cup MailStates \cup EventStates
                    /\ Gone \notin JobStates \cup MailStates \cup EventStates
                    /\ Null # Gone /\ Null \notin Nat
                    /\ Null \notin {"address", "time"}
  BY NullAssumption DEF JobStates, MailStates, EventStates

LEMMA NoFieldsType == NoFields \in Fields
  BY DEF NoFields, Fields

LEMMA InitIInv == Init => IInv
<1> SUFFICES ASSUME Init PROVE IInv
  OBVIOUS
<1>1. TypeOK
  BY NoFieldsType DEF Init, TypeOK, Absent
<1>2. /\ Rows(diagnostic_jobs) = {} /\ Rows(export_jobs) = {}
      /\ Rows(email_deliveries) = {}
  BY DEF Init, Rows
<1>3. Eventful
  BY <1>2, NullAssumption DEF Init, Eventful, Young, Announced
<1>4. FieldsInv /\ MailInv
  BY DEF Init, FieldsInv, MailInv, Absent, Credit
<1>5. Keyed /\ FrozenInv /\ Stores /\ HeldInv
  BY DEF Init, Keyed, FrozenInv, Stores, HeldInv
<1> QED BY <1>1, <1>3, <1>4, <1>5 DEF IInv

(* Types *)

LEMMA UpgradeTypes == TypeOK /\ Upgrade => TypeOK'
<1> SUFFICES ASSUME TypeOK, Upgrade PROVE TypeOK'
  OBVIOUS
<1>1. CASE CreateDiagnosticsAndOutbox \/ CreateExportsAndDeliveries \/ AddSchedule
  BY <1>1 DEF CreateDiagnosticsAndOutbox, CreateExportsAndDeliveries, AddSchedule,
              UpTo, TypeOK, tables, columns, workerVars, history
<1>2. CASE AddDeliveryState
  <2>1. /\ fields' = FillFailed(FillSent(ClearPending(fields)))
        /\ revision' \in 2..7
        /\ UNCHANGED <<diagnostic_jobs, export_jobs, email_deliveries, outbox_events,
                       users, snapshot_id, drawn, leave, mailed, rewound>>
    BY <1>2 DEF AddDeliveryState, UpTo, tables, workerVars, history
  <2>2. ASSUME NEW f \in [Deliveries -> Fields]
        PROVE  /\ ClearPending(f) \in [Deliveries -> Fields]
               /\ FillSent(f) \in [Deliveries -> Fields]
               /\ FillFailed(f) \in [Deliveries -> Fields]
    BY NoFieldsType DEF ClearPending, FillSent, FillFailed, Coalesce, Fields
  <2>3. fields' \in [Deliveries -> Fields]
    BY <2>1, <2>2 DEF TypeOK
  <2> QED BY <2>1, <2>3 DEF TypeOK
<1>3. CASE FreezeExports
  BY <1>3 DEF FreezeExports, Drawn, UpTo, TypeOK, tables, workerVars, history
<1> QED BY <1>1, <1>2, <1>3 DEF Upgrade

LEMMA DowngradeTypes == TypeOK /\ Downgrade => TypeOK'
<1> SUFFICES ASSUME TypeOK, Downgrade PROVE TypeOK'
  OBVIOUS
<1>1. CASE DropSnapshots
  BY <1>1 DEF DropSnapshots, DownFrom, TypeOK, tables, workerVars
<1>2. CASE DropDeliveryState
  <2>1. fields' \in [Deliveries -> Fields]
    BY <1>2, NoFieldsType DEF DropDeliveryState, TypeOK, Fields
  <2> QED BY <1>2, <2>1 DEF DropDeliveryState, DownFrom, TypeOK, workerVars, MailStates
<1>3. CASE DropSchedule
  BY <1>3 DEF DropSchedule, WithoutSchedule, DownFrom, TypeOK, columns, workerVars,
              EventStates
<1>4. ASSUME NEW table, NEW S, NEW T, table \in [S -> T \cup Absent]
      PROVE  Dropped(table) \in [S -> T \cup Absent]
  BY <1>4 DEF Dropped, Absent
<1>5. CASE DropExportsAndDeliveries
  <2>1. /\ export_jobs' \in [Exports -> JobStates \cup Absent]
        /\ email_deliveries' \in [Deliveries -> MailStates \cup Absent]
    BY <1>4, <1>5 DEF DropExportsAndDeliveries, TypeOK
  <2> QED BY <1>5, <2>1, NoFieldsType
          DEF DropExportsAndDeliveries, DownFrom, TypeOK, workerVars
<1>6. CASE DropDiagnosticsAndOutbox
  <2>1. /\ diagnostic_jobs' \in [Diags -> JobStates \cup Absent]
        /\ outbox_events' \in [Aggregates -> EventStates \cup Absent]
    BY <1>4, <1>6 DEF DropDiagnosticsAndOutbox, TypeOK
  <2> QED BY <1>6, <2>1
          DEF DropDiagnosticsAndOutbox, DownFrom, TypeOK, columns, workerVars
<1> QED BY <1>1, <1>2, <1>3, <1>5, <1>6 DEF Downgrade

\* A step of the application
Application ==
  \/ \E d \in Diags : AdvanceDiagnostic(d)
  \/ \E x \in Exports : \/ CreateExport(x) \/ ClaimExport(x)
                        \/ ReadExport(x) \/ CompleteExport(x)
  \/ \E d \in Deliveries : \/ CreateDelivery(d) \/ SettleEarly(d)
                           \/ ClaimDelivery(d) \/ MailDelivery(d)
                           \/ ReportDelivery(d)
  \/ \E u \in Users : EditUsers(u)
  \/ \E a \in Aggregates : DeferEvent(a)

LEMMA ApplicationTypes == TypeOK /\ Application => TypeOK'
<1> SUFFICES ASSUME TypeOK, Application PROVE TypeOK'
  OBVIOUS
<1>0. Diags \subseteq Aggregates /\ Exports \subseteq Aggregates
      /\ Deliveries \subseteq Aggregates
  BY DEF Aggregates
<1>1. ASSUME NEW d \in Diags, AdvanceDiagnostic(d) PROVE TypeOK'
  BY <1>0, <1>1 DEF AdvanceDiagnostic, Announce, TypeOK, JobStates, EventStates,
                    columns, workerVars, history
<1>2. ASSUME NEW x \in Exports, CreateExport(x) PROVE TypeOK'
  BY <1>0, <1>2 DEF CreateExport, Announce, Drawn, TypeOK, JobStates, EventStates,
                    workerVars, history
<1>3. ASSUME NEW x \in Exports, ClaimExport(x) \/ ReadExport(x) \/ CompleteExport(x)
      PROVE  TypeOK'
  BY <1>3 DEF ClaimExport, ReadExport, CompleteExport, TypeOK, JobStates, tables,
              columns, workerVars, history
<1>4. ASSUME NEW d \in Deliveries, CreateDelivery(d) PROVE TypeOK'
  <2>1. email_deliveries' \in [Deliveries -> MailStates \cup Absent]
    BY <1>4 DEF CreateDelivery, TypeOK, MailStates
  <2>2. outbox_events' \in [Aggregates -> EventStates \cup Absent]
    BY <1>0, <1>4 DEF CreateDelivery, Announce, TypeOK, EventStates
  <2> QED BY <1>4, <2>1, <2>2 DEF CreateDelivery, TypeOK, columns, workerVars, history
<1>5. ASSUME NEW d \in Deliveries, ClaimDelivery(d) \/ MailDelivery(d) PROVE TypeOK'
  <2>1. CASE ClaimDelivery(d)
    <3>1. [fields[d] EXCEPT !.recipient_email_snapshot = "address",
                            !.attempted_at = "time"] \in Fields
      BY DEF TypeOK, Fields
    <3>2. fields' \in [Deliveries -> Fields]
      BY <2>1, <3>1 DEF ClaimDelivery, TypeOK
    <3>3. email_deliveries' \in [Deliveries -> MailStates \cup Absent]
      BY <2>1 DEF ClaimDelivery, TypeOK, MailStates
    <3>4. leave' \in [Deliveries -> Nat]
      BY <2>1 DEF ClaimDelivery, TypeOK
    <3> QED BY <2>1, <3>2, <3>3, <3>4 DEF ClaimDelivery, TypeOK, history
  <2>2. CASE MailDelivery(d)
    <3>1. leave[d] \in Nat /\ leave[d] > 0 /\ mailed[d] \in Nat
      BY <2>2 DEF MailDelivery, TypeOK
    <3>2. leave[d] - 1 \in Nat /\ mailed[d] + 1 \in Nat
      BY <3>1
    <3>3. leave' \in [Deliveries -> Nat] /\ mailed' \in [Deliveries -> Nat]
      BY <2>2, <3>2 DEF MailDelivery, TypeOK
    <3> QED BY <2>2, <3>3 DEF MailDelivery, TypeOK, tables, columns, history
  <2> QED BY <1>5, <2>1, <2>2
<1>6. ASSUME NEW d \in Deliveries, ReportDelivery(d) \/ SettleEarly(d) PROVE TypeOK'
  <2>1. fields' \in [Deliveries -> Fields]
    BY <1>6 DEF ReportDelivery, SettleEarly, TypeOK, Fields
  <2>2. email_deliveries' \in [Deliveries -> MailStates \cup Absent]
    BY <1>6 DEF ReportDelivery, SettleEarly, TypeOK, MailStates
  <2>3. mailed' \in [Deliveries -> Nat]
    BY <1>6 DEF ReportDelivery, SettleEarly, TypeOK, workerVars
  <2> QED BY <1>6, <2>1, <2>2, <2>3
          DEF ReportDelivery, SettleEarly, TypeOK, workerVars, history
<1>7. ASSUME NEW u \in Users, EditUsers(u) PROVE TypeOK'
  BY <1>7 DEF EditUsers, TypeOK, tables, workerVars, history
<1>8. ASSUME NEW a \in Aggregates, DeferEvent(a) PROVE TypeOK'
  BY <1>8 DEF DeferEvent, TypeOK, EventStates, columns, workerVars, history
<1> QED BY <1>1, <1>2, <1>3, <1>4, <1>5, <1>6, <1>7, <1>8 DEF Application

(* Rows and their events *)

LEMMA EventfulStays ==
  ASSUME Eventful, UNCHANGED tables, revision' = revision
  PROVE  Eventful'
  BY DEF Eventful, Young, Announced, Rows, tables

LEMMA UpgradeEventful == TypeOK /\ Eventful /\ Upgrade => Eventful'
<1> SUFFICES ASSUME TypeOK, Eventful, Upgrade PROVE Eventful'
  OBVIOUS
<1>1. UNCHANGED tables /\ revision' = revision + 1
  BY DEF Upgrade, CreateDiagnosticsAndOutbox, CreateExportsAndDeliveries, AddSchedule,
         AddDeliveryState, FreezeExports, UpTo, TypeOK
<1> QED BY <1>1 DEF Eventful, Young, Announced, Rows, tables, TypeOK

\* A table that is dropped has no rows.
LEMMA DroppedRows == \A table : Rows(Dropped(table)) = {}
  BY DEF Rows, Dropped

LEMMA DowngradeEventful == TypeOK /\ Eventful /\ Downgrade => Eventful'
<1> SUFFICES ASSUME TypeOK, Eventful, Downgrade PROVE Eventful'
  OBVIOUS
<1>1. revision' = revision - 1 /\ revision \in 3..7
  BY DEF Downgrade, DropSnapshots, DropDeliveryState, DropSchedule,
         DropExportsAndDeliveries, DropDiagnosticsAndOutbox, DownFrom
<1>2. CASE DropSnapshots
  BY <1>2 DEF DropSnapshots, DownFrom, Eventful, Young, Announced, Rows, tables
<1>3. CASE DropDeliveryState
  <2>1. Rows(email_deliveries)' \subseteq Rows(email_deliveries)
    BY <1>3, StateFacts
    DEF DropDeliveryState, Rows, Rewound, TypeOK, MailStates, Absent
  <2> QED BY <1>3, <2>1
          DEF DropDeliveryState, DownFrom, Eventful, Young, Announced, Rows
<1>4. CASE DropSchedule
  <2>1. \A a \in Aggregates : /\ outbox_events'[a] # "deferred"
                              /\ outbox_events[a] \notin Absent =>
                                   outbox_events'[a] \notin Absent
    BY <1>4, StateFacts DEF DropSchedule, WithoutSchedule, EventStates, Absent
  <2>2. /\ UNCHANGED <<diagnostic_jobs, export_jobs, email_deliveries>>
        /\ revision' = 4
    BY <1>4 DEF DropSchedule, DownFrom
  <2>3. /\ Rows(diagnostic_jobs) \subseteq Aggregates
        /\ Rows(export_jobs) \subseteq Aggregates
        /\ Rows(email_deliveries) \subseteq Aggregates
    BY DEF Rows, TypeOK, Aggregates
  <2> QED BY <2>1, <2>2, <2>3 DEF Eventful, Young, Announced, Rows
<1>5. CASE DropExportsAndDeliveries
  <2>1. Rows(export_jobs)' = {} /\ Rows(email_deliveries)' = {}
    BY <1>5, DroppedRows DEF DropExportsAndDeliveries, Rows, Dropped
  <2> QED BY <1>5, <2>1
          DEF DropExportsAndDeliveries, DownFrom, Eventful, Young, Announced, Rows
<1>6. CASE DropDiagnosticsAndOutbox
  <2>1. /\ Rows(diagnostic_jobs)' = {}
        /\ \A a \in Aggregates : outbox_events'[a] \in Absent
    BY <1>6, StateFacts DEF DropDiagnosticsAndOutbox, Rows, Dropped, Absent, TypeOK
  <2>2. Rows(export_jobs)' = {} /\ Rows(email_deliveries)' = {}
    BY <1>6 DEF DropDiagnosticsAndOutbox, DownFrom, Eventful, Young, Rows
  <2>3. \A a \in Aggregates : outbox_events'[a] # "deferred"
    BY <2>1, NullAssumption DEF Absent
  <2> QED BY <2>1, <2>2, <2>3, <1>6
          DEF Eventful, Young, Announced, DropDiagnosticsAndOutbox, DownFrom
<1> QED BY <1>2, <1>3, <1>4, <1>5, <1>6 DEF Downgrade

\* An event that is there stays, and what is announced has one.
LEMMA AnnounceFacts ==
  ASSUME TypeOK, NEW a \in Aggregates, Announce(a)
  PROVE  /\ outbox_events'[a] = "waiting" /\ outbox_events'[a] \notin Absent
         /\ \A b \in Aggregates \ {a} : outbox_events'[b] = outbox_events[b]
  BY StateFacts DEF TypeOK, Announce, Absent, EventStates

LEMMA ApplicationEventful == TypeOK /\ Eventful /\ Application => Eventful'
<1> SUFFICES ASSUME TypeOK, Eventful, Application PROVE Eventful'
  OBVIOUS
<1>0. /\ Diags \subseteq Aggregates /\ Exports \subseteq Aggregates
      /\ Deliveries \subseteq Aggregates
      /\ Rows(diagnostic_jobs) \subseteq Aggregates
      /\ Rows(export_jobs) \subseteq Aggregates
      /\ Rows(email_deliveries) \subseteq Aggregates
  BY DEF Aggregates, Rows, TypeOK
<1>1. ASSUME NEW d \in Diags, AdvanceDiagnostic(d) PROVE Eventful'
  <2>1. UNCHANGED <<revision, export_jobs, email_deliveries>> /\ revision >= 3
    BY <1>1 DEF AdvanceDiagnostic
  <2>2. CASE diagnostic_jobs[d] = Null /\ Announce(d)
    <3>1. Rows(diagnostic_jobs)' \subseteq Rows(diagnostic_jobs) \cup {d}
      BY <1>1 DEF AdvanceDiagnostic, Rows, TypeOK
    <3> QED BY <1>0, <2>1, <2>2, <3>1, AnnounceFacts
            DEF Eventful, Young, Announced, Rows
  <2>3. CASE diagnostic_jobs[d] \in {"pending", "claimed"} /\ UNCHANGED outbox_events
    <3>1. Rows(diagnostic_jobs)' \subseteq Rows(diagnostic_jobs)
      BY <1>1, <2>3, StateFacts DEF AdvanceDiagnostic, Rows, TypeOK, JobStates
    <3> QED BY <2>1, <2>3, <3>1 DEF Eventful, Young, Announced, Rows
  <2> QED BY <1>1, <2>2, <2>3 DEF AdvanceDiagnostic
<1>2. ASSUME NEW x \in Exports, CreateExport(x) PROVE Eventful'
  <2>1. /\ UNCHANGED <<revision, diagnostic_jobs, email_deliveries>>
        /\ revision >= 4 /\ Announce(x)
        /\ Rows(export_jobs)' \subseteq Rows(export_jobs) \cup {x}
    BY <1>2 DEF CreateExport, Rows, TypeOK
  <2> QED BY <1>0, <2>1, AnnounceFacts DEF Eventful, Young, Announced, Rows, TypeOK
<1>3. ASSUME NEW x \in Exports, ClaimExport(x) \/ CompleteExport(x)
      PROVE  Eventful'
  <2>1. /\ UNCHANGED <<revision, diagnostic_jobs, email_deliveries, outbox_events>>
        /\ Rows(export_jobs)' \subseteq Rows(export_jobs)
    BY <1>3, StateFacts
    DEF ClaimExport, CompleteExport, Rows, TypeOK, JobStates, Absent
  <2> QED BY <2>1 DEF Eventful, Young, Announced, Rows
<1>4. ASSUME NEW d \in Deliveries, CreateDelivery(d) PROVE Eventful'
  <2>1. /\ UNCHANGED <<revision, diagnostic_jobs, export_jobs>>
        /\ revision >= 4 /\ Announce(d)
        /\ Rows(email_deliveries)' \subseteq Rows(email_deliveries) \cup {d}
    BY <1>4 DEF CreateDelivery, Rows, TypeOK
  <2> QED BY <1>0, <2>1, AnnounceFacts DEF Eventful, Young, Announced, Rows, TypeOK
<1>5. ASSUME NEW d \in Deliveries,
             ClaimDelivery(d) \/ ReportDelivery(d) \/ SettleEarly(d)
      PROVE  Eventful'
  <2>1. /\ UNCHANGED <<revision, diagnostic_jobs, export_jobs, outbox_events>>
        /\ Rows(email_deliveries)' \subseteq Rows(email_deliveries)
    BY <1>5, StateFacts
    DEF ClaimDelivery, ReportDelivery, SettleEarly, Rows, TypeOK, MailStates, Absent
  <2> QED BY <2>1 DEF Eventful, Young, Announced, Rows
<1>6. ASSUME NEW a \in Aggregates, DeferEvent(a) PROVE Eventful'
  <2>1. /\ UNCHANGED <<revision, diagnostic_jobs, export_jobs, email_deliveries>>
        /\ revision >= 5 /\ outbox_events' = [outbox_events EXCEPT ![a] = "deferred"]
        /\ "deferred" \notin Absent
    BY <1>6, StateFacts DEF DeferEvent, EventStates, Absent
  <2> QED BY <2>1 DEF Eventful, Young, Announced, Rows, TypeOK
<1>7. ASSUME NEW x \in Exports, ReadExport(x) PROVE Eventful'
  BY <1>7, EventfulStays DEF ReadExport
<1>8. ASSUME NEW d \in Deliveries, MailDelivery(d) PROVE Eventful'
  BY <1>8, EventfulStays DEF MailDelivery
<1>9. ASSUME NEW u \in Users, EditUsers(u) PROVE Eventful'
  BY <1>9, EventfulStays DEF EditUsers
<1> QED BY <1>1, <1>2, <1>3, <1>4, <1>5, <1>6, <1>7, <1>8, <1>9 DEF Application

(* The fields of a delivery *)

\* The statements of 0006 one after the other: each settles the rows of its
\* status, and leaves those of the others.
LEMMA BackfillFacts ==
  ASSUME TypeOK, NEW d \in Deliveries,
         email_deliveries[d] \notin Absent => Joined(d)
  PROVE  LET new == FillFailed(FillSent(ClearPending(fields)))[d] IN
         /\ email_deliveries[d] \in {"pending", "sent", "failed"} =>
              DeliveryState(email_deliveries[d], new)
         /\ email_deliveries[d] \in Absent => new = fields[d]
<1> DEFINE one == ClearPending(fields)
           two == FillSent(one)
           new == FillFailed(two)[d]
<1>1. one[d] = IF email_deliveries[d] = "pending" THEN NoFields ELSE fields[d]
  BY DEF ClearPending
<1>2. /\ email_deliveries[d] = "sent" /\ Joined(d) =>
           /\ two[d].recipient_email_snapshot = "address"
           /\ two[d].attempted_at = Coalesce(one[d].attempted_at, "time")
           /\ two[d].sent_at = Coalesce(one[d].attempted_at, "time")
      /\ email_deliveries[d] # "sent" => two[d] = one[d]
  BY DEF FillSent
<1> HIDE DEF one
<1>3. /\ email_deliveries[d] = "failed" /\ Joined(d) =>
           /\ new.recipient_email_snapshot = "address"
           /\ new.attempted_at = Coalesce(two[d].attempted_at, "time")
           /\ new.sent_at = Null
      /\ email_deliveries[d] # "failed" => new = two[d]
  BY DEF FillFailed
<1> HIDE DEF two, new
<1>4. \A value : Coalesce(value, "time") # Null
  BY StateFacts DEF Coalesce
<1>5. email_deliveries[d] \in {"pending", "sent", "failed"} =>
        Joined(d) /\ email_deliveries[d] \notin Absent
  BY StateFacts DEF MailStates, Absent
<1>6. CASE email_deliveries[d] = "pending"
  <2>1. new = NoFields
    BY <1>1, <1>2, <1>3, <1>6
  <2> QED BY <1>5, <1>6, <2>1 DEF DeliveryState, NoFields, one, two, new
<1>7. CASE email_deliveries[d] = "sent"
  <2>1. new.recipient_email_snapshot # Null /\ new.attempted_at # Null /\ new.sent_at # Null
    BY <1>2, <1>3, <1>4, <1>5, <1>7, StateFacts
  <2> QED BY <1>5, <1>7, <2>1 DEF DeliveryState, one, two, new
<1>8. CASE email_deliveries[d] = "failed"
  <2>1. new.recipient_email_snapshot # Null /\ new.attempted_at # Null /\ new.sent_at = Null
    BY <1>3, <1>4, <1>5, <1>8, StateFacts
  <2> QED BY <1>5, <1>8, <2>1 DEF DeliveryState, one, two, new
<1>9. CASE email_deliveries[d] \notin {"pending", "sent", "failed"}
  <2>1. new = fields[d]
    BY <1>1, <1>2, <1>3, <1>9
  <2> QED BY <1>9, <2>1 DEF one, two, new
<1> QED BY <1>6, <1>7, <1>8, <1>9

LEMMA UpgradeFields == TypeOK /\ FieldsInv /\ Upgrade => FieldsInv'
<1> SUFFICES ASSUME TypeOK, FieldsInv, Upgrade PROVE FieldsInv'
  OBVIOUS
<1>1. UNCHANGED <<email_deliveries, users>> /\ revision' = revision + 1
  BY DEF Upgrade, CreateDiagnosticsAndOutbox, CreateExportsAndDeliveries, AddSchedule,
         AddDeliveryState, FreezeExports, UpTo, TypeOK, tables, columns
<1>2. CASE AddDeliveryState
  <2>1. /\ fields' = FillFailed(FillSent(ClearPending(fields)))
        /\ revision = 5 /\ revision' = 6
    BY <1>2 DEF AddDeliveryState, UpTo, TypeOK
  <2>2. ASSUME NEW d \in Deliveries
        PROVE  /\ email_deliveries[d] \in Absent => fields'[d] = NoFields
               /\ email_deliveries[d] \notin Absent =>
                    Joined(d) /\ DeliveryState(email_deliveries[d], fields'[d])
    <3>1. email_deliveries[d] \notin Absent =>
            email_deliveries[d] \in {"pending", "sent", "failed"} /\ Joined(d)
      BY <2>1 DEF FieldsInv, TypeOK, MailStates
    <3>2. email_deliveries[d] \in Absent => fields[d] = NoFields
      BY DEF FieldsInv
    <3> QED BY <2>1, <3>1, <3>2, BackfillFacts
  <2> QED BY <1>1, <2>1, <2>2 DEF FieldsInv, Joined
<1>3. CASE ~AddDeliveryState
  <2>1. UNCHANGED fields /\ (revision' >= 6 <=> revision >= 6)
    BY <1>3 DEF Upgrade, CreateDiagnosticsAndOutbox, CreateExportsAndDeliveries,
                AddSchedule, FreezeExports, UpTo, columns
  <2> QED BY <1>1, <2>1 DEF FieldsInv, Joined
<1> QED BY <1>2, <1>3

LEMMA DowngradeFields == TypeOK /\ FieldsInv /\ Downgrade => FieldsInv'
<1> SUFFICES ASSUME TypeOK, FieldsInv, Downgrade PROVE FieldsInv'
  OBVIOUS
<1>0. UNCHANGED users
  BY DEF Downgrade, DropSnapshots, DropDeliveryState, DropSchedule,
         DropExportsAndDeliveries, DropDiagnosticsAndOutbox, columns
<1>1. CASE DropDeliveryState
  <2>1. /\ revision = 6 /\ revision' = 5
        /\ email_deliveries' = [d \in Deliveries |->
              IF d \in Rewound THEN "pending" ELSE email_deliveries[d]]
        /\ fields' = [d \in Deliveries |->
              [NoFields EXCEPT !.attempted_at =
                 IF d \in Rewound THEN Null ELSE fields[d].attempted_at]]
    BY <1>1 DEF DropDeliveryState, DownFrom
  <2>2. ASSUME NEW d \in Deliveries
        PROVE  /\ email_deliveries'[d] # "sending"
               /\ email_deliveries'[d] \in Absent => fields'[d] = NoFields
               /\ email_deliveries'[d] \notin Absent => Joined(d)
    <3>1. CASE d \in Rewound
      BY <2>1, <3>1, StateFacts DEF Rewound, FieldsInv, Absent, MailStates
    <3>2. CASE d \notin Rewound
      <4>1. /\ email_deliveries'[d] = email_deliveries[d]
            /\ email_deliveries[d] # "sending"
            /\ fields'[d] = [NoFields EXCEPT !.attempted_at = fields[d].attempted_at]
        BY <2>1, <3>2 DEF Rewound
      <4> QED BY <4>1 DEF FieldsInv, NoFields
    <3> QED BY <3>1, <3>2
  <2> QED BY <1>0, <2>1, <2>2 DEF FieldsInv, Joined
<1>2. CASE DropExportsAndDeliveries
  <2>1. \A d \in Deliveries : email_deliveries'[d] \in Absent /\ fields'[d] = NoFields
    BY <1>2 DEF DropExportsAndDeliveries, Dropped, Rows, TypeOK, Absent
  <2> QED BY <2>1 DEF FieldsInv
<1>3. CASE DropSnapshots \/ DropSchedule \/ DropDiagnosticsAndOutbox
  <2>1. UNCHANGED <<email_deliveries, fields>> /\ (revision' >= 6 <=> revision >= 6)
    BY <1>3 DEF DropSnapshots, DropSchedule, DropDiagnosticsAndOutbox, DownFrom, tables,
                columns
  <2> QED BY <1>0, <2>1 DEF FieldsInv, Joined
<1> QED BY <1>1, <1>2, <1>3 DEF Downgrade

LEMMA ApplicationFields == TypeOK /\ FieldsInv /\ Application => FieldsInv'
<1> SUFFICES ASSUME TypeOK, FieldsInv, Application PROVE FieldsInv'
  OBVIOUS
<1>0. ASSUME NEW d \in Deliveries, UNCHANGED <<revision, users>>, Joined(d),
             \A e \in Deliveries \ {d} : UNCHANGED <<email_deliveries[e], fields[e]>>,
             email_deliveries'[d] \in MailStates,
             IF revision >= 6 THEN DeliveryState(email_deliveries'[d], fields'[d])
                              ELSE email_deliveries'[d] # "sending"
      PROVE  FieldsInv'
  BY <1>0, StateFacts DEF FieldsInv, Joined, Absent
<1>1. ASSUME NEW d \in Deliveries, CreateDelivery(d) PROVE FieldsInv'
  <2>1. /\ UNCHANGED <<revision, users>> /\ fields'[d] = NoFields /\ Joined(d)
        /\ \A e \in Deliveries \ {d} : UNCHANGED <<email_deliveries[e], fields[e]>>
        /\ email_deliveries'[d] = "pending"
    BY <1>1 DEF CreateDelivery, FieldsInv, Absent, TypeOK, columns
  <2> QED BY <1>0, <2>1 DEF DeliveryState, NoFields, MailStates
<1>2. ASSUME NEW d \in Deliveries, ClaimDelivery(d) PROVE FieldsInv'
  <2>1. /\ UNCHANGED <<revision, users>> /\ revision >= 6
        /\ \A e \in Deliveries \ {d} : UNCHANGED <<email_deliveries[e], fields[e]>>
        /\ email_deliveries[d] = "pending" /\ email_deliveries'[d] = "sending"
        /\ fields'[d].recipient_email_snapshot = "address"
        /\ fields'[d].attempted_at = "time" /\ fields'[d].sent_at = fields[d].sent_at
    BY <1>2 DEF ClaimDelivery, TypeOK, Fields
  <2>2. Joined(d) /\ fields[d].sent_at = Null
    BY <2>1, StateFacts DEF FieldsInv, DeliveryState, Absent, MailStates
  <2> QED BY <1>0, <2>1, <2>2, StateFacts DEF DeliveryState, MailStates
<1>3. ASSUME NEW d \in Deliveries, ReportDelivery(d) PROVE FieldsInv'
  <2>1. /\ UNCHANGED <<revision, users>> /\ revision >= 6
        /\ \A e \in Deliveries \ {d} : UNCHANGED <<email_deliveries[e], fields[e]>>
        /\ email_deliveries[d] = "sending"
        /\ \/ email_deliveries'[d] = "sent" /\ fields'[d].sent_at = "time"
           \/ email_deliveries'[d] = "failed" /\ fields'[d].sent_at = Null
        /\ fields'[d].attempted_at = fields[d].attempted_at
        /\ fields'[d].recipient_email_snapshot = fields[d].recipient_email_snapshot
    BY <1>3 DEF ReportDelivery, TypeOK, Fields
  <2>2. /\ Joined(d) /\ fields[d].attempted_at # Null
        /\ fields[d].recipient_email_snapshot # Null
    BY <2>1, StateFacts DEF FieldsInv, DeliveryState, Absent, MailStates
  <2> QED BY <1>0, <2>1, <2>2, StateFacts DEF DeliveryState, MailStates
<1>4. ASSUME NEW d \in Deliveries, SettleEarly(d) PROVE FieldsInv'
  <2>1. /\ UNCHANGED <<revision, users>> /\ revision \in 4..5
        /\ \A e \in Deliveries \ {d} : UNCHANGED <<email_deliveries[e], fields[e]>>
        /\ email_deliveries[d] = "pending"
        /\ email_deliveries'[d] \in {"pending", "sent", "failed"}
    BY <1>4 DEF SettleEarly, TypeOK
  <2>2. Joined(d)
    BY <2>1, StateFacts DEF FieldsInv, Absent, MailStates
  <2> QED BY <1>0, <2>1, <2>2 DEF MailStates
<1>5. ASSUME NEW u \in Users, EditUsers(u) PROVE FieldsInv'
  <2>1. /\ UNCHANGED <<revision, email_deliveries, fields>>
        /\ \A v \in users : v \notin users' => ~Referenced(v)
    BY <1>5 DEF EditUsers, tables
  <2>2. \A d \in Deliveries : email_deliveries[d] \notin Absent =>
          Referenced(Recipient[d])
    BY DEF Referenced, Rows, Absent, TypeOK
  <2>3. \A d \in Deliveries : Joined(d) /\ email_deliveries[d] \notin Absent => Joined(d)'
    BY <2>1, <2>2 DEF Joined
  <2> QED BY <2>1, <2>3 DEF FieldsInv
<1>6. CASE \/ \E d \in Diags : AdvanceDiagnostic(d)
           \/ \E x \in Exports : \/ CreateExport(x) \/ ClaimExport(x)
                                 \/ ReadExport(x) \/ CompleteExport(x)
           \/ \E d \in Deliveries : MailDelivery(d)
           \/ \E a \in Aggregates : DeferEvent(a)
  <2>1. UNCHANGED <<revision, email_deliveries, users, fields>>
    BY <1>6 DEF AdvanceDiagnostic, CreateExport, ClaimExport, ReadExport,
         CompleteExport, MailDelivery, DeferEvent, tables, columns
  <2> QED BY <2>1 DEF FieldsInv, Joined
<1> QED BY <1>1, <1>2, <1>3, <1>4, <1>5, <1>6 DEF Application

(* Mails *)

LEMMA MailStays ==
  ASSUME MailInv, UNCHANGED <<email_deliveries, mailed, leave, rewound>>
  PROVE  MailInv'
  BY DEF MailInv, Credit

LEMMA UpgradeMail == MailInv /\ Upgrade => MailInv'
  BY MailStays
  DEF Upgrade, CreateDiagnosticsAndOutbox, CreateExportsAndDeliveries, AddSchedule,
      AddDeliveryState, FreezeExports, tables, workerVars, history

LEMMA DowngradeMail == TypeOK /\ MailInv /\ Downgrade => MailInv'
<1> SUFFICES ASSUME TypeOK, MailInv, Downgrade PROVE MailInv'
  OBVIOUS
<1>1. UNCHANGED <<mailed, leave>>
  BY DEF Downgrade, DropSnapshots, DropDeliveryState, DropSchedule,
         DropExportsAndDeliveries, DropDiagnosticsAndOutbox, workerVars
<1>2. CASE DropDeliveryState
  <2>1. ASSUME NEW d \in Deliveries
        PROVE  IF email_deliveries[d] = "sending"
               THEN Credit(d) = 0 /\ Credit(d)' \in {0, 1} /\ rewound'[d] = rewound[d] + 1
               ELSE Credit(d)' = Credit(d) /\ rewound'[d] = rewound[d]
    BY <1>2, <2>1, StateFacts
    DEF DropDeliveryState, Rewound, Credit, TypeOK, MailStates
  <2> QED BY <1>1, <2>1 DEF MailInv, TypeOK, Credit
<1>3. CASE DropExportsAndDeliveries
  <2>1. ASSUME NEW d \in Deliveries
        PROVE  Credit(d)' <= Credit(d) /\ Credit(d) \in {0, 1} /\ Credit(d)' \in {0, 1}
    BY <1>3, <2>1, StateFacts
    DEF DropExportsAndDeliveries, Dropped, Rows, Credit, TypeOK, MailStates
  <2>2. UNCHANGED rewound
    BY <1>3 DEF DropExportsAndDeliveries
  <2> QED BY <1>1, <2>1, <2>2 DEF MailInv, TypeOK
<1>4. CASE DropSnapshots \/ DropSchedule \/ DropDiagnosticsAndOutbox
  BY <1>1, <1>4, MailStays
  DEF DropSnapshots, DropSchedule, DropDiagnosticsAndOutbox, tables
<1> QED BY <1>2, <1>3, <1>4 DEF Downgrade

LEMMA ApplicationMail == TypeOK /\ MailInv /\ Application => MailInv'
<1> SUFFICES ASSUME TypeOK, MailInv, Application PROVE MailInv'
  OBVIOUS
<1>0. ASSUME NEW d \in Deliveries, UNCHANGED rewound, Credit(d)' \in {0, 1},
             \A e \in Deliveries \ {d} :
               UNCHANGED <<email_deliveries[e], mailed[e], leave[e]>>,
             mailed'[d] + leave'[d] + Credit(d)' <= mailed[d] + leave[d] + Credit(d),
             mailed'[d] \in Nat, leave'[d] \in Nat
      PROVE  MailInv'
  BY <1>0 DEF MailInv, Credit, TypeOK
<1>1. ASSUME NEW d \in Deliveries, CreateDelivery(d) PROVE MailInv'
  <2>1. /\ UNCHANGED <<mailed, leave, rewound>> /\ Credit(d) = 1
        /\ \A e \in Deliveries \ {d} : email_deliveries'[e] = email_deliveries[e]
        /\ Credit(d)' \in {0, 1}
    BY <1>1 DEF CreateDelivery, Credit, workerVars, history, TypeOK
  <2> QED BY <1>0, <2>1 DEF TypeOK
<1>2. ASSUME NEW d \in Deliveries, ClaimDelivery(d) PROVE MailInv'
  <2>1. /\ UNCHANGED <<mailed, rewound>> /\ Credit(d) = 1 /\ Credit(d)' = 0
        /\ \A e \in Deliveries \ {d} : UNCHANGED <<email_deliveries[e], leave[e]>>
        /\ leave'[d] = leave[d] + 1
    BY <1>2, StateFacts DEF ClaimDelivery, Credit, history, TypeOK, MailStates
  <2> QED BY <1>0, <2>1 DEF TypeOK
<1>3. ASSUME NEW d \in Deliveries, MailDelivery(d) PROVE MailInv'
  <2>1. /\ UNCHANGED <<email_deliveries, rewound>> /\ Credit(d)' = Credit(d)
        /\ \A e \in Deliveries \ {d} : UNCHANGED <<mailed[e], leave[e]>>
        /\ leave[d] > 0 /\ leave'[d] = leave[d] - 1 /\ mailed'[d] = mailed[d] + 1
        /\ Credit(d) \in {0, 1}
    BY <1>3 DEF MailDelivery, Credit, tables, history, TypeOK
  <2> QED BY <1>0, <2>1 DEF TypeOK
<1>4. ASSUME NEW d \in Deliveries, ReportDelivery(d) PROVE MailInv'
  <2>1. /\ UNCHANGED <<mailed, leave, rewound>> /\ Credit(d) = 0 /\ Credit(d)' = 0
        /\ \A e \in Deliveries \ {d} : email_deliveries'[e] = email_deliveries[e]
    BY <1>4, StateFacts
    DEF ReportDelivery, Credit, workerVars, history, TypeOK, MailStates
  <2> QED BY <1>0, <2>1 DEF TypeOK
<1>5. ASSUME NEW d \in Deliveries, SettleEarly(d) PROVE MailInv'
  <2>1. /\ UNCHANGED <<leave, rewound>> /\ Credit(d) = 1
        /\ \A e \in Deliveries \ {d} : UNCHANGED <<email_deliveries[e], mailed[e]>>
        /\ \/ /\ email_deliveries'[d] = "sent" /\ Credit(d)' = 0
              /\ mailed'[d] = mailed[d] + 1
           \/ Credit(d)' \in {0, 1} /\ mailed'[d] = mailed[d]
    BY <1>5, StateFacts DEF SettleEarly, Credit, history, TypeOK, MailStates
  <2> QED BY <1>0, <2>1 DEF TypeOK
<1>6. CASE \/ \E d \in Diags : AdvanceDiagnostic(d)
           \/ \E x \in Exports : \/ CreateExport(x) \/ ClaimExport(x)
                                 \/ ReadExport(x) \/ CompleteExport(x)
           \/ \E a \in Aggregates : DeferEvent(a)
           \/ \E u \in Users : EditUsers(u)
  BY <1>6, MailStays DEF AdvanceDiagnostic, CreateExport, ClaimExport, ReadExport,
       CompleteExport, DeferEvent, EditUsers, tables, workerVars, history
<1> QED BY <1>1, <1>2, <1>3, <1>4, <1>5, <1>6 DEF Application

(* Snapshots *)

Below(x, d) == {e \in Frozen(x) : Rank[e] <= Rank[d]}

\* The number of a row in the order of its export's jobs is its own.
LEMMA PositionsDiffer ==
  ASSUME NEW x \in Exports, Frozen(x) \subseteq Diags,
         NEW d \in Frozen(x), NEW e \in Frozen(x),
         Cardinality(Below(x, d)) = Cardinality(Below(x, e))
  PROVE  d = e
<1>1. ASSUME NEW b \in Frozen(x) PROVE IsFiniteSet(Below(x, b))
  <2> DEFINE f == [c \in Below(x, b) |-> Rank[c]]
  <2>1. Rank[b] \in Nat /\ Below(x, b) \subseteq Diags
    BY IdAssumption DEF Below
  <2>2. f \in [Below(x, b) -> 0..Rank[b]]
    BY <2>1, IdAssumption DEF Below
  <2>3. \A c, k \in Below(x, b) : f[c] = f[k] => c = k
    BY <2>1, IdAssumption
  <2>4. f \in Injection(Below(x, b), 0..Rank[b])
    BY <2>2, <2>3 DEF Injection, IsInjective
  <2>5. IsFiniteSet(0..Rank[b])
    BY <2>1, FS_Interval
  <2> HIDE DEF f
  <2> QED BY <2>4, <2>5, FS_Injection
<1>2. ASSUME NEW b \in Frozen(x), NEW c \in Frozen(x), Rank[b] <= Rank[c],
             Cardinality(Below(x, b)) = Cardinality(Below(x, c))
      PROVE  b = c
  <2>1. Rank \in [Diags -> Nat] /\ b \in Diags /\ c \in Diags
    BY IdAssumption
  <2>2. Below(x, b) \in SUBSET Below(x, c)
    BY <1>2, <2>1 DEF Below
  <2>3. Below(x, b) = Below(x, c)
    BY <1>1, <1>2, <2>2, FS_Subset
  <2>4. c \in Below(x, b)
    BY <2>1, <2>3 DEF Below
  <2>5. Rank[b] = Rank[c]
    BY <1>2, <2>1, <2>4 DEF Below
  <2> QED BY <2>1, <2>5, IdAssumption
<1>3. Rank[d] <= Rank[e] \/ Rank[e] <= Rank[d]
  BY IdAssumption
<1> QED BY <1>2, <1>3

LEMMA SnapshotFacts ==
  ASSUME TypeOK, NEW x \in Exports, NEW n
  PROVE  /\ \A r \in Snapshot(x, n) : /\ r.export = x /\ r.snapshot = n
                                      /\ OrgOf[r.id] = OrgOf[x]
         /\ \A r, s \in Snapshot(x, n) :
              r.id = s.id \/ r.position = s.position => r = s
<1>1. Frozen(x) \subseteq Diags
  BY DEF Frozen, Rows, TypeOK
<1>2. ASSUME NEW r \in Snapshot(x, n)
      PROVE  \E d \in Frozen(x) :
               r = [export |-> x, snapshot |-> n, id |-> d,
                    status |-> diagnostic_jobs[d],
                    position |-> Cardinality(Below(x, d))]
  BY <1>2 DEF Snapshot, Position, Below
<1>3. \A r \in Snapshot(x, n) : /\ r.export = x /\ r.snapshot = n
                                /\ OrgOf[r.id] = OrgOf[x]
  BY <1>2 DEF Frozen
<1>4. ASSUME NEW r \in Snapshot(x, n), NEW s \in Snapshot(x, n),
             r.id = s.id \/ r.position = s.position
      PROVE  r = s
  <2>1. PICK d \in Frozen(x) :
          r = [export |-> x, snapshot |-> n, id |-> d,
               status |-> diagnostic_jobs[d], position |-> Cardinality(Below(x, d))]
    BY <1>2
  <2>2. PICK e \in Frozen(x) :
          s = [export |-> x, snapshot |-> n, id |-> e,
               status |-> diagnostic_jobs[e], position |-> Cardinality(Below(x, e))]
    BY <1>2
  <2>3. d = e \/ Cardinality(Below(x, d)) = Cardinality(Below(x, e))
    BY <1>4, <2>1, <2>2
  <2>4. d = e
    BY <1>1, <2>3, PositionsDiffer
  <2> QED BY <2>1, <2>2, <2>4
<1> QED BY <1>3, <1>4

\* What a step that touches no snapshot must leave
SnapshotState == <<revision, export_jobs, snapshot_id, snapshots, drawn>>

FrozenAll == Keyed /\ FrozenInv

LEMMA FrozenStays ==
  ASSUME FrozenAll, UNCHANGED <<snapshot_id, snapshots, drawn>>,
         Rows(export_jobs)' = Rows(export_jobs),
         revision' = 7 <=> revision = 7
  PROVE  FrozenAll'
  BY DEF FrozenAll, Keyed, Alike, FrozenInv

LEMMA UpgradeFrozen == TypeOK /\ FrozenAll /\ Upgrade => FrozenAll'
<1> SUFFICES ASSUME TypeOK, FrozenAll, Upgrade PROVE FrozenAll'
  OBVIOUS
<1>1. CASE FreezeExports
  <2> DEFINE jobs == Rows(export_jobs)
  <2>1. /\ revision' = 7 /\ Rows(export_jobs)' = jobs /\ jobs \subseteq Exports
        /\ snapshot_id' = [x \in Exports |-> IF x \in jobs THEN Drawn(x) ELSE Null]
        /\ drawn' = [x \in Exports |-> IF x \in jobs THEN drawn[x] + 1 ELSE drawn[x]]
        /\ snapshots' = UNION {Snapshot(x, Drawn(x)) : x \in jobs}
        /\ drawn \in [Exports -> Nat]
    BY <1>1 DEF FreezeExports, UpTo, tables, Rows, TypeOK
  <2>2. ASSUME NEW r \in snapshots'
        PROVE  /\ r.export \in jobs /\ r \in Snapshot(r.export, Drawn(r.export))
               /\ r.snapshot = Drawn(r.export) /\ OrgOf[r.id] = OrgOf[r.export]
    <3>1. PICK x \in jobs : r \in Snapshot(x, Drawn(x))
      BY <2>1, <2>2
    <3> QED BY <2>1, <3>1, SnapshotFacts
  <2>3. Keyed'
    BY <2>1, <2>2, SnapshotFacts DEF Keyed, Alike
  <2>4. FrozenInv'
    BY <2>1, <2>2, StateFacts DEF FrozenInv, Drawn
  <2> QED BY <2>3, <2>4 DEF FrozenAll
<1>2. CASE ~FreezeExports
  <2>1. /\ UNCHANGED <<snapshot_id, snapshots, drawn, export_jobs>>
        /\ revision' # 7 /\ revision # 7
    BY <1>2 DEF Upgrade, CreateDiagnosticsAndOutbox, CreateExportsAndDeliveries,
                AddSchedule, AddDeliveryState, UpTo, tables, columns
  <2> QED BY <2>1, FrozenStays DEF Rows
<1> QED BY <1>1, <1>2

LEMMA DowngradeFrozen == TypeOK /\ FrozenAll /\ Downgrade => FrozenAll'
<1> SUFFICES ASSUME TypeOK, FrozenAll, Downgrade PROVE FrozenAll'
  OBVIOUS
<1>1. CASE DropSnapshots
  BY <1>1 DEF DropSnapshots, DownFrom, FrozenAll, Keyed, FrozenInv
<1>2. CASE ~DropSnapshots
  <2>1. UNCHANGED <<snapshot_id, snapshots, drawn>> /\ revision' # 7 /\ revision # 7
    BY <1>2 DEF Downgrade, DropDeliveryState, DropSchedule, DropExportsAndDeliveries,
                DropDiagnosticsAndOutbox, DownFrom, columns
  <2> QED BY <2>1 DEF FrozenAll, Keyed, Alike, FrozenInv
<1> QED BY <1>1, <1>2

LEMMA ApplicationFrozen == TypeOK /\ FrozenAll /\ Application => FrozenAll'
<1> SUFFICES ASSUME TypeOK, FrozenAll, Application PROVE FrozenAll'
  OBVIOUS
<1>1. ASSUME NEW x \in Exports, CreateExport(x), revision = 7 PROVE FrozenAll'
  <2>1. /\ revision' = 7 /\ x \notin Rows(export_jobs)
        /\ Rows(export_jobs)' = Rows(export_jobs) \cup {x}
        /\ drawn' = [drawn EXCEPT ![x] = @ + 1]
        /\ snapshot_id' = [snapshot_id EXCEPT ![x] = Drawn(x)]
        /\ snapshots' = snapshots \cup Snapshot(x, Drawn(x))
        /\ drawn \in [Exports -> Nat] /\ snapshot_id \in [Exports -> Nat \cup {Null}]
    BY <1>1, StateFacts DEF CreateExport, Rows, TypeOK, JobStates
  <2>2. ASSUME NEW r \in snapshots'
        PROVE  \/ r \in Snapshot(x, Drawn(x)) /\ r.export = x
               \/ r \in snapshots /\ r.export # x
    BY <2>1, <2>2, SnapshotFacts DEF FrozenAll, FrozenInv
  <2>3. Keyed'
    BY <2>2, SnapshotFacts, <2>1 DEF FrozenAll, Keyed, Alike
  <2>4. FrozenInv'
    <3>1. ASSUME NEW r \in snapshots'
          PROVE  /\ r.export \in Rows(export_jobs)'
                 /\ r.snapshot = snapshot_id'[r.export]
                 /\ OrgOf[r.id] = OrgOf[r.export]
      <4>1. CASE r \in Snapshot(x, Drawn(x)) /\ r.export = x
        BY <2>1, <4>1, SnapshotFacts
      <4>2. CASE r \in snapshots /\ r.export # x
        BY <2>1, <4>2 DEF FrozenAll, FrozenInv, Rows, TypeOK
      <4> QED BY <2>2, <4>1, <4>2
    <3>2. ASSUME NEW y \in Exports
          PROVE  /\ snapshot_id'[y] # Null => snapshot_id'[y] <= drawn'[y]
                 /\ y \in Rows(export_jobs)' => snapshot_id'[y] # Null
      BY <2>1, <1>1, StateFacts DEF FrozenAll, FrozenInv, Drawn
    <3> QED BY <2>1, <3>1, <3>2 DEF FrozenInv
  <2> QED BY <2>3, <2>4 DEF FrozenAll
<1>2. ASSUME NEW x \in Exports, CreateExport(x), revision # 7 PROVE FrozenAll'
  <2>1. UNCHANGED <<snapshot_id, snapshots, drawn, revision>>
    BY <1>2 DEF CreateExport
  <2> QED BY <1>2, <2>1 DEF FrozenAll, Keyed, FrozenInv
<1>3. ASSUME NEW x \in Exports, ClaimExport(x) \/ CompleteExport(x)
      PROVE  FrozenAll'
  <2>1. /\ UNCHANGED <<snapshot_id, snapshots, drawn, revision>>
        /\ Rows(export_jobs)' = Rows(export_jobs)
    BY <1>3, StateFacts
    DEF ClaimExport, CompleteExport, Rows, TypeOK, JobStates, columns
  <2> QED BY <2>1, FrozenStays
<1>4. CASE \/ \E d \in Diags : AdvanceDiagnostic(d)
           \/ \E x \in Exports : ReadExport(x)
           \/ \E d \in Deliveries : \/ CreateDelivery(d) \/ SettleEarly(d)
                                    \/ ClaimDelivery(d) \/ MailDelivery(d)
                                    \/ ReportDelivery(d)
           \/ \E u \in Users : EditUsers(u)
           \/ \E a \in Aggregates : DeferEvent(a)
  <2>1. UNCHANGED SnapshotState
    BY <1>4 DEF AdvanceDiagnostic, ReadExport, CreateDelivery, SettleEarly,
                ClaimDelivery, MailDelivery, ReportDelivery, EditUsers, DeferEvent,
                tables, columns, SnapshotState
  <2> QED BY <2>1, FrozenStays DEF SnapshotState, Rows
<1> QED BY <1>1, <1>2, <1>3, <1>4 DEF Application

(* What workers hold *)

\* An export keeps its snapshot, or its number is not one drawn before.
LEMMA NumbersAreFresh ==
  ASSUME TypeOK, FrozenAll, Upgrade \/ Downgrade \/ Application, NEW x \in Exports
  PROVE  /\ drawn[x] <= drawn'[x]
         /\ \/ snapshot_id'[x] \notin 0..drawn[x]
            \/ snapshot_id'[x] = snapshot_id[x] /\ Table(x)' = Table(x)
<1>0. drawn \in [Exports -> Nat] /\ Null \notin Nat
  BY StateFacts DEF TypeOK
<1>1. CASE UNCHANGED <<snapshot_id, snapshots, drawn>>
  BY <1>0, <1>1 DEF Table
<1>2. CASE FreezeExports
  BY <1>0, <1>2 DEF FreezeExports, Drawn
<1>3. CASE DropSnapshots
  BY <1>0, <1>3 DEF DropSnapshots
<1>4. ASSUME NEW y \in Exports, CreateExport(y) PROVE
         /\ drawn[x] <= drawn'[x]
         /\ \/ snapshot_id'[x] \notin 0..drawn[x]
            \/ snapshot_id'[x] = snapshot_id[x] /\ Table(x)' = Table(x)
  <2>1. CASE revision # 7
    BY <1>1, <1>4, <2>1 DEF CreateExport
  <2>2. CASE revision = 7
    <3>1. /\ drawn' = [drawn EXCEPT ![y] = @ + 1]
          /\ snapshot_id' = [snapshot_id EXCEPT ![y] = Drawn(y)]
          /\ snapshots' = snapshots \cup Snapshot(y, Drawn(y))
      BY <1>4, <2>2 DEF CreateExport
    <3>2. CASE x = y
      BY <1>0, <3>1, <3>2 DEF Drawn, TypeOK
    <3>3. CASE x # y
      <4>1. \A r \in Snapshot(y, Drawn(y)) : r.export # x
        BY <3>3, SnapshotFacts
      <4> QED BY <1>0, <3>1, <3>3, <4>1 DEF Table, TypeOK
    <3> QED BY <3>2, <3>3
  <2> QED BY <2>1, <2>2
<1>5. CASE Upgrade /\ ~FreezeExports
  <2>1. UNCHANGED <<snapshot_id, snapshots, drawn>>
    BY <1>5 DEF Upgrade, CreateDiagnosticsAndOutbox, CreateExportsAndDeliveries,
                AddSchedule, AddDeliveryState, columns
  <2> QED BY <1>1, <2>1
<1>6. CASE Downgrade /\ ~DropSnapshots
  <2>1. UNCHANGED <<snapshot_id, snapshots, drawn>>
    BY <1>6 DEF Downgrade, DropDeliveryState, DropSchedule, DropExportsAndDeliveries,
                DropDiagnosticsAndOutbox, columns
  <2> QED BY <1>1, <2>1
<1>7. CASE Application /\ ~ \E y \in Exports : CreateExport(y)
  <2>1. UNCHANGED <<snapshot_id, snapshots, drawn>>
    BY <1>7 DEF Application, AdvanceDiagnostic, ClaimExport, ReadExport, CompleteExport,
                CreateDelivery, SettleEarly, ClaimDelivery, MailDelivery,
                ReportDelivery, EditUsers, DeferEvent, columns
  <2> QED BY <1>1, <2>1
<1> QED BY <1>2, <1>3, <1>4, <1>5, <1>6, <1>7

\* Rows held under a number stay those of the snapshot.
LEMMA GenuineStays ==
  ASSUME TypeOK, TypeOK', FrozenAll, Upgrade \/ Downgrade \/ Application,
         NEW x \in Exports, NEW copy, Genuine(copy, x)
  PROVE  /\ copy.snapshot \in Nat /\ copy.snapshot <= drawn'[x]
         /\ copy.snapshot = snapshot_id'[x] => copy.rows = Table(x)'
<1>1. /\ drawn[x] <= drawn'[x]
      /\ \/ snapshot_id'[x] \notin 0..drawn[x]
         \/ snapshot_id'[x] = snapshot_id[x] /\ Table(x)' = Table(x)
  BY NumbersAreFresh
<1> QED BY <1>1 DEF Genuine, TypeOK

LEMMA NextHeld ==
  ASSUME TypeOK, TypeOK', FrozenAll, Stores, HeldInv,
         Upgrade \/ Downgrade \/ Application
  PROVE  Stores' /\ HeldInv'
<1>1. CASE UNCHANGED <<held, object>>
  <2>1. ASSUME NEW x \in Exports
        PROVE  /\ held[x] # Null => Genuine(held[x], x)'
               /\ object[x] # Null => Genuine(object[x], x)'
    BY <1>1, <2>1, GenuineStays DEF HeldInv, Genuine
  <2> QED BY <1>1, <2>1 DEF Stores, HeldInv
<1>2. ASSUME NEW x \in Exports, ReadExport(x) PROVE Stores' /\ HeldInv'
  <2>1. /\ held' = [held EXCEPT ![x] = [snapshot |-> snapshot_id[x], rows |-> Table(x)]]
        /\ UNCHANGED <<snapshot_id, snapshots, drawn, object>>
        /\ revision = 7 /\ x \in Rows(export_jobs)
    BY <1>2, StateFacts DEF ReadExport, columns, Rows, TypeOK, JobStates
  <2>2. snapshot_id[x] \in Nat /\ snapshot_id[x] <= drawn[x]
    BY <2>1 DEF FrozenAll, FrozenInv, TypeOK
  <2>3. \A y \in Exports : Table(y)' = Table(y)
    BY <2>1 DEF Table
  <2>4. held'[x] = [snapshot |-> snapshot_id[x], rows |-> Table(x)]
        /\ \A y \in Exports \ {x} : held'[y] = held[y]
    BY <2>1 DEF Stores
  <2> QED BY <2>1, <2>2, <2>3, <2>4 DEF Stores, HeldInv, Genuine
<1>3. ASSUME NEW x \in Exports, CompleteExport(x), ~UNCHANGED object
      PROVE  Stores' /\ HeldInv'
  <2>1. /\ held[x] # Null /\ object' = [object EXCEPT ![x] = held[x]]
        /\ UNCHANGED <<snapshot_id, snapshots, drawn, held>>
    BY <1>3 DEF CompleteExport, columns
  <2>2. \A y \in Exports : Table(y)' = Table(y)
    BY <2>1 DEF Table
  <2>3. object'[x] = held[x] /\ \A y \in Exports \ {x} : object'[y] = object[y]
    BY <2>1 DEF Stores
  <2> QED BY <2>1, <2>2, <2>3 DEF Stores, HeldInv, Genuine
<1>4. CASE Upgrade \/ Downgrade
  <2>1. UNCHANGED <<held, object>>
    BY <1>4
    DEF Upgrade, CreateDiagnosticsAndOutbox, CreateExportsAndDeliveries, AddSchedule,
        AddDeliveryState, FreezeExports, Downgrade, DropSnapshots, DropDeliveryState,
        DropSchedule, DropExportsAndDeliveries, DropDiagnosticsAndOutbox, workerVars
  <2> QED BY <1>1, <2>1
<1>5. CASE \/ \E d \in Diags : AdvanceDiagnostic(d)
           \/ \E x \in Exports : CreateExport(x) \/ ClaimExport(x)
           \/ \E d \in Deliveries : \/ CreateDelivery(d) \/ SettleEarly(d)
                                    \/ ClaimDelivery(d) \/ MailDelivery(d)
                                    \/ ReportDelivery(d)
           \/ \E u \in Users : EditUsers(u)
           \/ \E a \in Aggregates : DeferEvent(a)
  <2>1. UNCHANGED <<held, object>>
    BY <1>5 DEF AdvanceDiagnostic, CreateExport, ClaimExport, CreateDelivery,
                SettleEarly, ClaimDelivery, MailDelivery, ReportDelivery, EditUsers,
                DeferEvent, workerVars
  <2> QED BY <1>1, <2>1
<1>6. ASSUME NEW x \in Exports, CompleteExport(x), UNCHANGED object
      PROVE  Stores' /\ HeldInv'
  BY <1>1, <1>6 DEF CompleteExport
<1> QED BY <1>2, <1>3, <1>4, <1>5, <1>6 DEF Application

LEMMA NextIInv == IInv /\ [Next]_vars => IInv'
<1> SUFFICES ASSUME IInv, [Next]_vars PROVE IInv'
  OBVIOUS
<1>1. CASE UNCHANGED vars
  <2>1. /\ UNCHANGED <<revision, diagnostic_jobs, export_jobs, email_deliveries,
                       outbox_events, users, fields>>
        /\ UNCHANGED <<snapshot_id, snapshots, drawn, held, object, leave, mailed,
                       rewound>>
    BY <1>1 DEF vars, tables, columns, workerVars, history
  <2>2. TypeOK' /\ Eventful' /\ FieldsInv' /\ MailInv'
    BY <2>1, EventfulStays, MailStays DEF IInv, TypeOK, FieldsInv, Joined, tables
  <2>3. Keyed' /\ FrozenInv' /\ Stores' /\ HeldInv'
    BY <2>1 DEF IInv, Keyed, Alike, FrozenInv, Rows, Stores, HeldInv, Genuine, Table
  <2> QED BY <2>2, <2>3 DEF IInv
<1>2. CASE Upgrade \/ Downgrade \/ Application
  <2>1. TypeOK'
    BY <1>2, UpgradeTypes, DowngradeTypes, ApplicationTypes DEF IInv
  <2>2. Eventful'
    BY <1>2, UpgradeEventful, DowngradeEventful, ApplicationEventful DEF IInv
  <2>3. FieldsInv'
    BY <1>2, UpgradeFields, DowngradeFields, ApplicationFields DEF IInv
  <2>4. MailInv'
    BY <1>2, UpgradeMail, DowngradeMail, ApplicationMail DEF IInv
  <2>5. FrozenAll'
    BY <1>2, UpgradeFrozen, DowngradeFrozen, ApplicationFrozen DEF IInv, FrozenAll
  <2>6. Stores' /\ HeldInv'
    BY <1>2, <2>1, NextHeld DEF IInv, FrozenAll
  <2> QED BY <2>1, <2>2, <2>3, <2>4, <2>5, <2>6 DEF IInv, FrozenAll
<1> QED BY <1>1, <1>2 DEF Next, Application

(* The invariant holds of every reachable state. *)
THEOREM Invariant == Spec => []IInv
  BY InitIInv, NextIInv, PTL DEF Spec

(* No revision, up or down, ever meets a row that its constraints refuse.  *)
THEOREM SchemaAlwaysHolds == Spec => []SchemaHolds
<1>1. IInv => SchemaHolds
  <2> SUFFICES ASSUME IInv PROVE SchemaHolds
    OBVIOUS
  <2>1. ASSUME NEW d \in Rows(email_deliveries)
        PROVE  IF revision >= 6 THEN DeliveryState(email_deliveries[d], fields[d])
                                ELSE email_deliveries[d] # "sending"
    BY <2>1 DEF IInv, FieldsInv, Rows, TypeOK, Absent
  <2>2. ASSUME revision = 7
        PROVE  /\ \A x \in Rows(export_jobs) : snapshot_id[x] # Null
               /\ \A r, s \in snapshots :
                    /\ r.export = s.export /\ r.snapshot = s.snapshot
                    /\ r.id = s.id \/ r.position = s.position
                    => r = s
    <3>1. Rows(export_jobs) \subseteq Exports
      BY DEF IInv, TypeOK, Rows
    <3> QED BY <2>2, <3>1 DEF IInv, FrozenInv, Keyed, Alike
  <2>3. ASSUME revision < 5 PROVE "deferred" \notin {outbox_events[a] : a \in Aggregates}
    BY <2>3 DEF IInv, Eventful
  <2> QED BY <2>1, <2>2, <2>3 DEF SchemaHolds
<1> QED BY <1>1, Invariant, PTL

(* No course of migrations leaves a row that nobody hears of. *)
THEOREM AlwaysAnnounced == Spec => []RowsAreAnnounced
<1>1. IInv => RowsAreAnnounced
  BY DEF IInv, Eventful, Announced, RowsAreAnnounced, Absent
<1> QED BY <1>1, Invariant, PTL

(* Only a downgrade that finds a delivery sending can make it mailed again. *)
THEOREM MailsByRewind == Spec => []SecondMailByRewindOnly
<1>1. IInv => SecondMailByRewindOnly
  BY DEF IInv, MailInv, Credit, SecondMailByRewindOnly, TypeOK
<1> QED BY <1>1, Invariant, PTL

(* An object is its snapshot, whichever migrations came between its reading *)
(* and its completion.                                                      *)
THEOREM ObjectsAreSnapshots == Spec => []ObjectIsItsSnapshot
<1>1. IInv => ObjectIsItsSnapshot
  <2> SUFFICES ASSUME IInv, NEW x \in Exports, object[x] # Null,
                      object[x].snapshot = snapshot_id[x]
               PROVE  /\ object[x].rows = Table(x)
                      /\ \A row \in object[x].rows : OrgOf[row.id] = OrgOf[x]
    BY DEF ObjectIsItsSnapshot
  <2>1. object[x].rows = Table(x)
    BY DEF IInv, HeldInv, Genuine
  <2> QED BY <2>1 DEF IInv, FrozenInv, Table
<1> QED BY <1>1, Invariant, PTL
=============================================================================
