------------------------------ MODULE Migrations ------------------------------
(***************************************************************************)
(* The Alembic revisions 0003 to 0007 against the rows they find, upwards  *)
(* and downwards, while the application works between them and workers     *)
(* remember what they were told before.                                    *)
(*                                                                         *)
(* A run of several revisions is one transaction (env.py); here each       *)
(* revision is one, so a run is the case that nothing comes between.  The  *)
(* constraints a revision declares are left out of its action: that        *)
(* SchemaHolds is invariant shows that none of them ever stops a           *)
(* migration.  Statements of the application are modelled elsewhere; here  *)
(* a transaction of it is one step, and DDL waits for it.                  *)
(*                                                                         *)
(* Outside src/: the workers, the writers of users, and the releases that  *)
(* ran at revisions 3 to 6.  Of these it is assumed that diagnostics and   *)
(* exports advance as today, and that one that still had two states for a  *)
(* settled delivery mailed a pending one as it set it to sent, kept a time *)
(* of the attempt or none, and let a settled delivery be.                  *)
(***************************************************************************)
EXTENDS Integers, FiniteSets

CONSTANTS Deliveries, Exports, Diags,
          OrgOf,          \* organization of an export or a diagnostic
          Rank,           \* the order of (created_at, id) of diagnostics
          Users,
          Recipient,      \* the user a delivery refers to
          MaxDowngrades,  \* bound
          MaxSnapshots,   \* bound: gen_random_uuid() per export
          MaxDeferred,    \* bound: events deferred at a time
          Null, Gone

ASSUME IdAssumption ==
  /\ Exports \cap Diags = {} /\ Deliveries \cap (Exports \cup Diags) = {}
  /\ Rank \in [Diags -> Nat]
  /\ \A d, e \in Diags : Rank[d] = Rank[e] => d = e
  /\ Recipient \in [Deliveries -> Users]
ASSUME NullAssumption ==
  /\ Null # Gone /\ Null \notin Nat
  /\ {Null, Gone} \cap {"pending", "claimed", "completed", "sending", "sent",
                        "failed", "waiting", "deferred", "address", "time"} = {}
ASSUME BoundAssumption == {MaxDowngrades, MaxSnapshots, MaxDeferred} \subseteq Nat

VARIABLES
  revision,
  diagnostic_jobs,    \* status of a row; Null before it is inserted, Gone
  export_jobs,        \* with its table
  email_deliveries,
  outbox_events,      \* per aggregate
  users,              \* the rows of users
  fields,             \* what a delivery records of its mail; a column that
                      \* does not exist is Null
  snapshot_id,        \* Null, or how often one was drawn for the export
  snapshots,          \* rows of export_diagnostic_snapshots
  drawn,
  held,               \* what an export's worker has read
  object,             \* what it stored, and under which snapshot
  leave, mailed,      \* claims answered and mails sent, per delivery
  rewound,            \* how often a downgrade found the delivery sending
  downgrades

tables == <<diagnostic_jobs, export_jobs, email_deliveries, outbox_events>>
columns == <<users, fields, snapshot_id, snapshots, drawn>>
workerVars == <<held, object, leave, mailed>>
history == <<rewound, downgrades>>
vars == <<revision, tables, columns, workerVars, history>>

Aggregates == Deliveries \cup Exports \cup Diags
JobStates  == {"pending", "claimed", "completed"}
MailStates == {"pending", "sending", "sent", "failed"}
Fields     == [recipient_email_snapshot : {"address", Null},
               attempted_at : {"time", Null}, sent_at : {"time", Null}]
NoFields   == [recipient_email_snapshot |-> Null, attempted_at |-> Null,
               sent_at |-> Null]
Rows(table) == {r \in DOMAIN table : table[r] \notin {Null, Gone}}

Init == /\ revision = 2
        /\ diagnostic_jobs = [d \in Diags |-> Null]
        /\ export_jobs = [x \in Exports |-> Null]
        /\ email_deliveries = [d \in Deliveries |-> Null]
        /\ outbox_events = [a \in Aggregates |-> Null]
        /\ users = {}
        /\ fields = [d \in Deliveries |-> NoFields]
        /\ snapshot_id = [x \in Exports |-> Null]
        /\ snapshots = {}
        /\ drawn = [x \in Exports |-> 0]
        /\ held = [x \in Exports |-> Null]
        /\ object = [x \in Exports |-> Null]
        /\ leave = [d \in Deliveries |-> 0]
        /\ mailed = [d \in Deliveries |-> 0]
        /\ rewound = [d \in Deliveries |-> 0]
        /\ downgrades = 0

------------------------------------------------------------------------------
(* Upgrades *)

UpTo(r) == revision = r - 1 /\ revision' = r

\* New tables are empty, and so are new columns of outbox_events.
CreateDiagnosticsAndOutbox ==
  UpTo(3) /\ UNCHANGED <<tables, columns, workerVars, history>>
CreateExportsAndDeliveries ==
  UpTo(4) /\ UNCHANGED <<tables, columns, workerVars, history>>
AddSchedule ==
  UpTo(5) /\ UNCHANGED <<tables, columns, workerVars, history>>

\* Mutant: no default for what was NULL
CoalesceFirst(value, default) == value
Coalesce(value, default) == IF value # Null THEN value ELSE default

\* The row users.id = delivery.recipient_user_id is there.
Joined(d) == Recipient[d] \in users

\* The three UPDATEs of 0006: of the rows of one status each
ClearPending(old) ==
  [d \in Deliveries |-> IF email_deliveries[d] = "pending" THEN NoFields ELSE old[d]]
FillSent(old) ==
  [d \in Deliveries |->
     IF email_deliveries[d] = "sent" /\ Joined(d)
     THEN [recipient_email_snapshot |-> "address",
           attempted_at |-> Coalesce(old[d].attempted_at, "time"),
           sent_at      |-> Coalesce(old[d].attempted_at, "time")]
     ELSE old[d]]
FillFailed(old) ==
  [d \in Deliveries |->
     IF email_deliveries[d] = "failed" /\ Joined(d)
     THEN [recipient_email_snapshot |-> "address",
           attempted_at |-> Coalesce(old[d].attempted_at, "time"),
           sent_at      |-> Null]
     ELSE old[d]]

AddDeliveryState ==
  /\ UpTo(6)
  /\ fields' = FillFailed(FillSent(ClearPending(fields)))
  /\ UNCHANGED <<tables, users, snapshot_id, snapshots, drawn, workerVars, history>>

\* What INSERT ... SELECT finds for an export
Frozen(x) == {d \in Rows(diagnostic_jobs) : OrgOf[d] = OrgOf[x]}

\* row_number() over (created_at, id)
Position(x, d) == Cardinality({e \in Frozen(x) : Rank[e] <= Rank[d]})

Snapshot(x, number) ==
  {[export |-> x, snapshot |-> number, id |-> d, status |-> diagnostic_jobs[d],
    position |-> Position(x, d)] : d \in Frozen(x)}

\* Mutant: an export is its own snapshot, and always the same one.
DrawnFixed(x) == 1

\* gen_random_uuid(), uuid4()
Drawn(x) == drawn[x] + 1

FreezeExports ==
  LET jobs == Rows(export_jobs) IN
  /\ UpTo(7)
  /\ \A x \in jobs : drawn[x] < MaxSnapshots
  /\ snapshot_id' = [x \in Exports |-> IF x \in jobs THEN Drawn(x) ELSE Null]
  /\ drawn' = [x \in Exports |-> IF x \in jobs THEN drawn[x] + 1 ELSE drawn[x]]
  /\ snapshots' = UNION {Snapshot(x, Drawn(x)) : x \in jobs}
  /\ UNCHANGED <<tables, users, fields, workerVars, history>>

------------------------------------------------------------------------------
(* Downgrades *)

DownFrom(r) == /\ revision = r /\ revision' = r - 1
               /\ downgrades < MaxDowngrades /\ downgrades' = downgrades + 1

DropSnapshots == /\ DownFrom(7)
                 /\ snapshots' = {}
                 /\ snapshot_id' = [x \in Exports |-> Null]
                 /\ UNCHANGED <<tables, users, fields, drawn, workerVars, rewound>>

\* Mutant: the UPDATE has no WHERE.
RewoundAll == Rows(email_deliveries)

Rewound == {d \in Deliveries : email_deliveries[d] = "sending"}

\* 0006: sending becomes pending, without its attempt; then the columns go.
DropDeliveryState ==
  /\ DownFrom(6)
  /\ email_deliveries' = [d \in Deliveries |-> IF d \in Rewound THEN "pending"
                                               ELSE email_deliveries[d]]
  /\ fields' = [d \in Deliveries |->
                  [NoFields EXCEPT !.attempted_at =
                     IF d \in Rewound THEN Null ELSE fields[d].attempted_at]]
  /\ rewound' = [d \in Deliveries |-> IF email_deliveries[d] = "sending"
                                      THEN rewound[d] + 1 ELSE rewound[d]]
  /\ UNCHANGED <<diagnostic_jobs, export_jobs, outbox_events, users, snapshot_id,
                 snapshots, drawn, workerVars>>

\* Mutant: the outbox table is made anew.
WithoutScheduleRecreated == [a \in Aggregates |-> Null]

WithoutSchedule == [a \in Aggregates |-> IF outbox_events[a] = "deferred"
                                         THEN "waiting" ELSE outbox_events[a]]

\* 0005: attempts and deferrals are forgotten.
DropSchedule == /\ DownFrom(5)
                /\ outbox_events' = WithoutSchedule
                /\ UNCHANGED <<diagnostic_jobs, export_jobs, email_deliveries,
                               columns, workerVars, rewound>>

Dropped(table) == [r \in DOMAIN table |-> IF r \in Rows(table) THEN Gone
                                                              ELSE table[r]]

\* 0004 leaves the events of what it drops.
DropExportsAndDeliveries ==
  /\ DownFrom(4)
  /\ export_jobs' = Dropped(export_jobs)
  /\ email_deliveries' = Dropped(email_deliveries)
  /\ fields' = [d \in Deliveries |-> NoFields]
  /\ UNCHANGED <<diagnostic_jobs, outbox_events, users, snapshot_id, snapshots,
                 drawn, workerVars, rewound>>

DropDiagnosticsAndOutbox ==
  /\ DownFrom(3)
  /\ diagnostic_jobs' = Dropped(diagnostic_jobs)
  /\ outbox_events' = Dropped(outbox_events)
  /\ UNCHANGED <<export_jobs, email_deliveries, columns, workerVars, rewound>>

------------------------------------------------------------------------------
(* The application of the revision *)

Announce(a) == outbox_events' = [outbox_events EXCEPT ![a] = "waiting"]

AdvanceDiagnostic(d) ==
  /\ revision >= 3
  /\ \/ diagnostic_jobs[d] = Null /\ Announce(d)
        /\ diagnostic_jobs' = [diagnostic_jobs EXCEPT ![d] = "pending"]
     \/ diagnostic_jobs[d] = "pending" /\ UNCHANGED outbox_events
        /\ diagnostic_jobs' = [diagnostic_jobs EXCEPT ![d] = "claimed"]
     \/ diagnostic_jobs[d] = "claimed" /\ UNCHANGED outbox_events
        /\ diagnostic_jobs' = [diagnostic_jobs EXCEPT ![d] = "completed"]
  /\ UNCHANGED <<revision, export_jobs, email_deliveries, columns, workerVars,
                 history>>

\* Up to 0006 an export has no snapshot; what the old release stored for it
\* is not compared with one.
CreateExport(x) ==
  /\ revision >= 4 /\ export_jobs[x] = Null
  /\ export_jobs' = [export_jobs EXCEPT ![x] = "pending"]
  /\ Announce(x)
  /\ IF revision = 7
     THEN /\ drawn[x] < MaxSnapshots
          /\ drawn' = [drawn EXCEPT ![x] = @ + 1]
          /\ snapshot_id' = [snapshot_id EXCEPT ![x] = Drawn(x)]
          /\ snapshots' = snapshots \cup Snapshot(x, Drawn(x))
     ELSE UNCHANGED <<drawn, snapshot_id, snapshots>>
  /\ UNCHANGED <<revision, diagnostic_jobs, email_deliveries, users, fields,
                 workerVars, history>>

ClaimExport(x) ==
  /\ revision >= 4 /\ export_jobs[x] = "pending"
  /\ export_jobs' = [export_jobs EXCEPT ![x] = "claimed"]
  /\ UNCHANGED <<revision, diagnostic_jobs, email_deliveries, outbox_events,
                 columns, workerVars, history>>

Table(x) == {row \in snapshots : /\ row.export = x
                                 /\ row.snapshot = snapshot_id[x]}

\* The worker recovers the snapshot_id and reads all pages.
ReadExport(x) ==
  /\ revision = 7 /\ export_jobs[x] = "claimed"
  /\ held' = [held EXCEPT ![x] = [snapshot |-> snapshot_id[x], rows |-> Table(x)]]
  /\ UNCHANGED <<revision, tables, columns, object, leave, mailed, history>>

CompleteExport(x) ==
  /\ revision >= 4 /\ export_jobs[x] = "claimed"
  /\ \/ revision < 7 /\ UNCHANGED object
     \/ /\ revision = 7 /\ held[x] # Null /\ held[x].snapshot = snapshot_id[x]
        /\ object' = [object EXCEPT ![x] = held[x]]
  /\ export_jobs' = [export_jobs EXCEPT ![x] = "completed"]
  /\ UNCHANGED <<revision, diagnostic_jobs, email_deliveries, outbox_events,
                 columns, held, leave, mailed, history>>

\* The foreign key of the recipient: the user is there, and stays.
Referenced(u) == \E d \in Rows(email_deliveries) : Recipient[d] = u

EditUsers(u) ==
  /\ \/ u \notin users /\ users' = users \cup {u}
     \/ u \in users /\ ~Referenced(u) /\ users' = users \ {u}
  /\ UNCHANGED <<revision, tables, fields, snapshot_id, snapshots, drawn,
                 workerVars, history>>

CreateDelivery(d) ==
  /\ revision >= 4 /\ email_deliveries[d] = Null /\ Joined(d)
  /\ email_deliveries' = [email_deliveries EXCEPT ![d] = "pending"]
  /\ Announce(d)
  /\ UNCHANGED <<revision, diagnostic_jobs, export_jobs, columns, workerVars,
                 history>>

\* What a release before 0006 did with a pending delivery, be it new or one
\* that a downgrade left.
SettleEarly(d) ==
  /\ revision \in 4..5 /\ email_deliveries[d] = "pending"
  /\ \E status \in {"pending", "sent", "failed"}, attempt \in {"time", Null} :
       /\ email_deliveries' = [email_deliveries EXCEPT ![d] = status]
       /\ fields' = [fields EXCEPT ![d].attempted_at = attempt]
       /\ mailed' = [mailed EXCEPT ![d] = IF status = "sent" THEN @ + 1 ELSE @]
  /\ UNCHANGED <<revision, diagnostic_jobs, export_jobs, outbox_events, users,
                 snapshot_id, snapshots, drawn, held, object, leave, history>>

ClaimDelivery(d) ==
  /\ revision >= 6 /\ email_deliveries[d] = "pending"
  /\ email_deliveries' = [email_deliveries EXCEPT ![d] = "sending"]
  /\ fields' = [fields EXCEPT ![d].recipient_email_snapshot = "address",
                              ![d].attempted_at = "time"]
  /\ leave' = [leave EXCEPT ![d] = @ + 1]
  /\ UNCHANGED <<revision, diagnostic_jobs, export_jobs, outbox_events, users,
                 snapshot_id, snapshots, drawn, held, object, mailed, history>>

\* At any time after the claim, whatever the schema has become.
MailDelivery(d) == /\ leave[d] > 0
                   /\ leave' = [leave EXCEPT ![d] = @ - 1]
                   /\ mailed' = [mailed EXCEPT ![d] = @ + 1]
                   /\ UNCHANGED <<revision, tables, columns, held, object,
                                  history>>

ReportDelivery(d) ==
  /\ revision >= 6 /\ email_deliveries[d] = "sending"
  /\ \/ /\ email_deliveries' = [email_deliveries EXCEPT ![d] = "sent"]
        /\ fields' = [fields EXCEPT ![d].sent_at = "time"]
     \/ /\ email_deliveries' = [email_deliveries EXCEPT ![d] = "failed"]
        /\ fields' = [fields EXCEPT ![d].sent_at = Null]
  /\ UNCHANGED <<revision, diagnostic_jobs, export_jobs, outbox_events, users,
                 snapshot_id, snapshots, drawn, workerVars, history>>

\* A publisher defers a row; published_at, which no revision touches, is left
\* out.
DeferEvent(a) ==
  /\ revision >= 5 /\ outbox_events[a] = "waiting"
  /\ Cardinality({b \in Aggregates : outbox_events[b] = "deferred"}) < MaxDeferred
  /\ outbox_events' = [outbox_events EXCEPT ![a] = "deferred"]
  /\ UNCHANGED <<revision, diagnostic_jobs, export_jobs, email_deliveries,
                 columns, workerVars, history>>

------------------------------------------------------------------------------
Upgrade   == \/ CreateDiagnosticsAndOutbox \/ CreateExportsAndDeliveries
             \/ AddSchedule \/ AddDeliveryState \/ FreezeExports
Downgrade == \/ DropSnapshots \/ DropDeliveryState \/ DropSchedule
             \/ DropExportsAndDeliveries \/ DropDiagnosticsAndOutbox

Next == \/ Upgrade \/ Downgrade
        \/ \E d \in Diags : AdvanceDiagnostic(d)
        \/ \E x \in Exports : \/ CreateExport(x) \/ ClaimExport(x)
                              \/ ReadExport(x) \/ CompleteExport(x)
        \/ \E d \in Deliveries : \/ CreateDelivery(d) \/ SettleEarly(d)
                                 \/ ClaimDelivery(d) \/ MailDelivery(d)
                                 \/ ReportDelivery(d)
        \/ \E u \in Users : EditUsers(u)
        \/ \E a \in Aggregates : DeferEvent(a)

Spec == Init /\ [][Next]_vars

------------------------------------------------------------------------------
(* Properties *)

\* The CHECK of 0006
DeliveryState(status, f) ==
  \/ status = "pending" /\ f.recipient_email_snapshot = Null
                        /\ f.attempted_at = Null /\ f.sent_at = Null
  \/ status = "sending" /\ f.recipient_email_snapshot # Null
                        /\ f.attempted_at # Null /\ f.sent_at = Null
  \/ status = "sent"    /\ f.recipient_email_snapshot # Null
                        /\ f.attempted_at # Null /\ f.sent_at # Null
  \/ status = "failed"  /\ f.recipient_email_snapshot # Null
                        /\ f.attempted_at # Null /\ f.sent_at = Null

\* The constraints of every revision hold whatever rows it finds, so neither
\* an upgrade nor a downgrade is ever refused by the database: what the
\* UPDATEs of 0006 leave passes its CHECK, what its downgrade leaves passes the
\* one before, and the snapshots of 0007 have their keys.
SchemaHolds ==
  /\ \A d \in Rows(email_deliveries) :
       IF revision >= 6 THEN DeliveryState(email_deliveries[d], fields[d])
                        ELSE email_deliveries[d] # "sending"
  /\ revision = 7 => /\ \A x \in Rows(export_jobs) : snapshot_id[x] # Null
                     /\ \A r, s \in snapshots :
                          /\ r.export = s.export /\ r.snapshot = s.snapshot
                          /\ r.id = s.id \/ r.position = s.position
                          => r = s
  /\ revision < 5 => "deferred" \notin {outbox_events[a] : a \in Aggregates}

\* No migration leaves a job or a delivery without its event: nobody would
\* ever hear of it.
RowsAreAnnounced ==
  \A a \in Rows(diagnostic_jobs) \cup Rows(export_jobs) \cup Rows(email_deliveries) :
    outbox_events[a] \notin {Null, Gone}

\* A delivery is mailed again only as often as a downgrade found it sending:
\* other states come through every migration, also through a release before
\* 0006 that mails what it finds pending.
SecondMailByRewindOnly ==
  \A d \in Deliveries : mailed[d] + leave[d] <= 1 + rewound[d]

\* A worker that read an export before a downgrade cannot complete it after
\* the next upgrade: an object is what its export's snapshot holds, and that
\* is work of its own organization.
ObjectIsItsSnapshot ==
  \A x \in Exports :
    object[x] # Null /\ export_jobs[x] # Gone
      /\ object[x].snapshot = snapshot_id[x]
    => /\ object[x].rows = Table(x)
       /\ \A row \in object[x].rows : OrgOf[row.id] = OrgOf[x]
=============================================================================
