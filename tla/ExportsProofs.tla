----------------------------- MODULE ExportsProofs -----------------------------
(***************************************************************************)
(* Proofs about Exports, for any number of calls, users, organizations,    *)
(* jobs and diagnostics and any size of a page, whatever the workers call. *)
(*                                                                         *)
(* Locks and checks are those of Diagnostics, and so is that part of the   *)
(* argument.  To it comes the way of the data.  The snapshot drafted by a  *)
(* creation holds the diagnostics of its organization, among them those    *)
(* that were there when the call came; a job's snapshot does not change    *)
(* after the commit that makes it; and what a worker has read is a prefix  *)
(* of the snapshot of the one job it works on, all of it once a page was   *)
(* short.                                                                  *)
(***************************************************************************)
EXTENDS Exports, TenantCallsProofs, FiniteSetTheorems, SequenceTheorems

------------------------------------------------------------------------------
Artifact == Artifacts \cup {NoArtifact}

TypeOK ==
  /\ CallTypeOK(Labels, Ops)
  /\ status \in [Jobs -> States]
  /\ scope \in [Jobs -> Scopes \cup {NoScope}]
  /\ snapshot \in [Jobs -> Seq(Items)]
  /\ artifact \in [Jobs -> Artifact]
  /\ events \in [Types -> [Jobs -> 0..1]]
  /\ mails \in [Jobs -> 0..1]
  /\ dstate \in [Diags -> States]
  /\ dresult \in [Diags -> DiagResults \cup {NoResult}]
  /\ draft \in [Calls -> Seq(Items)]
  /\ earlier \in [Calls -> SUBSET Diags]
  /\ named \in [Calls -> Names]
  /\ read \in [Calls -> Seq(Items)]
  /\ more \in [Calls -> BOOLEAN]
  /\ seen \in [Calls -> States]

(* The inductive invariant: of each call ... *)

\* A call under way has a job, a statement of its operation, and its input.
Placed(c) ==
  /\ pc[c] # "idle" => target[c] \in Jobs /\ answer[c] = "none"
  /\ pc[c] \in Ops => op[c] = pc[c]
  /\ pc[c] \in {"user", "membership"} => op[c] \in {"create", "get"}
  /\ pc[c] = "recipient" => op[c] = "complete"
  /\ pc[c] = "commit" => op[c] \in {"create", "claim", "complete"}
  /\ c \in Clients => op[c] \in {"create", "get"}
  /\ pc[c] # "idle" /\ op[c] \in {"create", "get"} =>
       c \in Clients /\ asserted[c] \in Scopes
  /\ answer[c] = "ok" => target[c] \in Jobs

\* Between its lock and its commit a claim or a completion holds the job.
Holds(c) == pc[c] \in {"recipient", "commit"} /\ op[c] # "create"
            => jobLock[target[c]] = c

\* What a call is about to change is as it read it.
Knows(c) ==
  /\ pc[c] \notin {"idle", "respond"} /\ op[c] = "create"
       => status[target[c]] = "absent"
  /\ pc[c] = "commit" /\ op[c] = "claim" => status[target[c]] = "pending"
  /\ pc[c] \in {"recipient", "commit"} /\ op[c] = "complete"
       => status[target[c]] = "claimed" /\ named[c][2] = target[c]

\* A completion at its commit holds its requester, who has access.
Vouched(c) == pc[c] = "commit" /\ op[c] = "complete" =>
  c \in share[scope[target[c]]] /\ Authorized(scope[target[c]])

Ids(rows) == {rows[i].id : i \in DOMAIN rows}

\* What a client was told, or is about to be, is so.
Told(c) == pc[c] = "respond" \/ answer[c] = "ok" =>
  /\ op[c] = "create" => /\ status[target[c]] # "absent"
                         /\ scope[target[c]] = asserted[c]
                         /\ earlier[c] \subseteq Ids(snapshot[target[c]])
  /\ op[c] = "get" => /\ status[target[c]] # "absent"
                      /\ scope[target[c]][2] = asserted[c][2]

\* Rows each once, the older first
Ordered(rows) ==
  \A i, k \in DOMAIN rows : i < k => Rank[rows[i].id] < Rank[rows[k].id]

\* Rows that an organization's snapshot may hold
Sound(rows, o) ==
  /\ Len(rows) <= Cardinality(Diags)
  /\ \A i \in DOMAIN rows :
       /\ OrgOf[rows[i].id] = o
       /\ rows[i].state = "completed" <=> rows[i].result # NoResult
  /\ Ordered(rows)

\* What was there when a creation came is there, and then in its draft.
Drafting(c) == op[c] = "create" =>
  /\ pc[c] \notin {"idle", "respond"} => earlier[c] \subseteq History(asserted[c][2])
  /\ pc[c] = "commit" => /\ Sound(draft[c], asserted[c][2])
                         /\ earlier[c] \subseteq Ids(draft[c])

Prefix(s, t) == Len(s) <= Len(t) /\ \A i \in 1..Len(s) : s[i] = t[i]

\* How far a worker has read
Reading(c) ==
  /\ c \in Clients \/ target[c] = NoJob => read[c] = <<>> /\ more[c]
  /\ target[c] \in Jobs => Prefix(read[c], snapshot[target[c]])
  /\ ~more[c] => /\ status[target[c]] # "absent"
                 /\ Len(read[c]) = Len(snapshot[target[c]])
  /\ pc[c] = "respond" /\ op[c] = "page" =>
       /\ status[target[c]] # "absent"
       /\ draft[c] = Page(snapshot[target[c]], Len(read[c]))

CallInv(c) == /\ Placed(c) /\ Holds(c) /\ Knows(c) /\ Vouched(c) /\ Told(c)
              /\ Drafting(c) /\ Reading(c)

(* ... of two calls, and of the rows of a job and of a diagnostic *)

Creating(c) == pc[c] # "idle" /\ op[c] = "create"
Alone == \A b, c \in Calls : Creating(b) /\ Creating(c) /\ target[b] = target[c]
                             => b = c

\* A job's rows are there from the commit that writes them.
RowInv(j) ==
  /\ status[j] = "absent" => snapshot[j] = <<>>
  /\ status[j] # "absent" => scope[j] \in Scopes /\ Sound(snapshot[j], scope[j][2])
  /\ events["requested"][j] = IF status[j] = "absent" THEN 0 ELSE 1
  /\ \A t \in {"completed", "email"} :
       events[t][j] = IF status[j] = "completed" THEN 1 ELSE 0
  /\ mails[j] = IF status[j] = "completed" THEN 1 ELSE 0

Finished == \A d \in Diags : dstate[d] = "completed" <=> dresult[d] # NoResult

IInv == /\ TypeOK /\ Alone /\ Finished
        /\ \A c \in Calls : CallInv(c)
        /\ \A j \in Jobs : RowInv(j)

\* Of workers that follow the protocol: who completes has read all, and so
\* have those who did.
Thorough == /\ \A c \in Calls : pc[c] # "idle" /\ op[c] = "complete" => ~more[c]
            /\ ExportIsSnapshot
            /\ \A j \in Jobs : artifact[j] # NoArtifact => status[j] # "absent"

------------------------------------------------------------------------------
(* Snapshots and pages *)

Below(o, d) == {e \in Frozen(o) : Rank[e] <= Rank[d]}

\* No two rows of an organization have one number.
LEMMA PositionsDiffer ==
  ASSUME NEW o, NEW d \in Frozen(o), NEW e \in Frozen(o),
         Position(o, d) = Position(o, e)
  PROVE  d = e
<1>1. Frozen(o) \in SUBSET Diags /\ IsFiniteSet(Frozen(o))
  BY DiagAssumption, FS_Subset DEF Frozen, History
<1>2. ASSUME NEW b \in Frozen(o), NEW c \in Frozen(o), Rank[b] <= Rank[c],
             Position(o, b) = Position(o, c)
      PROVE  b = c
  <2>1. Rank \in [Diags -> Nat] /\ b \in Diags /\ c \in Diags
    BY <1>1, RankAssumption
  <2>2. /\ Below(o, b) \in SUBSET Below(o, c) /\ Below(o, c) \in SUBSET Frozen(o)
        /\ Cardinality(Below(o, b)) = Cardinality(Below(o, c))
    BY <1>1, <1>2, <2>1 DEF Below, Position
  <2>3. Below(o, b) = Below(o, c)
    BY <1>1, <2>2, FS_Subset
  <2>4. Rank[c] <= Rank[b]
    BY <2>1, <2>3 DEF Below
  <2>5. Rank[b] = Rank[c]
    BY <1>2, <2>1, <2>4
  <2> QED BY <2>1, <2>5, RankAssumption
<1>3. Rank[d] <= Rank[e] \/ Rank[e] <= Rank[d]
  BY <1>1, RankAssumption
<1> QED BY <1>2, <1>3

\* The rows are numbered in the order they were created in.
LEMMA PositionsFollow ==
  ASSUME NEW o, NEW d \in Frozen(o), NEW e \in Frozen(o),
         Position(o, d) < Position(o, e)
  PROVE  Rank[d] < Rank[e]
<1>1. Frozen(o) \in SUBSET Diags /\ IsFiniteSet(Frozen(o))
  BY DiagAssumption, FS_Subset DEF Frozen, History
<1>2. Rank \in [Diags -> Nat] /\ d \in Diags /\ e \in Diags
  BY <1>1, RankAssumption
<1> SUFFICES ASSUME Rank[e] <= Rank[d] PROVE FALSE
  BY <1>2
<1>3. Below(o, e) \in SUBSET Below(o, d) /\ Below(o, d) \in SUBSET Frozen(o)
  BY <1>1, <1>2 DEF Below
<1>4. IsFiniteSet(Below(o, d))
  BY <1>1, <1>3, FS_Subset
<1>5. /\ Cardinality(Below(o, e)) <= Cardinality(Below(o, d))
      /\ Cardinality(Below(o, d)) \in Nat /\ Cardinality(Below(o, e)) \in Nat
  BY <1>3, <1>4, FS_Subset, FS_CardinalityType
<1> QED BY <1>5 DEF Position, Below

\* The rows of an organization are numbered from one without a gap.
LEMMA Numbering ==
  ASSUME NEW o
  PROVE  /\ Cardinality(Frozen(o)) \in 0..Cardinality(Diags)
         /\ \A i \in 1..Cardinality(Frozen(o)) :
              \E d \in Frozen(o) : Position(o, d) = i
         /\ \A d \in Frozen(o) :
              Position(o, d) \in 1..Cardinality(Frozen(o))
<1> DEFINE n == Cardinality(Frozen(o))
           f == [d \in Frozen(o) |-> Position(o, d)]
<1>1. Frozen(o) \in SUBSET Diags /\ IsFiniteSet(Diags)
  BY DiagAssumption DEF Frozen, History
<1>2. /\ IsFiniteSet(Frozen(o)) /\ n \in Nat /\ Cardinality(Diags) \in Nat
      /\ n <= Cardinality(Diags)
  BY <1>1, FS_Subset, FS_CardinalityType
<1>3. ASSUME NEW d \in Frozen(o)
      PROVE  /\ IsFiniteSet(Below(o, d)) /\ Position(o, d) = Cardinality(Below(o, d))
             /\ Position(o, d) \in 1..n
  <2>1. Below(o, d) \in SUBSET Frozen(o) /\ d \in Below(o, d)
    BY <1>1, RankAssumption DEF Below
  <2>2. /\ IsFiniteSet(Below(o, d)) /\ Cardinality(Below(o, d)) <= n
        /\ Cardinality(Below(o, d)) \in Nat
    BY <1>2, <2>1, FS_Subset, FS_CardinalityType
  <2>3. Cardinality(Below(o, d)) # 0
    BY <2>1, <2>2, FS_EmptySet
  <2> QED BY <1>2, <2>2, <2>3 DEF Position, Below
<1>4. f \in Injection(Frozen(o), 1..n)
  <2>1. f \in [Frozen(o) -> 1..n]
    BY <1>3
  <2>2. ASSUME NEW d \in Frozen(o), NEW e \in Frozen(o), f[d] = f[e] PROVE d = e
    BY <2>2, PositionsDiffer
  <2> HIDE DEF f
  <2> QED BY <2>1, <2>2 DEF Injection, IsInjective
<1>5. IsFiniteSet(1..n) /\ Cardinality(1..n) = n
  BY <1>2, FS_Interval
<1>6. f \in Surjection(Frozen(o), 1..n)
  <2> HIDE DEF f
  <2> QED BY <1>4, <1>5, FS_Injection
<1>7. \A i \in 1..n : \E d \in Frozen(o) : f[d] = i
  <2> HIDE DEF f
  <2> QED BY <1>6 DEF Surjection
<1> QED BY <1>2, <1>3, <1>7

\* A snapshot holds all diagnostics of its organization, and no others.
LEMMA SnapshotFacts ==
  ASSUME TypeOK, Finished, NEW o
  PROVE  /\ SnapshotRows(o) \in Seq(Items)
         /\ Sound(SnapshotRows(o), o)
         /\ Ids(SnapshotRows(o)) = History(o)
<1> DEFINE n == Cardinality(Frozen(o))
           Nth(i) == CHOOSE d \in Frozen(o) : Position(o, d) = i
           rows == SnapshotRows(o)
<1>1. n \in Nat /\ n <= Cardinality(Diags) /\ Cardinality(Diags) \in Nat
  BY Numbering, DiagAssumption, FS_CardinalityType
<1>2. ASSUME NEW i \in 1..n PROVE Nth(i) \in Frozen(o) /\ Position(o, Nth(i)) = i
  BY Numbering
<1>3. ASSUME NEW d \in Frozen(o)
      PROVE  /\ Item(d) \in Items /\ Item(d).id = d /\ OrgOf[d] = o
             /\ Item(d).state = "completed" <=> Item(d).result # NoResult
  BY DEF Item, Items, Frozen, History, TypeOK, Finished
<1>4. rows = [i \in 1..n |-> Item(Nth(i))]
  BY DEF SnapshotRows
<1> HIDE DEF Nth, rows, n
<1>5. rows \in [1..n -> Items]
  BY <1>2, <1>3, <1>4
<1>6. rows \in Seq(Items) /\ Len(rows) = n /\ DOMAIN rows = 1..n
  BY <1>1, <1>5
<1>7. Ordered(rows)
  <2>1. ASSUME NEW i \in 1..n, NEW k \in 1..n, i < k
        PROVE  Rank[rows[i].id] < Rank[rows[k].id]
    <3>1. rows[i].id = Nth(i) /\ rows[k].id = Nth(k)
      BY <1>2, <1>3, <1>4
    <3>2. Rank[Nth(i)] < Rank[Nth(k)]
      BY <1>2, <2>1, PositionsFollow
    <3> QED BY <3>1, <3>2
  <2> QED BY <1>6, <2>1 DEF Ordered
<1>8. Sound(rows, o)
  BY <1>1, <1>2, <1>3, <1>4, <1>6, <1>7 DEF Sound
<1>9. Ids(rows) = Frozen(o)
  <2>1. ASSUME NEW d \in Frozen(o) PROVE d \in Ids(rows)
    <3>1. Position(o, d) \in 1..n
      BY Numbering DEF n
    <3>2. Nth(Position(o, d)) = d
      <4>1. ASSUME NEW e \in Frozen(o), Position(o, e) = Position(o, d) PROVE e = d
        BY <4>1, PositionsDiffer
      <4> QED BY <1>2, <3>1, <4>1
    <3> QED BY <1>3, <1>4, <1>6, <3>1, <3>2 DEF Ids
  <2>2. ASSUME NEW r \in Ids(rows) PROVE r \in Frozen(o)
    BY <1>2, <1>3, <1>4, <1>6, <2>2 DEF Ids
  <2> QED BY <2>1, <2>2
<1> QED BY <1>6, <1>8, <1>9 DEF rows, Frozen

\* A page is the next PageSize rows, or what there is of them.
LEMMA PageFacts ==
  ASSUME NEW rows \in Seq(Items), NEW k \in 0..Len(rows)
  PROVE  /\ Page(rows, k) \in Seq(Items)
         /\ Len(Page(rows, k)) = IF k + PageSize < Len(rows) THEN PageSize
                                 ELSE Len(rows) - k
         /\ \A i \in 1..Len(Page(rows, k)) : Page(rows, k)[i] = rows[k + i]
<1> DEFINE last == IF k + PageSize < Len(rows) THEN k + PageSize ELSE Len(rows)
<1>1. /\ PageSize \in Nat /\ PageSize > 0 /\ Len(rows) \in Nat
      /\ last \in k..Len(rows)
  BY PageAssumption
<1>2. \A i \in k + 1 .. last : rows[i] \in Items
  BY <1>1
<1>3. Page(rows, k) = SubSeq(rows, k + 1, last)
  BY DEF Page
<1>4. k \in Int /\ k + 1 \in Int /\ last \in Int
  BY <1>1
<1> HIDE DEF last
<1>5. /\ SubSeq(rows, k + 1, last) \in Seq(Items)
      /\ Len(SubSeq(rows, k + 1, last)) = IF k + 1 <= last THEN last - (k + 1) + 1 ELSE 0
      /\ \A i \in 1..last - (k + 1) + 1 :
           SubSeq(rows, k + 1, last)[i] = rows[(k + 1) + i - 1]
  BY <1>2, <1>4, SubSeqProperties
<1>6. Len(Page(rows, k)) = last - k
  BY <1>1, <1>3, <1>4, <1>5
<1>7. \A i \in 1..Len(Page(rows, k)) : Page(rows, k)[i] = rows[k + i]
  <2> TAKE i \in 1..Len(Page(rows, k))
  <2>1. i \in 1..last - (k + 1) + 1 /\ i \in Int
    BY <1>1, <1>4, <1>6
  <2>2. (k + 1) + i - 1 = k + i
    BY <1>4, <2>1
  <2> QED BY <1>3, <1>5, <2>1, <2>2
<1> QED BY <1>1, <1>3, <1>5, <1>6, <1>7 DEF last

\* With a page more a worker still has a prefix, and all after a short page.
LEMMA ReadOn ==
  ASSUME NEW rows \in Seq(Items), NEW s \in Seq(Items), Prefix(s, rows)
  PROVE  LET t == s \o Page(rows, Len(s)) IN
         /\ t \in Seq(Items) /\ Prefix(t, rows)
         /\ Len(Page(rows, Len(s))) # PageSize \/ Len(s) = Len(rows) =>
              Len(t) = Len(rows)
<1> DEFINE p == Page(rows, Len(s))
<1>1. Len(s) \in 0..Len(rows) /\ Len(rows) \in Nat
  BY DEF Prefix
<1>2. /\ p \in Seq(Items)
      /\ Len(p) = IF Len(s) + PageSize < Len(rows) THEN PageSize ELSE Len(rows) - Len(s)
      /\ \A i \in 1..Len(p) : p[i] = rows[Len(s) + i]
  BY <1>1, PageFacts
<1> HIDE DEF p
<1>3. /\ s \o p \in Seq(Items) /\ Len(s \o p) = Len(s) + Len(p)
      /\ \A i \in 1..Len(s) + Len(p) :
           (s \o p)[i] = IF i <= Len(s) THEN s[i] ELSE p[i - Len(s)]
  BY <1>2, ConcatProperties
<1>4. PageSize \in Nat /\ Len(p) \in Nat
  BY <1>2, PageAssumption
<1>5. \A i \in 1..Len(s) + Len(p) : (s \o p)[i] = rows[i]
  <2> TAKE i \in 1..Len(s) + Len(p)
  <2>1. CASE i <= Len(s)
    BY <1>1, <1>3, <1>4, <2>1 DEF Prefix
  <2>2. CASE i > Len(s)
    <3>1. i - Len(s) \in 1..Len(p) /\ Len(s) + (i - Len(s)) = i
      BY <1>1, <1>4, <2>2
    <3> QED BY <1>1, <1>2, <1>3, <2>2, <3>1
  <2> QED BY <1>1, <1>4, <2>1, <2>2
<1>6. Len(s) + Len(p) <= Len(rows)
  BY <1>1, <1>2, <1>4
<1>7. Len(p) # PageSize \/ Len(s) = Len(rows) => Len(s) + Len(p) = Len(rows)
  BY <1>1, <1>2, <1>4
<1> QED BY <1>3, <1>5, <1>6, <1>7 DEF p, Prefix

LEMMA LabelFacts == /\ {"idle", "membership"} \subseteq Labels
                    /\ Ops \subseteq Labels /\ "idle" \in Labels
  BY DEF Labels, Ops

LEMMA InitIInv == Init => IInv
<1> SUFFICES ASSUME Init PROVE IInv
  OBVIOUS
<1> USE DEF Init, CallInit
<1>0. <<>> \in Seq(Items) /\ Len(<<>>) = 0 /\ DOMAIN <<>> = {}
  OBVIOUS
<1>1. TypeOK
  BY <1>0, FaultAssumption
  DEF TypeOK, CallTypeOK, Labels, Ops, Kinds, States, Types, Scopes, Names, Artifact
<1>2. Alone /\ Finished
  BY DEF Alone, Creating, Finished
<1>3. ASSUME NEW c \in Calls PROVE CallInv(c)
  <2>1. Placed(c) /\ Holds(c) /\ Knows(c) /\ Vouched(c) /\ Told(c) /\ Drafting(c)
    BY DEF Placed, Holds, Knows, Vouched, Told, Drafting, Ops
  <2>2. Reading(c)
    BY CallAssumption DEF Reading
  <2> QED BY <2>1, <2>2 DEF CallInv
<1>4. ASSUME NEW j \in Jobs PROVE RowInv(j)
  BY <1>0 DEF RowInv, Types
<1> QED BY <1>1, <1>2, <1>3, <1>4 DEF IInv

(* Steps that write no row *)

\* What a step of one call leaves of the others' work
ApartWork(c) == \A b \in Calls \ {c} :
  /\ draft'[b] = draft[b] /\ earlier'[b] = earlier[b] /\ named'[b] = named[b]
  /\ read'[b] = read[b] /\ more'[b] = more[b]

\* A call changes no draft but its own.
OwnDraft(c) == /\ draft' \in [Calls -> Seq(Items)]
               /\ \A b \in Calls \ {c} : draft'[b] = draft[b]

Diagnosed == UNCHANGED <<dstate, dresult>>

\* Who reads nothing, of a snapshot that does not change, has read what it had.
LEMMA ReadingStays ==
  ASSUME NEW b \in Calls, Reading(b), UNCHANGED <<status, snapshot>>,
         pc'[b] = pc[b], op'[b] = op[b], target'[b] = target[b],
         draft'[b] = draft[b], read'[b] = read[b], more'[b] = more[b]
  PROVE  Reading(b)'
<1>1. Page(snapshot[target[b]], Len(read[b]))' = Page(snapshot[target[b]], Len(read[b]))
  BY DEF Page
<1>2. Prefix(read[b], snapshot[target[b]])' <=> Prefix(read[b], snapshot[target[b]])
  BY DEF Prefix
<1> QED BY <1>1, <1>2 DEF Reading

\* Another call keeps its part of the invariant as long as no row changes.
LEMMA QuietOther ==
  ASSUME IInv, NEW c \in Calls, Apart(c), ApartWork(c),
         UNCHANGED jobVars, Diagnosed, UNCHANGED <<active, members>>,
         NEW b \in Calls \ {c}
  PROVE  CallInv(b)'
<1>0. UNCHANGED <<status, scope, snapshot, artifact, events, mails>>
  BY DEF jobVars
<1>1. /\ pc'[b] = pc[b] /\ op'[b] = op[b] /\ target'[b] = target[b]
      /\ asserted'[b] = asserted[b] /\ answer'[b] = answer[b]
      /\ draft'[b] = draft[b] /\ earlier'[b] = earlier[b]
      /\ named'[b] = named[b] /\ read'[b] = read[b] /\ more'[b] = more[b]
  BY DEF Apart, ApartWork
<1>2. /\ Placed(b) /\ Holds(b) /\ Knows(b) /\ Vouched(b) /\ Told(b)
      /\ Drafting(b) /\ Reading(b)
  BY DEF IInv, CallInv
<1>3. Placed(b)' /\ Knows(b)' /\ Told(b)'
  BY <1>0, <1>1, <1>2 DEF Placed, Knows, Told, Ids
<1>4. Holds(b)'
  BY <1>1, <1>2 DEF Holds, Placed, Apart
<1>5. Vouched(b)'
  <2> SUFFICES ASSUME pc[b] = "commit", op[b] = "complete" PROVE Vouched(b)'
    BY <1>1 DEF Vouched
  <2>1. target[b] \in Jobs /\ status[target[b]] = "claimed"
    BY <1>2 DEF Placed, Knows
  <2>2. scope[target[b]] \in Scopes
    BY <2>1 DEF IInv, RowInv
  <2> QED BY <1>0, <1>1, <1>2, <2>2 DEF Vouched, Apart, Authorized
<1>6. Drafting(b)'
  BY <1>1, <1>2 DEF Drafting, Diagnosed, History, Sound, Ids
<1>7. Reading(b)'
  BY <1>0, <1>1, <1>2, ReadingStays
<1> QED BY <1>3, <1>4, <1>5, <1>6, <1>7 DEF CallInv

\* Such a step keeps the invariant of all but the call that moves.
LEMMA QuietKeeps ==
  ASSUME IInv, NEW c \in Calls, Apart(c), ApartWork(c), TypeOK',
         UNCHANGED jobVars, Diagnosed, UNCHANGED <<active, members>>,
         CallInv(c)',
         Creating(c)' => \A b \in Calls \ {c} :
                           ~(Creating(b) /\ target[b] = target'[c])
  PROVE  IInv'
<1>1. \A b \in Calls \ {c} : CallInv(b)'
  BY QuietOther
<1>2. Alone'
  <2> SUFFICES ASSUME NEW a \in Calls, NEW b \in Calls, a # b,
                      Creating(a)', Creating(b)', target'[a] = target'[b]
               PROVE  FALSE
    BY DEF Alone
  <2>1. \A d \in Calls \ {c} : /\ Creating(d)' <=> Creating(d)
                               /\ target'[d] = target[d]
    BY DEF Apart, Creating
  <2> QED BY <2>1 DEF IInv, Alone
<1>3. (\A j \in Jobs : RowInv(j)') /\ Finished'
  BY DEF jobVars, IInv, RowInv, Sound, Finished, Diagnosed
<1> QED BY <1>1, <1>2, <1>3 DEF IInv

\* A call that is turned away leaves nothing behind.
LEMMA ReplyKeeps ==
  ASSUME IInv, NEW c \in Calls, NEW kind \in Kinds \ {"ok", "none"},
         Reply(c, kind),
         UNCHANGED <<accessVars, requestVars, jobVars, diagVars, earlier, named,
                     read, more>>,
         OwnDraft(c), faults' \in 0..MaxFaults, seen' \in [Calls -> States]
  PROVE  IInv'
<1>1. CallTypeOK(Labels, Ops)
  BY DEF IInv, TypeOK
<1>2. /\ CallTypeOK(Labels, Ops)' /\ Apart(c)
      /\ pc'[c] = "idle" /\ answer'[c] = kind
  BY <1>1, ReplyMoves, LabelFacts DEF At
<1>3. /\ UNCHANGED <<status, scope, snapshot, artifact, events, mails>>
      /\ UNCHANGED <<op, target, asserted, earlier, named, read, more>>
      /\ ApartWork(c) /\ Diagnosed
  BY DEF jobVars, diagVars, requestVars, ApartWork, OwnDraft, Diagnosed
<1>4. TypeOK'
  BY <1>2, <1>3 DEF IInv, TypeOK, OwnDraft, Diagnosed
<1>5. CallInv(c)' /\ ~Creating(c)'
  <2>1. CallInv(c)
    BY DEF IInv
  <2>2. Placed(c)' /\ Holds(c)' /\ Knows(c)' /\ Vouched(c)' /\ Told(c)' /\ ~Creating(c)'
    BY <1>2, <1>3, <2>1
    DEF CallInv, Placed, Holds, Knows, Vouched, Told, Creating, Ops
  <2>3. Drafting(c)' /\ Reading(c)'
    BY <1>2, <1>3, <2>1 DEF CallInv, Drafting, Reading, Prefix
  <2> QED BY <2>2, <2>3 DEF CallInv
<1> QED BY <1>2, <1>3, <1>4, <1>5, QuietKeeps DEF accessVars

LEMMA AskStep ==
  ASSUME IInv, NEW c \in Clients, NEW o \in {"create", "get"},
         NEW s \in Scopes, NEW j \in Jobs, Ask(c, o, s, j)
  PROVE  IInv'
<1>1. c \in Calls /\ o \in Ops /\ "user" \in Labels
  BY DEF Calls, Ops, Labels
<1>2. PICK label \in Labels : label = "user" /\ Arrive(c, label, o, j)
  BY <1>1 DEF Ask
<1>3. /\ asserted' = [asserted EXCEPT ![c] = s] /\ CallTypeOK(Labels, Ops)
      /\ Assertive(c) /\ asserted'[c] = s
      /\ UNCHANGED <<jobVars, draft, named, read, more, seen>> /\ Diagnosed
  BY <1>1 DEF Ask, IInv, TypeOK, CallTypeOK, Assertive, Diagnosed, diagVars
<1>4. /\ CallTypeOK(Labels, Ops)' /\ Apart(c)
      /\ pc'[c] = "user" /\ op'[c] = o /\ target'[c] = j /\ answer'[c] = "none"
      /\ UNCHANGED <<active, members>>
  BY <1>1, <1>2, <1>3, ArriveMoves DEF At
<1>5. /\ earlier' = [earlier EXCEPT ![c] = IF o = "create" THEN History(s[2]) ELSE {}]
      /\ \A p : History(p) \in SUBSET Diags
      /\ earlier \in [Calls -> SUBSET Diags]
  BY DEF Ask, History, IInv, TypeOK
<1>6. /\ earlier' \in [Calls -> SUBSET Diags]
      /\ o = "create" => earlier'[c] = History(s[2])
      /\ \A b \in Calls \ {c} : earlier'[b] = earlier[b]
  BY <1>1, <1>5
<1>7. UNCHANGED <<status, scope, snapshot, artifact, events, mails>>
  BY <1>3 DEF jobVars
<1>8. TypeOK'
  BY <1>3, <1>4, <1>6, <1>7 DEF IInv, TypeOK, Diagnosed
<1>9. CallInv(c)'
  <2>1. Placed(c)' /\ Holds(c)' /\ Knows(c)' /\ Vouched(c)' /\ Told(c)'
    BY <1>3, <1>4, <1>7
    DEF Placed, Holds, Knows, Vouched, Told, Ops, Ask, Fresh
  <2>2. Drafting(c)'
    BY <1>3, <1>4, <1>6 DEF Drafting, History, Diagnosed
  <2>3. Reading(c)'
    <3>1. read'[c] = <<>> /\ more'[c]
      BY <1>1, <1>3 DEF IInv, CallInv, Reading
    <3>2. snapshot'[j] \in Seq(Items)
      BY <1>7 DEF IInv, TypeOK
    <3> QED BY <1>4, <3>1, <3>2 DEF Reading, Prefix
  <2> QED BY <2>1, <2>2, <2>3 DEF CallInv
<1>10. ASSUME Creating(c)', NEW b \in Calls \ {c}, Creating(b)
       PROVE  target[b] # j
  BY <1>4, <1>10 DEF Creating, Ask, Fresh, IInv, CallInv, Placed
<1>11. ApartWork(c)
  BY <1>3, <1>6 DEF ApartWork
<1> QED BY <1>1, <1>3, <1>4, <1>8, <1>9, <1>10, <1>11, QuietKeeps

LEMMA RequestStep ==
  ASSUME IInv, NEW c \in Workers, Request(c)
  PROVE  IInv'
<1>1. PICK j \in Jobs, n \in Names, o \in {"recover", "claim", "page", "complete"} :
        Call(c, o, j, n)
  BY DEF Request
<1>2. c \in Calls /\ o \in Ops /\ o \in Labels /\ c \notin Clients
  BY CallAssumption DEF Calls, Ops, Labels
<1>3. /\ CallTypeOK(Labels, Ops) /\ Arrive(c, o, o, j)
      /\ Assertive(c) /\ target[c] \in {NoJob, j}
      /\ UNCHANGED <<jobVars, asserted, draft, earlier, read, more, seen>> /\ Diagnosed
  BY <1>1 DEF Call, IInv, TypeOK, CallTypeOK, Assertive, Diagnosed, diagVars
<1>4. /\ CallTypeOK(Labels, Ops)' /\ Apart(c)
      /\ pc'[c] = o /\ op'[c] = o /\ target'[c] = j /\ answer'[c] = "none"
      /\ UNCHANGED <<active, members>>
  BY <1>2, <1>3, ArriveMoves DEF At
<1>5. /\ named' \in [Calls -> Names]
      /\ \A b \in Calls \ {c} : named'[b] = named[b]
  BY <1>1, <1>2 DEF Call, Names, IInv, TypeOK
<1>6. UNCHANGED <<status, scope, snapshot, artifact, events, mails>>
  BY <1>3 DEF jobVars
<1>7. TypeOK'
  BY <1>3, <1>4, <1>5, <1>6 DEF IInv, TypeOK, Diagnosed
<1>8. CallInv(c)' /\ ~Creating(c)'
  <2>1. /\ Placed(c)' /\ Holds(c)' /\ Knows(c)' /\ Vouched(c)' /\ Told(c)'
        /\ Drafting(c)' /\ ~Creating(c)'
    BY <1>2, <1>4
    DEF Placed, Holds, Knows, Vouched, Told, Drafting, Creating, Ops
  <2>2. /\ read'[c] = read[c] /\ more'[c] = more[c] /\ snapshot' = snapshot
        /\ status' = status /\ snapshot[j] \in Seq(Items)
    BY <1>3, <1>6 DEF IInv, TypeOK
  <2>3. Reading(c)
    BY <1>2 DEF IInv, CallInv
  <2>4. j \in Jobs /\ j # NoJob
    BY CallAssumption
  <2>5. ASSUME target[c] = NoJob PROVE Reading(c)'
    <3>1. read[c] = <<>> /\ more[c]
      BY <2>3, <2>5 DEF Reading
    <3> QED BY <1>2, <1>4, <2>2, <2>4, <3>1 DEF Reading, Prefix
  <2>6. ASSUME target[c] = j PROVE Reading(c)'
    BY <1>2, <1>4, <2>2, <2>3, <2>4, <2>6 DEF Reading, Prefix
  <2> QED BY <1>3, <2>1, <2>5, <2>6 DEF CallInv
<1>9. ApartWork(c)
  BY <1>3, <1>5 DEF ApartWork
<1> QED BY <1>2, <1>3, <1>4, <1>7, <1>8, <1>9, QuietKeeps

LEMMA ContextStep ==
  ASSUME IInv, NEW c \in Calls, ContextUser(c) \/ ContextMembership(c),
         UNCHANGED <<jobVars, diagVars, workVars>>
  PROVE  IInv'
<1>1. /\ CallTypeOK(Labels, Ops)' /\ Apart(c)
      /\ UNCHANGED <<active, members, op, target, asserted>>
      /\ \/ pc'[c] = "idle" /\ answer'[c] = "forbidden"
         \/ pc'[c] = "membership" /\ pc[c] = "user" /\ UNCHANGED answer
         \/ pc'[c] = op[c] /\ pc[c] = "membership" /\ UNCHANGED answer
  BY LabelFacts, ContextMoves DEF IInv, TypeOK, At
<1>2. pc[c] \in {"user", "membership"}
  BY DEF ContextUser, ContextMembership
<1>3. /\ UNCHANGED <<status, scope, snapshot, artifact, events, mails>>
      /\ UNCHANGED <<draft, earlier, named, read, more, seen>>
      /\ Diagnosed /\ ApartWork(c)
  BY DEF jobVars, workVars, diagVars, Diagnosed, ApartWork
<1>4. TypeOK'
  BY <1>1, <1>3 DEF IInv, TypeOK, Diagnosed
<1>5. CallInv(c)
  BY DEF IInv
<1>6. op[c] \in {"create", "get"}
  BY <1>2, <1>5 DEF CallInv, Placed
<1>7. CallInv(c)'
  <2>1. /\ pc'[c] \in {"idle", "membership", "create", "get"}
        /\ pc'[c] \in {"create", "get"} => pc'[c] = op[c]
        /\ answer'[c] # "ok" /\ (pc'[c] # "idle" => answer'[c] = "none")
    BY <1>1, <1>2, <1>5, <1>6 DEF CallInv, Placed
  <2>2. Placed(c)' /\ Holds(c)' /\ Vouched(c)' /\ Told(c)'
    BY <1>1, <1>2, <1>5, <1>6, <2>1
    DEF CallInv, Placed, Holds, Vouched, Told, Ops
  <2>3. Knows(c)'
    BY <1>1, <1>2, <1>3, <1>5, <1>6, <2>1 DEF CallInv, Knows
  <2>4. Drafting(c)'
    BY <1>1, <1>2, <1>3, <1>5, <2>1 DEF CallInv, Drafting, History, Diagnosed
  <2>5. Reading(c)'
    BY <1>1, <1>3, <1>5, <2>1 DEF CallInv, Reading, Prefix
  <2> QED BY <2>2, <2>3, <2>4, <2>5 DEF CallInv
<1>8. Creating(c)' => Creating(c) /\ target'[c] = target[c]
  BY <1>1, <1>2 DEF Creating
<1> QED BY <1>1, <1>3, <1>4, <1>7, <1>8, QuietKeeps DEF IInv, Alone

\* A call that finds what it looked for goes on.
LEMMA GoOnKeeps ==
  ASSUME IInv, NEW c \in Calls, NEW label \in Labels \ {"idle"},
         Goto(c, label), pc[c] # "idle",
         UNCHANGED <<accessVars, lockVars, requestVars, answer, faults, jobVars,
                     diagVars, earlier, named, read, more>>,
         OwnDraft(c), seen' \in [Calls -> States],
         CallInv(c)'
  PROVE  IInv'
<1>1. CallTypeOK(Labels, Ops)' /\ Apart(c) /\ pc'[c] = label
  BY GotoMoves DEF IInv, TypeOK, At
<1>2. /\ UNCHANGED <<status, scope, snapshot, artifact, events, mails>>
      /\ UNCHANGED <<earlier, named, read, more>>
      /\ Diagnosed /\ ApartWork(c)
  BY DEF jobVars, diagVars, Diagnosed, ApartWork, OwnDraft
<1>3. TypeOK'
  BY <1>1, <1>2 DEF IInv, TypeOK, OwnDraft, Diagnosed
<1>4. Creating(c)' => Creating(c) /\ target'[c] = target[c]
  BY DEF Creating, requestVars
<1> QED BY <1>1, <1>2, <1>3, <1>4, QuietKeeps DEF IInv, Alone, accessVars

LEMMA CreateStep ==
  ASSUME IInv, NEW c \in Calls, CreateRows(c)
  PROVE  IInv'
<1> DEFINE o == asserted[c][2]
<1>1. /\ pc[c] = "create" /\ draft' = [draft EXCEPT ![c] = SnapshotRows(o)]
      /\ Goto(c, "commit") /\ pc' = [pc EXCEPT ![c] = "commit"]
      /\ UNCHANGED <<accessVars, lockVars, requestVars, answer, faults, jobVars,
                     diagVars, earlier, named, read, more, seen>>
      /\ UNCHANGED <<op, target, asserted, answer, earlier, named, read, more>>
      /\ UNCHANGED <<status, scope, snapshot>>
  BY DEF CreateRows, Goto, requestVars, jobVars
<1>2. CallInv(c) /\ op[c] = "create" /\ answer[c] = "none"
  BY <1>1 DEF IInv, CallInv, Placed, Ops
<1>3. /\ SnapshotRows(o) \in Seq(Items) /\ Sound(SnapshotRows(o), o)
      /\ Ids(SnapshotRows(o)) = History(o)
  BY SnapshotFacts DEF IInv
<1>4. /\ OwnDraft(c) /\ draft'[c] = SnapshotRows(o) /\ pc'[c] = "commit"
      /\ seen' \in [Calls -> States]
  BY <1>1, <1>3 DEF OwnDraft, IInv, TypeOK, CallTypeOK
<1>5. CallInv(c)'
  <2>1. /\ Placed(c)' /\ Holds(c)' /\ Knows(c)' /\ Vouched(c)' /\ Told(c)'
    BY <1>1, <1>2, <1>4 DEF CallInv, Placed, Holds, Knows, Vouched, Told, Ops
  <2>2. Drafting(c)'
    <3>1. Sound(draft'[c], asserted'[c][2]) /\ Ids(draft'[c]) = History(o)
      BY <1>1, <1>3, <1>4
    <3>2. earlier[c] \subseteq History(o)
      BY <1>1, <1>2 DEF CallInv, Drafting
    <3>3. Sound(draft'[c], asserted'[c][2]) <=> Sound(draft[c], asserted[c][2])'
      BY DEF Sound
    <3>4. Ids(draft'[c]) = Ids(draft[c])'
      BY DEF Ids
    <3> QED BY <1>1, <1>4, <3>1, <3>2, <3>3, <3>4 DEF Drafting, History, diagVars
  <2>3. Reading(c)'
    BY <1>1, <1>2, <1>4 DEF CallInv, Reading, Prefix
  <2> QED BY <2>1, <2>2, <2>3 DEF CallInv
<1>6. "commit" \in Labels \ {"idle"}
  BY DEF Labels
<1> QED BY <1>1, <1>4, <1>5, <1>6, GoOnKeeps

LEMMA ReadStep ==
  ASSUME IInv, NEW c \in Calls, GetRow(c) \/ RecoverRow(c) \/ PageRow(c)
  PROVE  IInv'
<1> DEFINE j == target[c]
<1>1. /\ CallInv(c) /\ pc[c] \in {"get", "recover", "page"} /\ op[c] = pc[c]
      /\ j \in Jobs /\ answer[c] = "none"
  BY DEF GetRow, RecoverRow, PageRow, IInv, CallInv, Placed, Ops
<1>2. /\ UNCHANGED <<accessVars, requestVars, faults, jobVars, diagVars, earlier,
                     named, read, more>>
      /\ UNCHANGED <<op, target, asserted, earlier, named, read, more>>
      /\ UNCHANGED <<status, scope, snapshot>>
      /\ faults' \in 0..MaxFaults
  BY DEF GetRow, RecoverRow, PageRow, workVars, requestVars, jobVars, IInv, TypeOK,
         CallTypeOK
<1>3. seen' \in [Calls -> States]
  BY <1>1
  DEF GetRow, RecoverRow, PageRow, workVars, Memo, Shown, States, IInv, TypeOK
<1>4. Page(snapshot[j], Len(read[c])) \in Seq(Items)
  BY <1>1, PageFacts DEF CallInv, Reading, Prefix, IInv, TypeOK
<1>5. /\ \/ UNCHANGED draft /\ pc[c] # "page"
         \/ UNCHANGED draft /\ \E kind \in Kinds \ {"ok", "none"} : Reply(c, kind)
         \/ draft' = [draft EXCEPT ![c] = Page(snapshot[j], Len(read[c]))]
      /\ \/ \E kind \in Kinds \ {"ok", "none"} : Reply(c, kind)
         \/ /\ Goto(c, "respond") /\ UNCHANGED <<lockVars, answer>>
            /\ status[j] # "absent"
            /\ pc[c] = "get" => scope[j][2] = asserted[c][2]
  BY <1>1 DEF GetRow, RecoverRow, PageRow, PageRefusal, Found, Shown, Kinds, workVars,
              Paged
<1>6. OwnDraft(c)
  BY <1>4, <1>5 DEF OwnDraft, IInv, TypeOK
<1>7. ASSUME Goto(c, "respond"), UNCHANGED <<lockVars, answer>>, status[j] # "absent",
             pc[c] = "get" => scope[j][2] = asserted[c][2],
             pc[c] = "page" =>
               draft' = [draft EXCEPT ![c] = Page(snapshot[j], Len(read[c]))]
      PROVE  CallInv(c)'
  <2>1. pc'[c] = "respond" /\ pc' = [pc EXCEPT ![c] = "respond"]
    BY <1>7 DEF Goto, IInv, TypeOK, CallTypeOK
  <2>2. Placed(c)' /\ Holds(c)' /\ Knows(c)' /\ Vouched(c)' /\ Told(c)' /\ Drafting(c)'
    BY <1>1, <1>2, <1>7, <2>1
    DEF CallInv, Placed, Holds, Knows, Vouched, Told, Drafting, Ops
  <2>3. pc[c] = "page" => draft'[c] = Page(snapshot[j], Len(read[c]))
    BY <1>7 DEF IInv, TypeOK
  <2>4. Reading(c)'
    <3>1. Reading(c) /\ UNCHANGED <<op, target, read, more, status, snapshot>>
      BY <1>1, <1>2 DEF CallInv
    <3>2. j \in Jobs /\ status[j] # "absent"
      BY <1>1, <1>7
    <3>3. op[c] = "page" => draft'[c] = Page(snapshot[j], Len(read[c]))
      BY <1>1, <2>3
    <3>4. Page(snapshot[target[c]], Len(read[c]))' = Page(snapshot[j], Len(read[c]))
      BY <3>1 DEF Page
    <3>5. target[c] \in Jobs => Prefix(read[c], snapshot[target[c]])'
      BY <3>1 DEF Reading, Prefix
    <3> QED BY <3>1, <3>2, <3>3, <3>4, <3>5 DEF Reading
  <2> QED BY <2>2, <2>4 DEF CallInv
<1>8. CASE \E kind \in Kinds \ {"ok", "none"} : Reply(c, kind)
  BY <1>2, <1>3, <1>6, <1>8, ReplyKeeps
<1>9. CASE ~ \E kind \in Kinds \ {"ok", "none"} : Reply(c, kind)
  <2>1. "respond" \in Labels \ {"idle"}
    BY DEF Labels
  <2>2. CallInv(c)'
    BY <1>5, <1>7, <1>9
  <2>3. Goto(c, "respond") /\ UNCHANGED <<lockVars, answer>>
    BY <1>5, <1>9
  <2> QED BY <1>1, <1>2, <1>3, <1>6, <2>1, <2>2, <2>3, GoOnKeeps
<1> QED BY <1>8, <1>9

\* A claim or a completion takes the job.
LEMMA LockStep ==
  ASSUME IInv, NEW c \in Calls, Lock(c)
  PROVE  IInv'
<1> DEFINE j == target[c]
<1>1. /\ CallInv(c) /\ op[c] = pc[c] /\ answer[c] = "none" /\ j \in Jobs
      /\ pc[c] \in {"claim", "complete"}
  BY DEF Lock, ClaimRow, CompleteRow, IInv, CallInv, Placed, Ops
<1>2. /\ UNCHANGED <<active, members, op, target, asserted, faults, draft, earlier,
                     named, read, more>>
      /\ UNCHANGED <<accessVars, requestVars, jobVars, diagVars>>
      /\ UNCHANGED <<status, scope, snapshot, artifact, events, mails>>
      /\ faults' \in 0..MaxFaults /\ OwnDraft(c) /\ ApartWork(c) /\ Diagnosed
  BY DEF Lock, ClaimRow, CompleteRow, accessVars, requestVars, jobVars, diagVars,
         OwnDraft, ApartWork, Diagnosed, IInv, TypeOK, CallTypeOK
<1>3. \/ UNCHANGED seen /\ \E kind \in Kinds \ {"ok", "none"} : Reply(c, kind)
      \/ \E label, becomes :
           /\ LockJob(c) /\ Goto(c, label) /\ Memo(c, becomes) /\ UNCHANGED answer
           /\ \/ /\ op[c] = "claim" /\ status[j] = "pending"
                 /\ label = "commit" /\ becomes = "claimed"
              \/ /\ op[c] = "complete" /\ status[j] = "claimed"
                 /\ named[c][2] = j /\ label = "recipient" /\ becomes = "completed"
  BY <1>1 DEF Lock, ClaimRow, CompleteRow, CompleteRefusal, Kinds
<1>4. CASE UNCHANGED seen /\ \E kind \in Kinds \ {"ok", "none"} : Reply(c, kind)
  <2>1. seen' \in [Calls -> States]
    BY <1>4 DEF IInv, TypeOK
  <2> QED BY <1>2, <1>4, <2>1, ReplyKeeps
<1>5. ASSUME NEW label, NEW becomes,
             LockJob(c), Goto(c, label), Memo(c, becomes), UNCHANGED answer,
             \/ /\ op[c] = "claim" /\ status[j] = "pending"
                /\ label = "commit" /\ becomes = "claimed"
             \/ /\ op[c] = "complete" /\ status[j] = "claimed"
                /\ named[c][2] = j /\ label = "recipient" /\ becomes = "completed"
      PROVE  IInv'
  <2>1. /\ jobLock[j] = Free /\ jobLock' = [jobLock EXCEPT ![j] = c]
        /\ pc' = [pc EXCEPT ![c] = label]
        /\ seen' = [seen EXCEPT ![c] = becomes] \/ UNCHANGED seen
        /\ UNCHANGED <<share, answer>>
    BY <1>5 DEF LockJob, Goto, Memo
  <2>2. Free \notin Calls
    BY CallAssumption DEF Calls
  <2>3. TypeOK'
    <3>1. label \in Labels /\ becomes \in States
      BY <1>5 DEF Labels, States
    <3> QED BY <1>1, <1>2, <2>1, <3>1 DEF IInv, TypeOK, CallTypeOK, Diagnosed
  <2>4. Apart(c)
    BY <1>1, <1>2, <2>1, <2>2 DEF Apart, IInv, TypeOK, CallTypeOK
  <2>5. pc'[c] = label /\ jobLock'[j] = c
    BY <1>1, <2>1 DEF IInv, TypeOK, CallTypeOK
  <2>6. /\ Placed(c)' /\ Holds(c)' /\ Knows(c)' /\ Vouched(c)' /\ Told(c)'
        /\ Drafting(c)' /\ ~Creating(c)'
    BY <1>1, <1>2, <1>5, <2>1, <2>5
    DEF CallInv, Placed, Holds, Knows, Vouched, Told, Drafting, Ops, Creating
  <2>7. Reading(c)'
    BY <1>1, <1>2, <1>5, <2>5 DEF CallInv, Reading, Prefix
  <2> QED BY <1>2, <2>3, <2>4, <2>6, <2>7, QuietKeeps DEF CallInv
<1> QED BY <1>3, <1>4, <1>5

\* A completion takes its requester.
LEMMA RecipientStep ==
  ASSUME IInv, NEW c \in Calls, CompleteRecipient(c)
  PROVE  IInv'
<1> DEFINE j == target[c]
           s == scope[target[c]]
<1>1. /\ CallInv(c) /\ pc[c] = "recipient" /\ op[c] = "complete"
      /\ j \in Jobs /\ status[j] = "claimed" /\ s \in Scopes
      /\ jobLock[j] = c /\ answer[c] = "none" /\ named[c][2] = j
  BY DEF CompleteRecipient, IInv, CallInv, Placed, Holds, Knows, RowInv
<1>2. /\ UNCHANGED <<active, members, op, target, asserted, faults, draft, earlier,
                     named, read, more, seen>>
      /\ UNCHANGED <<accessVars, requestVars, jobVars, diagVars>>
      /\ UNCHANGED <<status, scope, snapshot, artifact, events, mails>>
      /\ faults' \in 0..MaxFaults /\ OwnDraft(c) /\ ApartWork(c) /\ Diagnosed
      /\ seen' \in [Calls -> States]
  BY DEF CompleteRecipient, accessVars, requestVars, jobVars, diagVars, workVars,
         OwnDraft, ApartWork, Diagnosed, IInv, TypeOK, CallTypeOK
<1>3. CASE ~Authorized(s)
  <2>1. Reply(c, "conflict") /\ "conflict" \in Kinds \ {"ok", "none"}
    BY <1>3 DEF CompleteRecipient, Kinds
  <2> QED BY <1>2, <2>1, ReplyKeeps
<1>4. CASE Authorized(s)
  <2>1. /\ share' = [share EXCEPT ![s] = @ \cup {c}]
        /\ pc' = [pc EXCEPT ![c] = "commit"]
        /\ UNCHANGED <<jobLock, answer>>
    BY <1>4 DEF CompleteRecipient, ShareRequester, Goto
  <2>2. TypeOK'
    <3>1. "commit" \in Labels
      BY DEF Labels
    <3> QED BY <1>1, <1>2, <2>1, <3>1 DEF IInv, TypeOK, CallTypeOK, Diagnosed
  <2>3. Apart(c)
    BY <1>1, <1>2, <2>1 DEF Apart, IInv, TypeOK, CallTypeOK
  <2>4. pc'[c] = "commit" /\ c \in share'[s]
    BY <1>1, <2>1 DEF IInv, TypeOK, CallTypeOK
  <2>5. /\ Placed(c)' /\ Holds(c)' /\ Knows(c)' /\ Vouched(c)' /\ Told(c)'
        /\ Drafting(c)' /\ ~Creating(c)'
    BY <1>1, <1>2, <1>4, <2>1, <2>4
    DEF CallInv, Placed, Holds, Knows, Vouched, Told, Drafting, Ops, Creating,
        Authorized
  <2>6. Reading(c)'
    BY <1>1, <1>2, <2>4 DEF CallInv, Reading, Prefix
  <2> QED BY <1>2, <2>2, <2>3, <2>5, <2>6, QuietKeeps DEF CallInv
<1> QED BY <1>3, <1>4

\* The rows of a page are kept when they arrive.
LEMMA AnswerStep ==
  ASSUME IInv, NEW c \in Calls, Answer(c)
  PROVE  IInv'
<1> DEFINE j == target[c]
<1>1. /\ CallTypeOK(Labels, Ops)' /\ Apart(c) /\ pc[c] = "respond" /\ CallInv(c)
      /\ UNCHANGED <<active, members, op, target, asserted>>
      /\ pc'[c] = "idle" /\ answer'[c] = "ok"
  BY LabelFacts, RespondMoves DEF Answer, Respond, IInv, TypeOK, At
<1>2. /\ UNCHANGED <<status, scope, snapshot, artifact, events, mails>>
      /\ UNCHANGED <<jobVars, earlier, named, seen>> /\ Diagnosed
      /\ draft' = [draft EXCEPT ![c] = <<>>] /\ <<>> \in Seq(Items)
  BY DEF Answer, Discard, jobVars, diagVars, Diagnosed
<1>3. /\ j \in Jobs /\ read[c] \in Seq(Items) /\ snapshot[j] \in Seq(Items)
      /\ Prefix(read[c], snapshot[j]) /\ more[c] \in BOOLEAN
      /\ op[c] = "page" => draft[c] = Page(snapshot[j], Len(read[c])) /\ c \notin Clients
                           /\ status[j] # "absent"
  BY <1>1 DEF CallInv, Placed, Reading, IInv, TypeOK
<1>4. /\ read' \in [Calls -> Seq(Items)] /\ more' \in [Calls -> BOOLEAN]
      /\ \A b \in Calls \ {c} : read'[b] = read[b] /\ more'[b] = more[b]
      /\ Prefix(read'[c], snapshot[j])
      /\ ~more'[c] => Len(read'[c]) = Len(snapshot[j])
      /\ op[c] # "page" => UNCHANGED <<read, more>>
  <2>1. CASE op[c] = "page"
    <3>1. /\ read' = [read EXCEPT ![c] = @ \o draft[c]]
          /\ \/ more' = [more EXCEPT ![c] = Len(draft[c]) = PageSize]
             \/ UNCHANGED more
      BY <2>1 DEF Answer
    <3>2. /\ read[c] \o draft[c] \in Seq(Items)
          /\ Prefix(read[c] \o draft[c], snapshot[j])
          /\ Len(draft[c]) # PageSize \/ Len(read[c]) = Len(snapshot[j]) =>
               Len(read[c] \o draft[c]) = Len(snapshot[j])
      <4> DEFINE p == Page(snapshot[j], Len(read[c]))
      <4>1. draft[c] = p
        BY <1>3, <2>1
      <4>2. /\ read[c] \o p \in Seq(Items) /\ Prefix(read[c] \o p, snapshot[j])
            /\ Len(p) # PageSize \/ Len(read[c]) = Len(snapshot[j]) =>
                 Len(read[c] \o p) = Len(snapshot[j])
        BY <1>3, ReadOn
      <4> QED BY <4>1, <4>2
    <3>3. /\ read \in [Calls -> Seq(Items)] /\ more \in [Calls -> BOOLEAN]
      BY DEF IInv, TypeOK
    <3>4. /\ read' = [read EXCEPT ![c] = read[c] \o draft[c]]
          /\ read'[c] = read[c] \o draft[c]
      BY <3>1, <3>3
    <3>5. CASE more' = [more EXCEPT ![c] = Len(draft[c]) = PageSize]
      <4>1. more'[c] = (Len(draft[c]) = PageSize)
        BY <3>3, <3>5
      <4> QED BY <2>1, <3>2, <3>3, <3>4, <3>5, <4>1
    <3>6. CASE UNCHANGED more
      <4>1. ~more[c] => Len(read[c]) = Len(snapshot[j])
        BY <1>1 DEF CallInv, Reading
      <4>2. ~more[c] => Len(read[c] \o draft[c]) = Len(snapshot[j])
        BY <3>2, <4>1
      <4> QED BY <2>1, <3>2, <3>3, <3>4, <3>6, <4>2
    <3> QED BY <3>1, <3>5, <3>6
  <2>2. CASE op[c] # "page"
    BY <1>1, <1>3, <2>2 DEF Answer, IInv, TypeOK, CallInv, Reading
  <2> QED BY <2>1, <2>2
<1>5. TypeOK'
  BY <1>1, <1>2, <1>4 DEF IInv, TypeOK, Diagnosed
<1>6. /\ Placed(c)' /\ Holds(c)' /\ Knows(c)' /\ Vouched(c)' /\ Told(c)'
      /\ Drafting(c)' /\ ~Creating(c)'
  BY <1>1, <1>2, <1>3
  DEF CallInv, Placed, Holds, Knows, Vouched, Told, Drafting, Creating, Ops, Ids
<1>7. Reading(c)'
  <2>1. Prefix(read[c], snapshot[target[c]])'
    BY <1>1, <1>2, <1>4 DEF Prefix
  <2>2. c \in Clients \/ j = NoJob => read'[c] = <<>> /\ more'[c]
    BY <1>1, <1>3, <1>4, CallAssumption DEF CallInv, Reading
  <2>3. ~more'[c] => status[j] # "absent"
    BY <1>1, <1>3, <1>4 DEF CallInv, Reading
  <2> QED BY <1>1, <1>2, <1>4, <2>1, <2>2, <2>3 DEF Reading
<1>8. ApartWork(c)
  BY <1>2, <1>4 DEF ApartWork, IInv, TypeOK
<1> QED BY <1>1, <1>2, <1>5, <1>6, <1>7, <1>8, QuietKeeps DEF CallInv

LEMMA FailStep ==
  ASSUME IInv, NEW c \in Calls, Fail(c)
  PROVE  IInv'
<1>1. /\ Reply(c, "error") /\ "error" \in Kinds \ {"ok", "none"}
      /\ UNCHANGED <<accessVars, requestVars, jobVars, diagVars, earlier, named, read,
                     more, seen>>
      /\ draft' = [draft EXCEPT ![c] = <<>>] /\ <<>> \in Seq(Items)
      /\ faults' \in 0..MaxFaults
  BY FaultTypes DEF Fail, CallFails, Discard, Kinds, IInv, TypeOK, CallTypeOK
<1>2. seen' \in [Calls -> States] /\ OwnDraft(c)
  BY <1>1 DEF IInv, TypeOK, OwnDraft
<1> QED BY <1>1, <1>2, ReplyKeeps

\* A worker that starts over has read nothing.
LEMMA RestartStep ==
  ASSUME IInv, NEW c \in Workers, WorkerRestarts(c)
  PROVE  IInv'
<1>1. /\ c \in Calls /\ pc[c] = "idle" /\ CallInv(c)
      /\ answer' = [answer EXCEPT ![c] = "error"]
      /\ read' = [read EXCEPT ![c] = <<>>] /\ <<>> \in Seq(Items)
      /\ more' = [more EXCEPT ![c] = TRUE]
      /\ faults' \in 0..MaxFaults /\ "error" \in Kinds
  BY FaultTypes DEF WorkerRestarts, Calls, Kinds, IInv, TypeOK, CallTypeOK
<1>2. /\ UNCHANGED <<active, members, jobLock, share, op, target, asserted, pc>>
      /\ UNCHANGED <<jobVars, draft, earlier, named, seen>> /\ Diagnosed
      /\ UNCHANGED <<status, scope, snapshot, artifact, events, mails>>
  BY DEF WorkerRestarts, accessVars, lockVars, requestVars, jobVars, diagVars,
         Diagnosed
<1>3. TypeOK'
  BY <1>1, <1>2 DEF IInv, TypeOK, CallTypeOK, Diagnosed
<1>4. /\ answer'[c] = "error" /\ read'[c] = <<>> /\ more'[c] = TRUE
      /\ \A b \in Calls \ {c} : /\ answer'[b] = answer[b] /\ read'[b] = read[b]
                                /\ more'[b] = more[b]
  BY <1>1 DEF IInv, TypeOK, CallTypeOK
<1>5. Apart(c) /\ ApartWork(c)
  BY <1>2, <1>4 DEF Apart, ApartWork
<1>6. /\ Placed(c)' /\ Holds(c)' /\ Knows(c)' /\ Vouched(c)' /\ Told(c)'
      /\ Drafting(c)' /\ ~Creating(c)'
  BY <1>1, <1>2, <1>4
  DEF CallInv, Placed, Holds, Knows, Vouched, Told, Drafting, Creating, Ops
<1>7. Reading(c)'
  <2>1. target[c] \in Jobs => snapshot[target[c]] \in Seq(Items)
    BY DEF IInv, TypeOK
  <2> QED BY <1>1, <1>2, <1>4, <2>1 DEF Reading, Prefix
<1> QED BY <1>1, <1>2, <1>3, <1>5, <1>6, <1>7, QuietKeeps DEF CallInv

LEMMA AccessStep ==
  ASSUME IInv, ChangeAccess, UNCHANGED <<jobVars, diagVars, workVars>>
  PROVE  IInv'
<1>1. /\ CallTypeOK(Labels, Ops)'
      /\ UNCHANGED <<jobLock, share, pc, op, target, asserted, answer>>
      /\ UNCHANGED <<status, scope, snapshot, artifact, events, mails>>
      /\ UNCHANGED <<draft, earlier, named, read, more, seen>> /\ Diagnosed
      /\ \A c \in Calls, s \in Scopes :
           c \in share[s] /\ Authorized(s) => Authorized(s)'
  BY AccessKeeps DEF IInv, TypeOK, jobVars, diagVars, workVars, Diagnosed
<1>2. TypeOK' /\ Alone' /\ Finished' /\ \A j \in Jobs : RowInv(j)'
  BY <1>1 DEF IInv, TypeOK, Alone, Creating, Finished, Diagnosed, RowInv, Sound
<1>3. ASSUME NEW c \in Calls PROVE CallInv(c)'
  <2>1. CallInv(c)
    BY DEF IInv
  <2>2. Placed(c)' /\ Holds(c)' /\ Knows(c)' /\ Told(c)'
    BY <1>1, <2>1 DEF CallInv, Placed, Holds, Knows, Told, Ids
  <2>3. Vouched(c)'
    <3> SUFFICES ASSUME pc[c] = "commit", op[c] = "complete" PROVE Vouched(c)'
      BY <1>1 DEF Vouched
    <3>1. scope[target[c]] \in Scopes
      BY <2>1 DEF CallInv, Placed, Knows, IInv, RowInv
    <3> QED BY <1>1, <2>1, <3>1 DEF CallInv, Vouched
  <2>4. Drafting(c)'
    BY <1>1, <2>1 DEF CallInv, Drafting, Diagnosed, History, Sound, Ids
  <2>5. Reading(c)'
    BY <1>1, <2>1 DEF CallInv, Reading, Prefix, Page
  <2> QED BY <2>2, <2>3, <2>4, <2>5 DEF CallInv
<1> QED BY <1>2, <1>3 DEF IInv

\* A diagnostic that goes on is one the snapshots were taken without.
LEMMA DiagnosticKeeps ==
  ASSUME IInv, DiagnosticStep
  PROVE  IInv'
<1>1. /\ UNCHANGED <<callVars, jobVars, workVars>>
      /\ UNCHANGED <<active, members, jobLock, share, pc, op, target, asserted,
                     answer, faults>>
      /\ UNCHANGED <<status, scope, snapshot, artifact, events, mails>>
      /\ UNCHANGED <<draft, earlier, named, read, more, seen>>
  BY DEF DiagnosticStep, callVars, accessVars, lockVars, requestVars, jobVars,
         workVars
<1>2. PICK d \in Diags :
        \/ Diagnostics!Request(d) \/ Diagnostics!Claim(d)
        \/ \E r \in DiagResults : Diagnostics!Complete(d, r)
  BY DEF DiagnosticStep, Diagnostics!Next
<1>3. /\ dstate \in [Diags -> States] /\ dresult \in [Diags -> DiagResults \cup {NoResult}]
      /\ \A e \in Diags : dstate[e] = "completed" <=> dresult[e] # NoResult
  BY DEF IInv, TypeOK, Finished
<1>4. /\ dstate' \in [Diags -> States] /\ dresult' \in [Diags -> DiagResults \cup {NoResult}]
      /\ Finished'
      /\ \A e \in Diags : dstate[e] # "absent" => dstate'[e] # "absent"
  <2>1. CASE Diagnostics!Request(d)
    BY <1>3, <2>1 DEF Diagnostics!Request, States, Finished
  <2>2. CASE Diagnostics!Claim(d)
    BY <1>3, <2>2 DEF Diagnostics!Claim, States, Finished
  <2>3. ASSUME NEW r \in DiagResults, Diagnostics!Complete(d, r)
        PROVE  /\ dstate' \in [Diags -> States]
               /\ dresult' \in [Diags -> DiagResults \cup {NoResult}]
               /\ Finished'
               /\ \A e \in Diags : dstate[e] # "absent" => dstate'[e] # "absent"
    BY <1>3, <2>3, DiagAssumption DEF Diagnostics!Complete, States, Finished
  <2> QED BY <1>2, <2>1, <2>2, <2>3
<1>5. TypeOK' /\ Alone' /\ \A j \in Jobs : RowInv(j)'
  BY <1>1, <1>4 DEF IInv, TypeOK, CallTypeOK, Alone, Creating, RowInv, Sound
<1>6. ASSUME NEW c \in Calls PROVE CallInv(c)'
  <2>1. CallInv(c)
    BY DEF IInv
  <2>2. Placed(c)' /\ Holds(c)' /\ Knows(c)' /\ Vouched(c)' /\ Told(c)'
    BY <1>1, <2>1
    DEF CallInv, Placed, Holds, Knows, Vouched, Authorized, Told, Ids
  <2>3. Drafting(c)'
    <3>1. \A o : History(o) \in SUBSET History(o)'
      BY <1>4 DEF History
    <3>2. op[c] = "create" =>
            /\ pc[c] \notin {"idle", "respond"} => earlier[c] \subseteq History(asserted[c][2])
            /\ pc[c] = "commit" => /\ Sound(draft[c], asserted[c][2])'
                                   /\ (earlier[c] \subseteq Ids(draft[c]))'
      BY <1>1, <2>1 DEF CallInv, Drafting, Sound, Ids
    <3> QED BY <1>1, <3>1, <3>2 DEF Drafting
  <2>4. Reading(c)'
    BY <1>1, <2>1 DEF CallInv, Reading, Prefix, Page
  <2> QED BY <2>2, <2>3, <2>4 DEF CallInv
<1> QED BY <1>4, <1>5, <1>6 DEF IInv

(* The commits *)

\* What a worker stores under a job is an object under the job's own key.
LEMMA StoredObject ==
  ASSUME IInv, NEW c \in Calls, pc[c] = "commit", op[c] = "complete"
  PROVE  [key |-> named[c][2], object |-> read[c]] \in Artifacts
<1> DEFINE rows == snapshot[target[c]]
<1>1. /\ target[c] \in Jobs /\ status[target[c]] = "claimed"
      /\ named[c][2] = target[c] /\ Prefix(read[c], rows)
      /\ read[c] \in Seq(Items) /\ rows \in Seq(Items)
  BY DEF IInv, TypeOK, CallInv, Placed, Knows, Reading
<1>2. Len(rows) <= Cardinality(Diags) /\ Cardinality(Diags) \in Nat
  BY <1>1, DiagAssumption, FS_CardinalityType DEF IInv, RowInv, Sound
<1>3. Len(read[c]) \in 0..Cardinality(Diags)
  BY <1>1, <1>2 DEF Prefix
<1>4. read[c] \in [1..Len(read[c]) -> Items]
  BY <1>1
<1> QED BY <1>1, <1>3, <1>4 DEF Artifacts, Objects

\* A commit moves its own job, from the status its operation starts from.
LEMMA ApplyFacts ==
  ASSUME IInv, NEW c \in Calls, pc[c] = "commit", Apply(c)
  PROVE  /\ target[c] \in Jobs /\ op[c] \in {"create", "claim", "complete"}
         /\ op[c] = "create" =>
              /\ status[target[c]] = "absent" /\ asserted[c] \in Scopes
              /\ status' = [status EXCEPT ![target[c]] = "pending"]
              /\ scope' = [scope EXCEPT ![target[c]] = asserted[c]]
              /\ snapshot' = [snapshot EXCEPT ![target[c]] = draft[c]]
              /\ UNCHANGED <<artifact, mails>>
         /\ op[c] = "claim" =>
              /\ status[target[c]] = "pending"
              /\ status' = [status EXCEPT ![target[c]] = "claimed"]
              /\ UNCHANGED <<scope, snapshot, artifact, events, mails>>
         /\ op[c] = "complete" =>
              /\ status[target[c]] = "claimed"
              /\ status' = [status EXCEPT ![target[c]] = "completed"]
              /\ artifact' = [artifact EXCEPT ![target[c]] =
                                [key |-> named[c][2], object |-> read[c]]]
              /\ UNCHANGED <<scope, snapshot>>
<1>1. CallInv(c)
  BY DEF IInv
<1> QED BY <1>1 DEF CallInv, Placed, Knows, Apply

\* The rows that come with a completion are the job's first.
LEMMA CompletionRows ==
  ASSUME IInv, NEW c \in Calls, pc[c] = "commit", Apply(c), op[c] = "complete"
  PROVE  /\ events' = [events EXCEPT !["completed"][target[c]] = 1,
                                      !["email"][target[c]] = 1]
         /\ mails' = [mails EXCEPT ![target[c]] = 1]
<1> DEFINE j == target[c]
<1>1. /\ j \in Jobs /\ status[j] = "claimed" /\ RowInv(j)
      /\ events \in [Types -> [Jobs -> 0..1]] /\ mails \in [Jobs -> 0..1]
      /\ events' = [events EXCEPT !["completed"][j] = @ + 1, !["email"][j] = @ + 1]
      /\ mails' = [mails EXCEPT ![j] = @ + 1]
  BY ApplyFacts DEF IInv, TypeOK, Apply
<1>2. events["completed"][j] = 0 /\ events["email"][j] = 0 /\ mails[j] = 0
  BY <1>1 DEF RowInv
<1> HIDE DEF j
<1>3. /\ events' = [events EXCEPT !["completed"][j] = 1, !["email"][j] = 1]
      /\ mails' = [mails EXCEPT ![j] = 1]
  BY <1>1, <1>2 DEF Types
<1> QED BY <1>3 DEF j

\* The rows of a job appear together, each of them once.
LEMMA ApplyRows ==
  ASSUME IInv, NEW c \in Calls, pc[c] = "commit", Apply(c)
  PROVE  /\ status' \in [Jobs -> States]
         /\ scope' \in [Jobs -> Scopes \cup {NoScope}]
         /\ snapshot' \in [Jobs -> Seq(Items)]
         /\ artifact' \in [Jobs -> Artifact]
         /\ events' \in [Types -> [Jobs -> 0..1]]
         /\ mails' \in [Jobs -> 0..1]
         /\ \A j \in Jobs : RowInv(j)'
<1> DEFINE j == target[c]
<1>1. /\ j \in Jobs /\ op[c] \in {"create", "claim", "complete"}
      /\ RowInv(j) /\ \A k \in Jobs : RowInv(k)
      /\ status \in [Jobs -> States] /\ scope \in [Jobs -> Scopes \cup {NoScope}]
      /\ snapshot \in [Jobs -> Seq(Items)] /\ artifact \in [Jobs -> Artifact]
      /\ events \in [Types -> [Jobs -> 0..1]] /\ mails \in [Jobs -> 0..1]
      /\ draft[c] \in Seq(Items)
  BY ApplyFacts DEF IInv, TypeOK
<1>2. CASE op[c] = "create"
  <2>1. /\ status[j] = "absent" /\ asserted[c] \in Scopes
        /\ status' = [status EXCEPT ![j] = "pending"]
        /\ scope' = [scope EXCEPT ![j] = asserted[c]]
        /\ snapshot' = [snapshot EXCEPT ![j] = draft[c]]
        /\ UNCHANGED <<artifact, mails>>
        /\ events' = [events EXCEPT !["requested"][j] = @ + 1]
    BY <1>2, ApplyFacts DEF Apply
  <2>2. events["requested"][j] = 0
    BY <1>1, <2>1 DEF RowInv
  <2>3. events' = [events EXCEPT !["requested"][j] = 1]
    BY <2>1, <2>2
  <2>4. Sound(draft[c], asserted[c][2])
    BY <1>2 DEF IInv, CallInv, Drafting
  <2>5. ASSUME NEW k \in Jobs, k = j PROVE RowInv(k)'
    <3>1. status'[k] = "pending" /\ scope'[k] = asserted[c] /\ snapshot'[k] = draft[c]
      BY <1>1, <2>1, <2>5
    <3>2. Sound(snapshot[k], scope[k][2])'
      BY <2>4, <3>1 DEF Sound
    <3>3. /\ events'["requested"][k] = 1 /\ mails'[k] = mails[k]
          /\ \A t \in {"completed", "email"} : events'[t][k] = events[t][k]
      BY <1>1, <2>1, <2>3, <2>5 DEF Types
    <3>4. mails[k] = 0 /\ \A t \in {"completed", "email"} : events[t][k] = 0
      BY <1>1, <2>1, <2>5 DEF RowInv
    <3> QED BY <2>1, <3>1, <3>2, <3>3, <3>4 DEF RowInv
  <2>6. ASSUME NEW k \in Jobs \ {j} PROVE RowInv(k)'
    BY <1>1, <2>1, <2>3 DEF RowInv, Types, Sound
  <2>7. /\ status' \in [Jobs -> States] /\ scope' \in [Jobs -> Scopes \cup {NoScope}]
        /\ snapshot' \in [Jobs -> Seq(Items)]
    BY <1>1, <2>1 DEF States
  <2>8. /\ events' \in [Types -> [Jobs -> 0..1]] /\ mails' = mails /\ artifact' = artifact
    BY <1>1, <2>1, <2>3 DEF Types
  <2>9. ASSUME NEW k \in Jobs PROVE RowInv(k)'
    BY <2>5, <2>6
  <2> QED BY <1>1, <2>7, <2>8, <2>9
<1>3. CASE op[c] = "claim"
  <2>1. /\ status[j] = "pending" /\ status' = [status EXCEPT ![j] = "claimed"]
        /\ UNCHANGED <<scope, snapshot, artifact, events, mails>>
    BY <1>3, ApplyFacts
  <2> QED BY <1>1, <2>1 DEF RowInv, Sound, States
<1>4. CASE op[c] = "complete"
  <2>1. /\ status[j] = "claimed"
        /\ status' = [status EXCEPT ![j] = "completed"]
        /\ artifact' = [artifact EXCEPT ![j] = [key |-> named[c][2],
                                                object |-> read[c]]]
        /\ UNCHANGED <<scope, snapshot>>
    BY <1>4, ApplyFacts
  <2>3. /\ events' = [events EXCEPT !["completed"][j] = 1, !["email"][j] = 1]
        /\ mails' = [mails EXCEPT ![j] = 1]
    BY <1>4, CompletionRows
  <2>4. [key |-> named[c][2], object |-> read[c]] \in Artifact
    BY <1>4, StoredObject DEF Artifact
  <2>5. artifact' \in [Jobs -> Artifact]
    BY <1>1, <2>1, <2>4
  <2>6. ASSUME NEW k \in Jobs PROVE RowInv(k)'
    <3>1. Sound(snapshot[k], scope[k][2])' <=> Sound(snapshot[k], scope[k][2])
      BY <2>1 DEF Sound
    <3>2. status'[k] = IF k = j THEN "completed" ELSE status[k]
      BY <1>1, <2>1
    <3>3. mails'[k] = IF k = j THEN 1 ELSE mails[k]
      BY <1>1, <2>3
    <3>4. /\ events'["requested"][k] = events["requested"][k]
          /\ events'["completed"][k] = IF k = j THEN 1 ELSE events["completed"][k]
          /\ events'["email"][k] = IF k = j THEN 1 ELSE events["email"][k]
      BY <1>1, <2>3 DEF Types
    <3> QED BY <1>1, <2>1, <3>1, <3>2, <3>3, <3>4 DEF RowInv
  <2>7. /\ status' \in [Jobs -> States] /\ scope' \in [Jobs -> Scopes \cup {NoScope}]
        /\ snapshot' \in [Jobs -> Seq(Items)]
    BY <1>1, <2>1 DEF States
  <2>8. events' \in [Types -> [Jobs -> 0..1]]
    <3>1. [events["completed"] EXCEPT ![j] = 1] \in [Jobs -> 0..1]
      BY <1>1 DEF Types
    <3>2. [events["email"] EXCEPT ![j] = 1] \in [Jobs -> 0..1]
      BY <1>1 DEF Types
    <3> QED BY <1>1, <2>3, <3>1, <3>2 DEF Types
  <2>9. mails' \in [Jobs -> 0..1]
    BY <1>1, <2>3
  <2> QED BY <2>5, <2>6, <2>7, <2>8, <2>9
<1> QED BY <1>1, <1>2, <1>3, <1>4

\* Whatever the other calls know stands: who would know otherwise holds the
\* same job, or creates it, or has read nothing.
LEMMA ApplyOthers ==
  ASSUME IInv, NEW c \in Calls, pc[c] = "commit", Apply(c), Apart(c), ApartWork(c),
         Diagnosed, UNCHANGED <<active, members>>, NEW b \in Calls \ {c}
  PROVE  CallInv(b)'
<1> DEFINE j == target[c]
<1>1. /\ pc'[b] = pc[b] /\ op'[b] = op[b] /\ target'[b] = target[b]
      /\ asserted'[b] = asserted[b] /\ answer'[b] = answer[b]
      /\ draft'[b] = draft[b] /\ earlier'[b] = earlier[b]
      /\ named'[b] = named[b] /\ read'[b] = read[b] /\ more'[b] = more[b]
  BY DEF Apart, ApartWork
<1>2. /\ CallInv(b) /\ CallInv(c) /\ j \in Jobs
      /\ op[c] \in {"create", "claim", "complete"}
      /\ status \in [Jobs -> States] /\ scope \in [Jobs -> Scopes \cup {NoScope}]
      /\ snapshot \in [Jobs -> Seq(Items)] /\ draft[c] \in Seq(Items)
      /\ read[b] \in Seq(Items)
  BY ApplyFacts DEF IInv, TypeOK
<1>3. Placed(b)' /\ Holds(b)'
  BY <1>1, <1>2 DEF CallInv, Placed, Holds, Apart
<1>4. /\ status'[j] \in {"pending", "claimed", "completed"} /\ status'[j] # status[j]
      /\ \A k \in Jobs \ {j} : /\ status'[k] = status[k] /\ scope'[k] = scope[k]
                               /\ snapshot'[k] = snapshot[k]
      /\ status[j] # "absent" => scope'[j] = scope[j] /\ snapshot'[j] = snapshot[j]
      /\ status[j] \in {"absent", "pending", "claimed"}
      /\ snapshot'[j] \in Seq(Items)
  <2>1. CASE op[c] = "create"
    <3>1. /\ status[j] = "absent" /\ asserted[c] \in Scopes
          /\ status' = [status EXCEPT ![j] = "pending"]
          /\ scope' = [scope EXCEPT ![j] = asserted[c]]
          /\ snapshot' = [snapshot EXCEPT ![j] = draft[c]]
      BY <2>1, ApplyFacts
    <3> QED BY <1>2, <3>1
  <2>2. CASE op[c] = "claim"
    <3>1. /\ status[j] = "pending" /\ UNCHANGED <<scope, snapshot>>
          /\ status' = [status EXCEPT ![j] = "claimed"]
      BY <2>2, ApplyFacts
    <3> QED BY <1>2, <3>1
  <2>3. CASE op[c] = "complete"
    <3>1. /\ status[j] = "claimed" /\ UNCHANGED <<scope, snapshot>>
          /\ status' = [status EXCEPT ![j] = "completed"]
      BY <2>3, ApplyFacts
    <3> QED BY <1>2, <3>1
  <2> QED BY <1>2, <2>1, <2>2, <2>3
<1>5. ASSUME pc[b] \notin {"idle", "respond"}, op[b] \in {"create", "claim", "complete"},
             target[b] = j, pc[b] \in {"recipient", "commit"} \/ op[b] = "create"
      PROVE  FALSE
  <2>1. CASE op[c] = "create"
    BY <1>2, <1>5, <2>1, ApplyFacts
    DEF CallInv, Knows, Placed, IInv, Alone, Creating
  <2>2. CASE op[c] # "create"
    BY <1>2, <1>5, <2>2, ApplyFacts DEF CallInv, Knows, Holds, Placed
  <2> QED BY <2>1, <2>2
<1>6. Knows(b)' /\ Vouched(b)'
  <2>1. CASE target[b] = j
    BY <1>1, <1>2, <1>5, <2>1 DEF CallInv, Knows, Vouched, Placed
  <2>2. CASE target[b] # j /\ target[b] \in Jobs
    <3>1. Knows(b)'
      BY <1>1, <1>2, <1>4, <2>2 DEF CallInv, Knows
    <3>2. Vouched(b)'
      <4> SUFFICES ASSUME pc[b] = "commit", op[b] = "complete" PROVE Vouched(b)'
        BY <1>1 DEF Vouched
      <4>1. status[target[b]] = "claimed" /\ scope[target[b]] \in Scopes
        BY <1>2, <2>2 DEF CallInv, Knows, IInv, RowInv
      <4> QED BY <1>1, <1>2, <1>4, <2>2, <4>1
              DEF CallInv, Vouched, Apart, Authorized
    <3> QED BY <3>1, <3>2
  <2>3. CASE target[b] \notin Jobs
    BY <1>1, <1>2, <2>3 DEF CallInv, Placed, Knows, Vouched
  <2> QED BY <2>1, <2>2, <2>3
<1>7. Told(b)'
  <2> SUFFICES ASSUME pc[b] = "respond" \/ answer[b] = "ok" PROVE Told(b)'
    BY <1>1 DEF Told
  <2>1. target[b] \in Jobs
    BY <1>2 DEF CallInv, Placed
  <2>2. op[b] \in {"create", "get"} =>
          /\ status[target[b]] # "absent" /\ status'[target[b]] # "absent"
          /\ scope'[target[b]] = scope[target[b]]
          /\ snapshot'[target[b]] = snapshot[target[b]]
    BY <1>2, <1>4, <2>1 DEF CallInv, Told
  <2>3. CASE op[b] = "create"
    <3>1. /\ scope[target[b]] = asserted[b]
          /\ earlier[b] \subseteq Ids(snapshot[target[b]])
      BY <1>2, <2>3 DEF CallInv, Told
    <3>2. (earlier[b] \subseteq Ids(snapshot[target[b]]))'
      BY <1>1, <2>2, <2>3, <3>1 DEF Ids
    <3> QED BY <1>1, <2>2, <2>3, <3>1, <3>2 DEF Told
  <2>4. CASE op[b] = "get"
    <3>1. scope[target[b]][2] = asserted[b][2]
      BY <1>2, <2>4 DEF CallInv, Told
    <3> QED BY <1>1, <2>2, <2>4, <3>1 DEF Told
  <2>5. CASE op[b] \notin {"create", "get"}
    BY <1>1, <2>5 DEF Told
  <2> QED BY <2>3, <2>4, <2>5
<1>8. Drafting(b)'
  BY <1>1, <1>2 DEF CallInv, Drafting, Diagnosed, History, Sound, Ids
<1>9. Reading(b)'
  <2>1. CASE target[b] \in Jobs /\ (target[b] # j \/ status[j] # "absent")
    <3>1. /\ snapshot'[target[b]] = snapshot[target[b]]
          /\ status[target[b]] # "absent" => status'[target[b]] # "absent"
      BY <1>4, <2>1
    <3>2. Reading(b)
      BY <1>2 DEF CallInv
    <3>3. Prefix(read[b], snapshot[target[b]])'
      BY <1>1, <2>1, <3>1, <3>2 DEF Reading, Prefix
    <3>4. Page(snapshot[target[b]], Len(read[b]))' = Page(snapshot[target[b]], Len(read[b]))
      BY <1>1, <3>1 DEF Page
    <3> QED BY <1>1, <2>1, <3>1, <3>2, <3>3, <3>4 DEF Reading
  <2>2. CASE target[b] = j /\ status[j] = "absent"
    <3>1. snapshot[j] = <<>>
      BY <1>2, <2>2 DEF IInv, RowInv
    <3>2. Len(read[b]) = 0 /\ more[b] /\ ~(pc[b] = "respond" /\ op[b] = "page")
      BY <1>2, <2>2, <3>1 DEF CallInv, Reading, Prefix, IInv, TypeOK
    <3> QED BY <1>1, <1>2, <1>4, <2>2, <3>2 DEF CallInv, Reading, Prefix
  <2>3. CASE target[b] \notin Jobs
    <3>1. target[b] = NoJob /\ pc[b] = "idle"
      BY <1>2, <2>3 DEF IInv, TypeOK, CallTypeOK, CallInv, Placed
    <3> QED BY <1>1, <1>2, <2>3, <3>1 DEF CallInv, Reading
  <2> QED BY <2>1, <2>2, <2>3
<1> QED BY <1>3, <1>6, <1>7, <1>8, <1>9 DEF CallInv

LEMMA CommitStep ==
  ASSUME IInv, NEW c \in Calls, Commit(c) \/ CommitAckLost(c)
  PROVE  IInv'
<1>1. /\ pc[c] = "commit" /\ Apply(c) /\ CallInv(c) /\ answer[c] = "none"
      /\ UNCHANGED <<active, members, op, target, asserted>>
      /\ UNCHANGED <<earlier, named, read, more, seen>> /\ Diagnosed
      /\ draft' = [draft EXCEPT ![c] = <<>>] /\ <<>> \in Seq(Items)
  BY DEF Commit, CommitAckLost, Discard, accessVars, requestVars, diagVars, Diagnosed,
         IInv, CallInv, Placed
<1>2. /\ CallTypeOK(Labels, Ops)' /\ Apart(c)
      /\ \/ pc'[c] = "respond" /\ answer'[c] = "none"
         \/ pc'[c] = "idle" /\ answer'[c] = "error"
  <2>1. CASE Commit(c)
    <3>1. Unlock(c) /\ UNCHANGED <<answer, faults>> /\ "respond" \in Labels
          /\ pc' = [pc EXCEPT ![c] = "respond"]
      BY <2>1 DEF Commit, Goto, Labels
    <3>2. CallTypeOK(Labels, Ops)
      BY DEF IInv, TypeOK
    <3> QED BY <1>1, <3>1, <3>2, UnlockTypes DEF CallTypeOK, Apart
  <2>2. CASE CommitAckLost(c)
    <3>1. /\ Reply(c, "error") /\ UNCHANGED <<accessVars, requestVars>>
          /\ faults' \in 0..MaxFaults /\ "error" \in Kinds
          /\ CallTypeOK(Labels, Ops)
      BY <2>2, FaultTypes DEF CommitAckLost, IInv, TypeOK, CallTypeOK, Kinds
    <3> QED BY <3>1, ReplyMoves, LabelFacts DEF At
  <2> QED BY <2>1, <2>2
<1>3. draft' \in [Calls -> Seq(Items)] /\ ApartWork(c)
  BY <1>1 DEF IInv, TypeOK, ApartWork
<1>4. TypeOK' /\ \A j \in Jobs : RowInv(j)'
  BY <1>1, <1>2, <1>3, ApplyRows DEF IInv, TypeOK, Diagnosed
<1>5. \A b \in Calls \ {c} : CallInv(b)'
  BY <1>1, <1>2, <1>3, ApplyOthers
<1>6. CallInv(c)'
  <2>1. target[c] \in Jobs /\ op[c] \in {"create", "claim", "complete"}
    BY <1>1, ApplyFacts
  <2>2. Placed(c)' /\ Holds(c)' /\ Knows(c)' /\ Vouched(c)' /\ Drafting(c)'
    BY <1>1, <1>2 DEF CallInv, Placed, Holds, Knows, Vouched, Drafting, Ops
  <2>3. Told(c)'
    <3> SUFFICES ASSUME op[c] = "create" PROVE Told(c)'
      BY <1>1, <2>1 DEF Told
    <3>1. /\ status'[target[c]] = "pending" /\ scope'[target[c]] = asserted[c]
          /\ snapshot'[target[c]] = draft[c]
      BY <1>1, <2>1, ApplyFacts DEF IInv, TypeOK, CallTypeOK
    <3>2. earlier[c] \subseteq Ids(draft[c])
      BY <1>1 DEF CallInv, Drafting
    <3>3. (earlier[c] \subseteq Ids(snapshot[target[c]]))'
      BY <1>1, <3>1, <3>2 DEF Ids
    <3> QED BY <1>1, <3>1, <3>3 DEF Told
  <2>4. Reading(c)'
    <3>1. CASE op[c] = "create"
      <4>1. status[target[c]] = "absent" /\ c \in Clients
        BY <1>1, <3>1, ApplyFacts DEF CallInv, Placed
      <4>2. read[c] = <<>> /\ more[c]
        BY <1>1, <4>1 DEF CallInv, Reading
      <4>3. snapshot'[target[c]] \in Seq(Items)
        BY <1>4, <2>1 DEF TypeOK
      <4> QED BY <1>1, <1>2, <2>1, <3>1, <4>2, <4>3 DEF CallInv, Reading, Prefix
    <3>2. CASE op[c] # "create"
      <4>1. /\ snapshot' = snapshot /\ status'[target[c]] # "absent"
        <5>1. pc[c] = "commit" /\ Apply(c) /\ status \in [Jobs -> States]
          BY <1>1 DEF IInv, TypeOK
        <5>2. CASE op[c] = "claim"
          <6>1. /\ snapshot' = snapshot
                /\ status' = [status EXCEPT ![target[c]] = "claimed"]
            BY <5>1, <5>2, ApplyFacts
          <6> QED BY <2>1, <5>1, <6>1
        <5>3. CASE op[c] = "complete"
          <6>1. /\ snapshot' = snapshot
                /\ status' = [status EXCEPT ![target[c]] = "completed"]
            BY <5>1, <5>3, ApplyFacts
          <6> QED BY <2>1, <5>1, <6>1
        <5> QED BY <2>1, <3>2, <5>2, <5>3
      <4> QED BY <1>1, <1>2, <2>1, <3>2, <4>1 DEF CallInv, Reading, Prefix
    <3> QED BY <3>1, <3>2
  <2> QED BY <2>2, <2>3, <2>4 DEF CallInv
<1>7. Alone'
  BY <1>1, <1>2 DEF IInv, Alone, Creating, Apart
<1>8. Finished'
  BY <1>1 DEF IInv, Finished, Diagnosed
<1>9. \A b \in Calls : CallInv(b)'
  BY <1>5, <1>6
<1> QED BY <1>4, <1>7, <1>8, <1>9 DEF IInv

LEMMA StutterStep == IInv /\ UNCHANGED vars => IInv'
<1> SUFFICES ASSUME IInv, UNCHANGED vars PROVE IInv'
  OBVIOUS
<1>1. /\ UNCHANGED <<active, members, jobLock, share, pc, op, target, asserted,
                     answer, faults>>
      /\ UNCHANGED <<status, scope, snapshot, artifact, events, mails>>
      /\ UNCHANGED <<dstate, dresult, draft, earlier, named, read, more, seen>>
  BY DEF vars, callVars, accessVars, lockVars, requestVars, jobVars, diagVars,
         workVars
<1>2. TypeOK' /\ Alone' /\ Finished' /\ \A j \in Jobs : RowInv(j)'
  BY <1>1 DEF IInv, TypeOK, CallTypeOK, Alone, Creating, Finished, RowInv, Sound
<1>3. ASSUME NEW c \in Calls PROVE CallInv(c)'
  <2>1. CallInv(c)
    BY DEF IInv
  <2>2. Placed(c)' /\ Holds(c)' /\ Knows(c)' /\ Vouched(c)' /\ Told(c)'
    BY <1>1, <2>1 DEF CallInv, Placed, Holds, Knows, Vouched, Authorized, Told, Ids
  <2>3. Drafting(c)'
    BY <1>1, <2>1 DEF CallInv, Drafting, History, Sound, Ids
  <2>4. Reading(c)'
    BY <1>1, <2>1 DEF CallInv, Reading, Prefix, Page
  <2> QED BY <2>2, <2>3, <2>4 DEF CallInv
<1> QED BY <1>2, <1>3 DEF IInv

LEMMA NextIInv == IInv /\ [Next]_vars => IInv'
<1> SUFFICES ASSUME IInv, [Next]_vars PROVE IInv'
  OBVIOUS
<1>1. CASE \E c \in Clients, o \in {"create", "get"}, s \in Scopes, j \in Jobs :
             Ask(c, o, s, j)
  BY <1>1, AskStep
<1>2. CASE \E c \in Workers : Request(c) \/ WorkerRestarts(c)
  BY <1>2, RequestStep, RestartStep
<1>3. CASE \E c \in Calls : Serve(c)
  BY <1>3, ContextStep, CreateStep, ReadStep, RecipientStep, AnswerStep, CommitStep
  DEF Serve
<1>4. CASE \E c \in Calls : Lock(c) \/ CommitAckLost(c) \/ Fail(c)
  BY <1>4, LockStep, CommitStep, FailStep
<1>5. CASE ChangeAccess /\ UNCHANGED <<jobVars, diagVars, workVars>>
  BY <1>5, AccessStep
<1>6. CASE DiagnosticStep
  BY <1>6, DiagnosticKeeps
<1>7. CASE UNCHANGED vars
  BY <1>7, StutterStep
<1> QED BY <1>1, <1>2, <1>3, <1>4, <1>5, <1>6, <1>7 DEF Next

(* The invariant holds of every reachable state. *)
THEOREM Invariant == Spec => []IInv
  BY InitIInv, NextIInv, PTL DEF Spec

(* A client is answered about jobs of the organization it asked for, only. *)
THEOREM InTenant == Spec => []AnswersStayInTenant
<1>1. ASSUME IInv, NEW c \in Clients, answer[c] = "ok"
      PROVE  scope[target[c]][2] = asserted[c][2]
  <2>1. CallInv(c) /\ c \in Calls
    BY <1>1 DEF IInv, Calls
  <2> QED BY <1>1, <2>1 DEF CallInv, Placed, Told
<1>2. IInv => AnswersStayInTenant
  BY <1>1 DEF AnswersStayInTenant
<1> QED BY <1>2, Invariant, PTL

(* No snapshot mixes organizations, holds a row half read or twice, or leaves
   the order of creation. *)
THEOREM SoundSnapshots == Spec => []SnapshotIsSound
<1>1. ASSUME IInv, NEW j \in Jobs, NEW i \in DOMAIN snapshot[j]
      PROVE  /\ OrgOf[snapshot[j][i].id] = scope[j][2]
             /\ snapshot[j][i].state = "completed" <=> snapshot[j][i].result # NoResult
             /\ Ordered(snapshot[j])
  <2>1. status[j] # "absent"
    <3>1. DOMAIN <<>> = {}
      OBVIOUS
    <3> QED BY <1>1, <3>1 DEF IInv, RowInv
  <2> QED BY <1>1, <2>1 DEF IInv, RowInv, Sound
<1>2. IInv => SnapshotIsSound
  BY <1>1 DEF SnapshotIsSound, Ordered
<1> QED BY <1>2, Invariant, PTL

(* No diagnostic that was there when a client asked is missing from the export
   it is told of. *)
THEOREM CompleteSnapshots == Spec => []SnapshotIsComplete
<1>1. ASSUME IInv, NEW c \in Clients, op[c] = "create", answer[c] = "ok"
      PROVE  earlier[c] \subseteq Ids(snapshot[target[c]])
  BY <1>1 DEF IInv, CallInv, Told, Calls
<1>2. IInv => SnapshotIsComplete
  BY <1>1 DEF SnapshotIsComplete, Ids
<1> QED BY <1>2, Invariant, PTL

------------------------------------------------------------------------------
(* What a step may do to the rows *)

\* Only a commit writes a row.
LEMMA RowsStay ==
  ASSUME [Next]_vars, ~ \E c \in Calls : Commit(c) \/ CommitAckLost(c)
  PROVE  UNCHANGED <<status, scope, snapshot, artifact, events, mails>>
<1> SUFFICES UNCHANGED jobVars
  BY DEF jobVars
<1>1. ASSUME NEW c \in Calls,
             \/ CreateRows(c) \/ GetRow(c) \/ RecoverRow(c) \/ PageRow(c)
             \/ CompleteRecipient(c) \/ Answer(c)
      PROVE  UNCHANGED jobVars
  BY <1>1 DEF CreateRows, GetRow, RecoverRow, PageRow, CompleteRecipient, Answer
<1>2. ASSUME NEW c \in Calls, Lock(c) \/ Fail(c) PROVE UNCHANGED jobVars
  BY <1>2 DEF Lock, ClaimRow, CompleteRow, Fail
<1>3. ASSUME NEW c \in Clients, NEW o, NEW s, NEW j, Ask(c, o, s, j)
      PROVE  UNCHANGED jobVars
  BY <1>3 DEF Ask
<1>4. ASSUME NEW c \in Workers, Request(c) \/ WorkerRestarts(c)
      PROVE  UNCHANGED jobVars
  BY <1>4 DEF Request, Call, WorkerRestarts
<1>5. CASE UNCHANGED vars
  BY <1>5 DEF vars
<1>6. ASSUME NEW c \in Calls, Serve(c), ~Commit(c) PROVE UNCHANGED jobVars
  BY <1>1, <1>6 DEF Serve
<1>7. CASE \E c \in Calls : Serve(c) \/ Lock(c) \/ CommitAckLost(c) \/ Fail(c)
  BY <1>2, <1>6, <1>7
<1>8. CASE ChangeAccess /\ UNCHANGED <<jobVars, diagVars, workVars>>
  BY <1>8
<1>9. CASE DiagnosticStep
  BY <1>9 DEF DiagnosticStep
<1>10. CASE \E c \in Clients, o \in {"create", "get"}, s \in Scopes, j \in Jobs :
              Ask(c, o, s, j)
  BY <1>3, <1>10
<1>11. CASE \E c \in Workers : Request(c) \/ WorkerRestarts(c)
  BY <1>4, <1>11
<1> QED BY <1>5, <1>7, <1>8, <1>9, <1>10, <1>11 DEF Next

\* A delivery is ordered while its requester, locked, has access.
LEMMA StepAuthorized ==
  ASSUME IInv, [Next]_vars
  PROVE  \A j \in Jobs : mails'[j] # mails[j] => Authorized(scope[j])
<1> SUFFICES ASSUME NEW j \in Jobs, mails'[j] # mails[j]
             PROVE  Authorized(scope[j])
  OBVIOUS
<1>1. PICK c \in Calls : Commit(c) \/ CommitAckLost(c)
  BY RowsStay
<1>2. pc[c] = "commit" /\ Apply(c)
  BY <1>1 DEF Commit, CommitAckLost
<1>3. op[c] = "complete" /\ mails' = [mails EXCEPT ![target[c]] = @ + 1]
  BY <1>2 DEF Apply
<1>4. target[c] = j
  BY <1>3 DEF IInv, TypeOK
<1> QED BY <1>2, <1>3, <1>4 DEF IInv, CallInv, Vouched

(* No export is completed, and no delivery ordered, after a revocation. *)
THEOREM Authorization == Spec => CompletionIsAuthorized
<1>1. IInv /\ [Next]_vars =>
        [\A j \in Jobs : mails'[j] # mails[j] => Authorized(scope[j])]_vars
  BY StepAuthorized
<1> QED BY <1>1, Invariant, PTL DEF Spec, CompletionIsAuthorized

\* A commit is the contract's step of its operation.
LEMMA CommitImplements ==
  ASSUME IInv, NEW c \in Calls, pc[c] = "commit", Apply(c)
  PROVE  Contract!Next
<1> DEFINE j == target[c]
<1>1. /\ j \in Jobs /\ op[c] \in {"create", "claim", "complete"}
      /\ events \in [Types -> [Jobs -> 0..1]] /\ mails \in [Jobs -> 0..1]
      /\ events["requested"][j] = IF status[j] = "absent" THEN 0 ELSE 1
      /\ \A t \in {"completed", "email"} :
           events[t][j] = IF status[j] = "completed" THEN 1 ELSE 0
      /\ mails[j] = IF status[j] = "completed" THEN 1 ELSE 0
  BY ApplyFacts DEF IInv, TypeOK, RowInv
<1>2. CASE op[c] = "create"
  <2>1. /\ status[j] = "absent" /\ status' = [status EXCEPT ![j] = "pending"]
        /\ events' = [events EXCEPT !["requested"][j] = @ + 1]
        /\ UNCHANGED <<artifact, mails>>
    BY <1>2, ApplyFacts DEF Apply
  <2>2. events["requested"][j] = 0
    BY <1>1, <2>1
  <2>3. events' = [events EXCEPT !["requested"][j] = 1]
    BY <2>1, <2>2
  <2>4. Contract!Request(j)
    BY <2>1, <2>3 DEF Contract!Request
  <2> QED BY <1>1, <2>4 DEF Contract!Next
<1>3. CASE op[c] = "claim"
  <2>1. Contract!Claim(j)
    BY <1>3, ApplyFacts DEF Contract!Claim
  <2> QED BY <1>1, <2>1 DEF Contract!Next
<1>4. CASE op[c] = "complete"
  <2> DEFINE stored == [key |-> named[c][2], object |-> read[c]]
  <2>1. /\ status[j] = "claimed"
        /\ status' = [status EXCEPT ![j] = "completed"]
        /\ artifact' = [artifact EXCEPT ![j] = stored]
    BY <1>4, ApplyFacts
  <2>2. stored \in Artifacts
    BY <1>4, StoredObject
  <2> HIDE DEF stored
  <2>3. Contract!Complete(j, stored)
    BY <1>4, <2>1, CompletionRows DEF Contract!Complete
  <2> QED BY <1>1, <2>2, <2>3 DEF Contract!Next
<1> QED BY <1>1, <1>2, <1>3, <1>4

LEMMA StepImplements ==
  ASSUME IInv, [Next]_vars
  PROVE  Contract!Next \/ UNCHANGED <<status, artifact, events, mails>>
<1>1. CASE \E c \in Calls : Commit(c) \/ CommitAckLost(c)
  BY <1>1, CommitImplements DEF Commit, CommitAckLost
<1> QED BY <1>1, RowsStay

(* Calls, locks, failures and lost answers implement the contract of a job. *)
THEOREM Implements == Spec => ContractSpec
<1>1. Init => Contract!Init
  BY DEF Init, Contract!Init, Types, Contract!Types
<1>2. IInv /\ [Next]_vars => [Contract!Next]_<<status, artifact, events, mails>>
  BY StepImplements
<1> QED BY <1>1, <1>2, Invariant, PTL DEF Spec, ContractSpec, Contract!Spec

------------------------------------------------------------------------------
(* Workers that follow the protocol *)

Completing(c) == pc[c] # "idle" /\ op[c] = "complete"

\* A completion under way has read to the end, or this step is its arrival and
\* its worker has.
Persists(c) == Completing(c)' => /\ Completing(c) \/ ~more[c]
                                 /\ more'[c] = more[c]

\* Only a request makes a completion, and a page does not come in its course.
LEMMA CompletingPersists ==
  ASSUME Disciplined = Workers, IInv, [Next]_vars, NEW b \in Calls
  PROVE  Persists(b)
<1>0. /\ pc \in [Calls -> Labels] /\ op \in [Calls -> Ops]
      /\ more \in [Calls -> BOOLEAN] /\ Workers \subseteq Calls /\ Clients \subseteq Calls
  BY DEF IInv, TypeOK, CallTypeOK, Calls
<1>1. ASSUME NEW c \in Calls, pc[c] # "idle", UNCHANGED <<op, more>>,
             \E label : Goto(c, label)
      PROVE  Persists(b)
  BY <1>0, <1>1 DEF Goto, Persists, Completing
<1>2. ASSUME NEW c \in Calls, Goto(c, "idle"), UNCHANGED op,
             \A d \in Calls \ {c} : more'[d] = more[d]
      PROVE  Persists(b)
  BY <1>0, <1>2 DEF Goto, Persists, Completing
<1>3. CASE \E c \in Clients, o \in {"create", "get"}, s \in Scopes, j \in Jobs :
             Ask(c, o, s, j)
  <2>1. PICK c \in Clients, o \in {"create", "get"}, s \in Scopes, j \in Jobs :
          Ask(c, o, s, j)
    BY <1>3
  <2>2. /\ pc' = [pc EXCEPT ![c] = "user"] /\ op' = [op EXCEPT ![c] = o]
        /\ UNCHANGED more
    BY <2>1 DEF Ask, Arrive, Goto
  <2> QED BY <1>0, <2>2 DEF Persists, Completing
<1>4. CASE \E c \in Workers : Request(c)
  <2>1. PICK c \in Workers : Request(c)
    BY <1>4
  <2>2. PICK j \in Jobs, n \in Names, o \in {"recover", "claim", "page", "complete"} :
          Call(c, o, j, n)
    BY <2>1 DEF Request
  <2>3. /\ pc' = [pc EXCEPT ![c] = o] /\ op' = [op EXCEPT ![c] = o]
        /\ UNCHANGED more /\ o \in Expected(c)
    BY <2>2 DEF Call, Arrive, Goto
  <2>4. o = "complete" => ~more[c]
    BY <2>3 DEF Expected
  <2> QED BY <1>0, <2>3, <2>4 DEF Persists, Completing
<1>5. CASE \E c \in Workers : WorkerRestarts(c)
  BY <1>0, <1>5 DEF WorkerRestarts, requestVars, Persists, Completing
<1>6. ASSUME NEW c \in Calls, Serve(c) PROVE Persists(b)
  <2>1. CASE Answer(c)
    <3>1. Goto(c, "idle") /\ UNCHANGED op
      BY <2>1 DEF Answer, Respond, Reply, requestVars
    <3>2. \A d \in Calls \ {c} : more'[d] = more[d]
      BY <1>0, <2>1 DEF Answer
    <3> QED BY <1>2, <3>1, <3>2
  <2>2. CASE ~Answer(c)
    <3>1. /\ pc[c] # "idle" /\ UNCHANGED <<op, more>> /\ \E label : Goto(c, label)
      BY <1>6, <2>2
      DEF Serve, ContextUser, ContextMembership, CreateRows, GetRow, RecoverRow,
          PageRow, CompleteRecipient, Commit, Reply, requestVars, workVars
    <3> QED BY <1>1, <3>1
  <2> QED BY <2>1, <2>2
<1>7. ASSUME NEW c \in Calls, Lock(c) PROVE Persists(b)
  <2>1. /\ pc[c] # "idle" /\ UNCHANGED <<op, more>> /\ \E label : Goto(c, label)
    BY <1>7 DEF Lock, ClaimRow, CompleteRow, Reply, requestVars
  <2> QED BY <1>1, <2>1
<1>8. ASSUME NEW c \in Calls, CommitAckLost(c) \/ Fail(c) PROVE Persists(b)
  <2>1. Goto(c, "idle") /\ UNCHANGED <<op, more>>
    BY <1>8 DEF CommitAckLost, Fail, CallFails, Reply, requestVars
  <2> QED BY <1>2, <2>1
<1>9. CASE \/ ChangeAccess /\ UNCHANGED <<jobVars, diagVars, workVars>>
           \/ DiagnosticStep \/ UNCHANGED vars
  <2>1. UNCHANGED <<pc, op, more>>
    BY <1>9 DEF ChangeAccess, DiagnosticStep, vars, callVars, requestVars, workVars
  <2> QED BY <2>1 DEF Persists, Completing
<1> QED BY <1>3, <1>4, <1>5, <1>6, <1>7, <1>8, <1>9 DEF Next

\* A worker that has read to the end stores the snapshot itself.
LEMMA CommitThorough ==
  ASSUME IInv, Thorough, NEW c \in Calls, pc[c] = "commit", Apply(c),
         NEW k \in Jobs, artifact'[k] # NoArtifact
  PROVE  artifact'[k].object = snapshot'[k] /\ status'[k] # "absent"
<1> DEFINE j == target[c]
<1>1. /\ j \in Jobs /\ op[c] \in {"create", "claim", "complete"}
      /\ status \in [Jobs -> States] /\ snapshot \in [Jobs -> Seq(Items)]
      /\ artifact \in [Jobs -> Artifact]
      /\ artifact[k] # NoArtifact => /\ artifact[k].object = snapshot[k]
                                     /\ status[k] # "absent"
  BY ApplyFacts DEF IInv, TypeOK, Thorough, ExportIsSnapshot
<1>2. CASE op[c] = "create"
  <2>1. /\ status[j] = "absent" /\ UNCHANGED artifact
        /\ status' = [status EXCEPT ![j] = "pending"]
        /\ snapshot' = [snapshot EXCEPT ![j] = draft[c]]
    BY <1>2, ApplyFacts
  <2>2. k # j
    BY <1>1, <2>1
  <2> QED BY <1>1, <2>1, <2>2
<1>3. CASE op[c] = "claim"
  <2>1. /\ UNCHANGED <<artifact, snapshot>>
        /\ status' = [status EXCEPT ![j] = "claimed"]
    BY <1>3, ApplyFacts
  <2> QED BY <1>1, <2>1
<1>4. CASE op[c] = "complete"
  <2> DEFINE stored == [key |-> named[c][2], object |-> read[c]]
  <2>1. /\ artifact' = [artifact EXCEPT ![j] = stored] /\ UNCHANGED snapshot
        /\ status' = [status EXCEPT ![j] = "completed"]
    BY <1>4, ApplyFacts
  <2>2. read[c] = snapshot[j]
    <3>1. ~more[c] /\ Reading(c)
      BY <1>4 DEF Thorough, IInv, CallInv
    <3>2. /\ Prefix(read[c], snapshot[j]) /\ Len(read[c]) = Len(snapshot[j])
          /\ read[c] \in Seq(Items) /\ snapshot[j] \in Seq(Items)
      BY <1>1, <3>1 DEF Reading, IInv, TypeOK
    <3> QED BY <3>2, SeqEqual DEF Prefix
  <2>3. stored.object = read[c]
    OBVIOUS
  <2> HIDE DEF stored
  <2> QED BY <1>1, <2>1, <2>2, <2>3
<1> QED BY <1>1, <1>2, <1>3, <1>4

LEMMA StepThorough ==
  ASSUME Disciplined = Workers, IInv, Thorough, [Next]_vars
  PROVE  Thorough'
<1>1. ASSUME NEW c \in Calls, Completing(c)' PROVE ~more'[c]
  BY <1>1, CompletingPersists DEF Persists, Completing, Thorough
<1>2. ASSUME NEW k \in Jobs, artifact'[k] # NoArtifact
      PROVE  artifact'[k].object = snapshot'[k] /\ status'[k] # "absent"
  <2>1. CASE \E c \in Calls : Commit(c) \/ CommitAckLost(c)
    BY <1>2, <2>1, CommitThorough DEF Commit, CommitAckLost
  <2>2. CASE ~ \E c \in Calls : Commit(c) \/ CommitAckLost(c)
    <3>1. UNCHANGED <<status, snapshot, artifact>>
      BY <2>2, RowsStay
    <3> QED BY <1>2, <3>1 DEF Thorough, ExportIsSnapshot
  <2> QED BY <2>1, <2>2
<1> QED BY <1>1, <1>2 DEF Thorough, ExportIsSnapshot, Completing

(* Workers that follow the recovery protocol store what was snapshotted, however
   many of them work on a job and however often they start over. *)
THEOREM SnapshotStored == ASSUME Disciplined = Workers
                          PROVE  Spec => []ExportIsSnapshot
<1>1. Init => Thorough
  BY DEF Init, CallInit, Thorough, ExportIsSnapshot
<1>2. Thorough /\ IInv /\ [Next]_vars => Thorough'
  BY StepThorough
<1>3. Thorough => ExportIsSnapshot
  BY DEF Thorough
<1> QED BY <1>1, <1>2, <1>3, Invariant, PTL DEF Spec
=============================================================================
