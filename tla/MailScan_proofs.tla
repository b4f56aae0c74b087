--------------------------- MODULE MailScan_proofs ---------------------------
(***************************************************************************)
(* For any rows, scans and messages: the type invariant of MailScan, that  *)
(* a scan stands by decisions made while it waited, that it reports what   *)
(* it did, and that the unread flag follows the mail unless the scan was   *)
(* crossed.                                                                *)
(***************************************************************************)
EXTENDS MailScan, FiniteSetTheorems, TLAPS

SnapshotRows == [group : Groups, seen : Messages]

(* Sets of rows can be counted.                                             *)
LEMMA Countable ==
    ASSUME NEW S \in SUBSET Ids
    PROVE  /\ IsFiniteSet(S)
           /\ Cardinality(S) \in 0..Cardinality(Ids)
<1>1. IsFiniteSet(S) /\ Cardinality(S) <= Cardinality(Ids)
  BY MailAssumption, FS_Subset
<1>2. Cardinality(S) \in Nat /\ Cardinality(Ids) \in Nat
  BY <1>1, MailAssumption, FS_CardinalityType
<1> QED BY <1>1, <1>2

(* What a scan holds of its rows is about rows.                             *)
LEMMA ScanFields ==
    ASSUME TypeOK, NEW s \in Scans
    PROVE  /\ scans[s] \in ScanRecords
           /\ DOMAIN scans[s].snapshot \in SUBSET Ids
           /\ scans[s].snapshot \in [DOMAIN scans[s].snapshot -> SnapshotRows]
           /\ DOMAIN scans[s].found \in SUBSET Ids
           /\ scans[s].found \in [DOMAIN scans[s].found -> Messages]
<1>1. scans[s] \in ScanRecords
  BY DEF TypeOK
<1>2. PICK T \in SUBSET Ids : scans[s].snapshot \in [T -> SnapshotRows]
  BY <1>1 DEF ScanRecords, Snapshots, SnapshotRows
<1>3. PICK U \in SUBSET Ids : scans[s].found \in [U -> Messages]
  BY <1>1 DEF ScanRecords
<1> QED BY <1>1, <1>2, <1>3

(* A scan that ends leaves an idle one.                                     *)
LEMMA IdleIsScan == IdleScan \in ScanRecords
<1>1. NoRows \in [{} -> SnapshotRows] /\ NoRows \in [{} -> Messages]
  BY DEF NoRows
<1>2. NoRows \in Snapshots /\ NoRows \in UNION {[T -> Messages] : T \in SUBSET Ids}
  BY <1>1 DEF Snapshots, SnapshotRows
<1> QED BY <1>2 DEF IdleScan, ScanRecords

(* The rows a scan may take are rows of the inventory.                      *)
LEMMA TargetsArePresent ==
    ASSUME NEW kind \in Kinds, NEW T \in Targets(kind)
    PROVE  T \in SUBSET Present
BY DEF Targets, Kinds

(* The rows a scan writes to are among those it took, present and in the    *)
(* group it saw.                                                            *)
LEMMA AppliedRows ==
    ASSUME TypeOK, NEW s \in Scans
    PROVE  /\ Applied(s) \in SUBSET Present
           /\ Matched(s) \in SUBSET Ids
           /\ Applied(s) \in SUBSET Ids
           /\ \A i \in Matched(s) : scans[s].found[i] \in Messages \ {0}
BY ScanFields DEF Applied, Matched, Present

-----------------------------------------------------------------------------
(* The type invariant.                                                      *)

LEMMA InitType == Init => TypeOK
<1> SUFFICES ASSUME Init PROVE TypeOK
  OBVIOUS
<1>1. 0 \in Messages
  BY MailAssumption DEF Messages
<1>2. 0 \in 0..Cardinality(Ids)
  BY Countable
<1>3. [ok |-> FALSE, updated |-> 0, moved |-> 0] \in Results
  BY <1>2 DEF Results
<1>4. [group |-> "unused", claimed |-> FALSE, seen |-> 0, unread |-> FALSE] \in Rows
  BY <1>1 DEF Rows, Groups
<1> QED BY <1>1, <1>3, <1>4, IdleIsScan DEF Init, TypeOK

(* A row that a scan has found mail for.                                    *)
LEMMA PatchedRow ==
    ASSUME TypeOK, NEW s \in Scans, NEW i \in Applied(s) \cap Matched(s)
    PROVE  /\ messagePatch(s, i) \in Rows
           /\ messagePatch(s, i).group = IF Finishes(s, i) THEN "finished" ELSE rows[i].group
           /\ messagePatch(s, i).claimed = rows[i].claimed
           /\ messagePatch(s, i).seen = scans[s].found[i]
           /\ messagePatch(s, i).unread = (rows[i].unread \/ IsNewerThanStored(s, i))
<1>1. i \in Ids /\ scans[s].found[i] \in Messages
  BY AppliedRows
<1>2. rows[i] \in Rows
  BY <1>1 DEF TypeOK
<1> DEFINE unread == rows[i].unread \/ IsNewerThanStored(s, i)
           group == IF Finishes(s, i) THEN "finished" ELSE rows[i].group
<1>3. unread \in BOOLEAN
  BY Zenon
<1>4. group \in Groups \cup {"gone"}
  BY <1>2 DEF Rows, Groups
<1>5. messagePatch(s, i) =
        [rows[i] EXCEPT !.group = group, !.seen = scans[s].found[i], !.unread = unread]
  BY DEF messagePatch
<1> HIDE DEF unread, group
<1>6. /\ messagePatch(s, i) \in Rows
      /\ messagePatch(s, i).group = group
      /\ messagePatch(s, i).claimed = rows[i].claimed
      /\ messagePatch(s, i).seen = scans[s].found[i]
      /\ messagePatch(s, i).unread = unread
  BY <1>1, <1>2, <1>3, <1>4, <1>5 DEF Rows
<1> QED BY <1>6 DEF unread, group

(* Around, one disjunct at a time.                                          *)
AroundStep(i, g) ==
    \/ Arrive(i) \/ MarkRead(i) \/ Trash(i) \/ Delete(i) \/ Claim(i) \/ Release(i)
    \/ Move(i, g) \/ Migrate(i, g)

LEMMA AroundSteps ==
    ASSUME Around
    PROVE  \E i \in Ids, g \in Groups : AroundStep(i, g)
BY DEF Around, AroundStep, Groups

LEMMA CrossedType ==
    ASSUME TypeOK, Recorded
    PROVE  crossed' \in [Scans -> SUBSET Ids]
BY ScanFields DEF TypeOK, Recorded, Crossing

LEMMA AroundType == TypeOK /\ Around /\ Recorded => TypeOK'
<1> SUFFICES ASSUME TypeOK, Recorded, NEW i \in Ids, NEW g \in Groups, AroundStep(i, g)
             PROVE  TypeOK'
  BY AroundSteps
<1> USE CrossedType
<1>1. CASE Arrive(i)
  BY <1>1, MailAssumption DEF Arrive, TypeOK, Messages
<1>2. CASE MarkRead(i) \/ Trash(i)
  <2>1. rows' \in [Ids -> Rows]
    <3>1. CASE MarkRead(i)
      BY <3>1 DEF MarkRead, TypeOK, Rows
    <3>2. CASE Trash(i)
      BY <3>2 DEF Trash, TypeOK, Rows, Groups
    <3> QED BY <1>2, <3>1, <3>2
  <2>2. read' \in [Ids -> Messages]
    BY <1>2 DEF MarkRead, Trash, Marked, TypeOK, Rows
  <2>3. CASE MarkRead(i)
    BY <2>1, <2>2, <2>3 DEF MarkRead, TypeOK, Rows
  <2>4. CASE Trash(i)
    BY <2>1, <2>2, <2>4 DEF Trash, MovesClaimedRow, TypeOK, Rows
  <2> QED BY <1>2, <2>3, <2>4
<1>3. CASE Delete(i)
  BY <1>3 DEF Delete, TypeOK, Rows
<1>4. CASE Claim(i)
  BY <1>4 DEF Claim, TypeOK, Rows, Groups
<1>5. CASE Release(i)
  BY <1>5 DEF Release, TypeOK, Rows, Groups
<1>6. CASE Move(i, g)
  BY <1>6 DEF Move, MovesClaimedRow, TypeOK, Rows
<1>7. CASE Migrate(i, g)
  <2>1. PICK m \in 0..newest[i], unread \in BOOLEAN :
            /\ rows' = [rows EXCEPT ![i].group = g, ![i].seen = m, ![i].unread = unread]
            /\ IF unread THEN UNCHANGED read ELSE Marked(i, m)
    BY <1>7 DEF Migrate
  <2>2. m \in Messages
    BY MailAssumption DEF TypeOK, Messages
  <2>3. rows' \in [Ids -> Rows]
    BY <2>1, <2>2 DEF TypeOK, Rows
  <2>4. read' \in [Ids -> Messages]
    BY <2>1, <2>2 DEF TypeOK, Marked
  <2> QED BY <1>7, <2>3, <2>4 DEF Migrate, TypeOK
<1> QED BY <1>1, <1>2, <1>3, <1>4, <1>5, <1>6, <1>7 DEF AroundStep

LEMMA ScanType == ASSUME TypeOK, Recorded, NEW s \in Scans, Scan(s) PROVE TypeOK'
<1> USE CrossedType
<1>1. ASSUME NEW kind \in Kinds, Begin(s, kind) PROVE TypeOK'
  <2>1. PICK T \in Targets(kind) :
          scans' = [scans EXCEPT ![s] =
            [IdleScan EXCEPT !.stage = "fetching", !.kind = kind,
                !.snapshot = [i \in T |-> [group |-> rows[i].group, seen |-> rows[i].seen]]]]
    BY <1>1 DEF Begin
  <2> DEFINE snapshot == [i \in T |-> [group |-> rows[i].group, seen |-> rows[i].seen]]
  <2>2. snapshot \in [T -> SnapshotRows] /\ T \in SUBSET Ids
    BY TargetsArePresent DEF TypeOK, Rows, Present, SnapshotRows
  <2>3. snapshot \in Snapshots
    BY <2>2 DEF Snapshots, SnapshotRows
  <2> HIDE DEF snapshot
  <2>4. [IdleScan EXCEPT !.stage = "fetching", !.kind = kind, !.snapshot = snapshot]
            \in ScanRecords
    BY <2>3, IdleIsScan DEF ScanRecords
  <2>5. scans' \in [Scans -> ScanRecords]
    BY <2>1, <2>4 DEF TypeOK, snapshot
  <2> QED BY <1>1, <2>5 DEF Begin, TypeOK
<1>2. CASE Fetch(s)
  <2>1. PICK found \in [DOMAIN scans[s].snapshot -> Messages] :
          scans' = [scans EXCEPT ![s].stage = "fetched", ![s].found = found]
    BY <1>2 DEF Fetch
  <2>2. found \in UNION {[T -> Messages] : T \in SUBSET Ids}
    BY ScanFields
  <2>3. scans[s] \in ScanRecords
    BY DEF TypeOK
  <2>4. [scans[s] EXCEPT !.stage = "fetched", !.found = found] \in ScanRecords
    BY <2>2, <2>3 DEF ScanRecords
  <2>5. scans' = [scans EXCEPT ![s] = [scans[s] EXCEPT !.stage = "fetched", !.found = found]]
    BY <2>1
  <2> QED BY <1>2, <2>4, <2>5 DEF Fetch, TypeOK
<1>3. CASE Apply(s)
  <2>1. rows' \in [Ids -> Rows]
    BY <1>3, PatchedRow DEF Apply, TypeOK
  <2>2. result' \in Results
    BY <1>3, Countable, AppliedRows DEF Apply, Report, Results
  <2>3. scans' \in [Scans -> ScanRecords]
    BY <1>3, IdleIsScan DEF Apply, TypeOK
  <2>4. ASSUME NEW i \in Ids, rows'[i].claimed, ~migrated'
        PROVE  rows'[i].group = "finished"
    BY <1>3, <2>4, PatchedRow DEF Apply, TypeOK
  <2> QED BY <1>3, <2>1, <2>2, <2>3, <2>4 DEF Apply, TypeOK
<1>4. CASE Fail(s)
  <2>1. [ok |-> FALSE, updated |-> 0, moved |-> 0] \in Results
    BY Countable DEF Results
  <2> QED BY <1>4, <2>1, IdleIsScan DEF Fail, TypeOK
<1> QED BY <1>1, <1>2, <1>3, <1>4 DEF Scan

LEMMA NextType == TypeOK /\ [Next]_vars => TypeOK'
<1>1. TypeOK /\ UNCHANGED vars => TypeOK'
  BY DEF TypeOK, vars
<1> QED BY <1>1, AroundType, ScanType DEF Next

(* Rows, scans and reports keep their shape, and a claimed row leaves       *)
(* "finished" only by the migration, whatever scans write.                  *)
THEOREM TypeCorrect == Spec => []TypeOK
<1> QED BY InitType, NextType, PTL DEF Spec

-----------------------------------------------------------------------------
(* A scan ends by writing or by failing, and does so alone.                 *)
LEMMA ScanEnds ==
    ASSUME TypeOK, [Next]_vars, NEW s \in Scans, Ends(s)
    PROVE  Apply(s) \/ Fail(s)
<1>1. scans[s].stage = "fetched" /\ scans'[s].stage = "idle" /\ scans[s] \in ScanRecords
  BY DEF Ends, TypeOK
<1>2. CASE Around \/ UNCHANGED vars
  BY <1>1, <1>2 DEF Around, Arrive, MarkRead, Trash, Delete, Claim, Release, Move, Migrate, vars
<1>3. ASSUME NEW t \in Scans, Scan(t) PROVE Apply(s) \/ Fail(s)
  <2>1. CASE t = s
    <3>1. ASSUME NEW kind \in Kinds PROVE ~Begin(s, kind)
      BY <1>1 DEF Begin
    <3>2. ~Fetch(s)
      BY <1>1 DEF Fetch
    <3> QED BY <1>3, <2>1, <3>1, <3>2 DEF Scan
  <2>2. CASE t # s
    <3>1. scans'[s] = scans[s]
      BY <1>3, <2>2 DEF Scan, Begin, Fetch, Apply, Fail, TypeOK
    <3> QED BY <3>1, <1>1
  <2> QED BY <2>1, <2>2
<1> QED BY <1>2, <1>3 DEF Next

(* What a write of a scan changes in a row.                                 *)
LEMMA ApplyRow ==
    ASSUME TypeOK, NEW s \in Scans, Apply(s), NEW i \in Ids
    PROVE  rows'[i] = IF i \in Applied(s) \cap Matched(s)
                      THEN messagePatch(s, i) ELSE rows[i]
BY DEF Apply

(* Only an unused and unclaimed row, still the one the scan saw, is moved,  *)
(* and only to "finished".                                                  *)
LEMMA ApplyGroup ==
    ASSUME TypeOK, NEW s \in Scans, Apply(s), NEW i \in Ids
    PROVE  /\ rows'[i].group # rows[i].group <=>
                i \in Applied(s) \cap Matched(s) /\ Finishes(s, i)
           /\ rows'[i].group # rows[i].group =>
                rows[i].group = "unused" /\ ~rows[i].claimed /\ rows'[i].group = "finished"
<1>1. CASE i \in Applied(s) \cap Matched(s) /\ Finishes(s, i)
  <2>1. rows'[i].group = "finished"
    BY <1>1, ApplyRow, PatchedRow
  <2>2. rows[i].group = "unused"
    BY <1>1 DEF Applied, Finishes
  <2>3. ~rows[i].claimed
    BY <1>1, <2>2 DEF Apply, CanApply, MovesClaimedRow
  <2> QED BY <1>1, <2>1, <2>2, <2>3
<1>2. CASE ~(i \in Applied(s) \cap Matched(s) /\ Finishes(s, i))
  BY <1>2, ApplyRow, PatchedRow
<1> QED BY <1>1, <1>2

(* A scan that was waiting for IMAP takes back no decision about a row made *)
(* meanwhile, however many scans overlap.                                   *)
THEOREM DecisionsAlwaysStand == Spec => DecisionsStand
<1>1. ASSUME TypeOK, [Next]_vars, NEW s \in Scans, NEW i \in Ids,
             Ends(s), rows'[i].group # rows[i].group
      PROVE  rows[i].group = "unused" /\ ~rows[i].claimed /\ rows'[i].group = "finished"
  <2>1. CASE Apply(s)
    BY <1>1, <2>1, ApplyGroup
  <2>2. CASE Fail(s)
    BY <1>1, <2>2 DEF Fail
  <2> QED BY <1>1, <2>1, <2>2, ScanEnds
<1>2. TypeOK /\ [Next]_vars =>
        [\A s \in Scans, i \in Ids : Ends(s) /\ rows'[i].group # rows[i].group =>
            rows[i].group = "unused" /\ ~rows[i].claimed /\ rows'[i].group = "finished"]_vars
  BY <1>1
<1> QED BY <1>2, TypeCorrect, PTL DEF Spec, DecisionsStand

(* The counters a scan answers are those of the rows it has changed: exactly*)
(* for the rows it moved, at least for the rows it touched.                 *)
THEOREM ReportsAreTrue == Spec => ReportsWhatItDid
<1> DEFINE Moved == {i \in Ids : rows'[i].group # rows[i].group}
           Touched == {i \in Ids : rows'[i] # rows[i]}
<1>1. ASSUME TypeOK, [Next]_vars, NEW s \in Scans, Ends(s), result'.ok
      PROVE  /\ result'.moved = Cardinality(Moved)
             /\ result'.updated >= Cardinality(Touched)
  <2>1. Apply(s)
    <3>1. ~Fail(s)
      BY <1>1 DEF Fail
    <3> QED BY <1>1, <3>1, ScanEnds
  <2>2. Moved = {i \in Applied(s) \cap Matched(s) : Finishes(s, i)}
    BY <1>1, <2>1, ApplyGroup, AppliedRows
  <2>3. Touched \subseteq Applied(s) \cap Matched(s)
    BY <1>1, <2>1, ApplyRow
  <2> DEFINE Counted == Applied(s) \cap Matched(s)
  <2>4. Touched \subseteq Counted /\ Counted \in SUBSET Ids
    BY <1>1, <2>3, AppliedRows
  <2>5. Cardinality(Touched) <= Cardinality(Counted)
    BY <2>4, Countable, FS_Subset
  <2>6. Cardinality(Counted) \in Nat /\ Cardinality(Touched) \in Nat
    BY <2>4, Countable
  <2>7. result' = Report(s)
    BY <2>1 DEF Apply
  <2> HIDE DEF Touched, Moved
  <2> QED BY <2>2, <2>5, <2>6, <2>7 DEF Report
<1>2. TypeOK /\ [Next]_vars =>
        [\A s \in Scans : Ends(s) /\ result'.ok =>
            /\ result'.moved = Cardinality({i \in Ids : rows'[i].group # rows[i].group})
            /\ result'.updated >= Cardinality({i \in Ids : rows'[i] # rows[i]})]_vars
  BY <1>1
<1> QED BY <1>2, TypeCorrect, PTL DEF Spec, ReportsWhatItDid

-----------------------------------------------------------------------------
(* Crossing.  Where a waiting scan was not crossed, what it saw of a row is *)
(* what the row is: batches of a kind are joined, and those of two kinds    *)
(* see a row in two groups, of which it is in one.                          *)

Active(s) == scans[s].stage # "idle"

ScanShape(s) ==
    /\ scans[s].kind = "none" <=> ~Active(s)
    /\ scans[s].stage = "fetched" => DOMAIN scans[s].found \subseteq DOMAIN scans[s].snapshot
    /\ Active(s) /\ Batch(s) =>
            \A i \in DOMAIN scans[s].snapshot : scans[s].snapshot[i].group = scans[s].kind

BatchesApart ==
    \A s, t \in Scans :
        Active(s) /\ Active(t) /\ Batch(s) /\ scans[s].kind = scans[t].kind => s = t

SnapshotHolds(s) ==
    \A i \in DOMAIN scans[s].snapshot \ crossed[s] :
        /\ scans[s].snapshot[i].group = rows[i].group
        /\ scans[s].snapshot[i].seen = rows[i].seen

CInv ==
    /\ TypeOK
    /\ \A s \in Scans : ScanShape(s)
    /\ BatchesApart
    /\ \A s \in Scans : Active(s) => SnapshotHolds(s)

LEMMA InitCrossing == Init => CInv
<1> SUFFICES ASSUME Init PROVE CInv
  OBVIOUS
<1>1. ASSUME NEW s \in Scans PROVE ~Active(s) /\ scans[s].kind = "none" /\ scans[s].stage = "idle"
  BY DEF Init, Active, IdleScan
<1> QED BY <1>1, InitType DEF CInv, ScanShape, BatchesApart

(* What Recorded says of a row at which a waiting scan stays uncrossed.     *)
LEMMA Uncrossed ==
    ASSUME TypeOK, Recorded, NEW s \in Scans, scans'[s].stage # "idle",
           NEW i \in DOMAIN scans[s].snapshot, i \notin crossed'[s]
    PROVE  /\ i \notin crossed[s]
           /\ rows'[i].group = rows[i].group
           /\ \/ rows'[i].seen = rows[i].seen
              \/ Batch(s) /\ \E t \in Scans : Ends(t) /\ Batch(t)
BY DEF Recorded, Crossing

(* The scan that ends is the one that takes the step.                       *)
LEMMA OneStep ==
    ASSUME TypeOK, NEW u \in Scans, Scan(u)
    PROVE  \A t \in Scans : t # u => scans'[t] = scans[t] /\ ~Ends(t)
<1>1. \A t \in Scans : t # u => scans'[t] = scans[t]
  BY DEF Scan, Begin, Fetch, Apply, Fail, TypeOK
<1> QED BY <1>1 DEF Ends

LEMMA AroundScans == Around => scans' = scans
BY DEF Around, Arrive, MarkRead, Trash, Delete, Claim, Release, Move, Migrate

(* The row and the snapshot of an uncrossed scan stay as they were.         *)
LEMMA UncrossedRow ==
    ASSUME CInv, Next, NEW s \in Scans, Active(s), scans'[s].stage # "idle",
           NEW i \in DOMAIN scans[s].snapshot, i \notin crossed'[s]
    PROVE  /\ scans[s].snapshot[i].group = rows'[i].group
           /\ scans[s].snapshot[i].seen = rows'[i].seen
<1> USE DEF CInv
<1>1. /\ i \notin crossed[s]
      /\ rows'[i].group = rows[i].group
      /\ \/ rows'[i].seen = rows[i].seen
         \/ Batch(s) /\ \E t \in Scans : Ends(t) /\ Batch(t)
  BY Uncrossed DEF Next
<1>2. /\ scans[s].snapshot[i].group = rows[i].group
      /\ scans[s].snapshot[i].seen = rows[i].seen
  BY <1>1 DEF SnapshotHolds
<1>3. ASSUME NEW t \in Scans, Ends(t), Batch(s), Batch(t)
      PROVE  rows'[i].seen = rows[i].seen
  <2>1. Apply(t) \/ Fail(t)
    BY <1>3, ScanEnds
  <2>2. i \in Ids
    BY ScanFields
  <2>3. CASE i \in Applied(t) /\ Apply(t)
    <3>1. s # t /\ Active(t)
      BY <1>3 DEF Ends, Active
    <3>2. scans[s].kind # scans[t].kind
      BY <1>3, <3>1 DEF BatchesApart
    <3>3. i \in DOMAIN scans[t].snapshot
      BY <1>3, <2>3 DEF Applied, ScanShape, Ends
    <3>4. scans[t].snapshot[i].group = scans[t].kind
      BY <1>3, <3>1, <3>3 DEF ScanShape
    <3>5. scans[s].snapshot[i].group = scans[s].kind
      BY <1>3 DEF ScanShape
    <3>6. rows[i].group = scans[t].snapshot[i].group
      BY <2>3 DEF Applied
    <3> QED BY <1>2, <3>2, <3>4, <3>5, <3>6
  <2>4. CASE i \notin Applied(t) /\ Apply(t)
    BY <2>2, <2>4, ApplyRow
  <2>5. CASE Fail(t)
    BY <2>5 DEF Fail
  <2> QED BY <2>1, <2>3, <2>4, <2>5
<1> QED BY <1>1, <1>2, <1>3

LEMMA NextCrossing == CInv /\ [Next]_vars => CInv'
<1>1. CInv /\ UNCHANGED vars => CInv'
  BY DEF CInv, TypeOK, vars, ScanShape, BatchesApart, SnapshotHolds, Active, Batch
<1> SUFFICES ASSUME CInv, Next PROVE CInv'
  BY <1>1
<1> USE DEF CInv
<1>2. TypeOK'
  BY NextType
<1>3. ASSUME NEW s \in Scans, Active(s), scans'[s].stage # "idle",
             scans'[s].snapshot = scans[s].snapshot
      PROVE  SnapshotHolds(s)'
  BY <1>3, UncrossedRow DEF SnapshotHolds
<1>4. CASE Around
  <2>1. scans' = scans
    BY <1>4, AroundScans
  <2>2. \A s \in Scans : ScanShape(s)'
    BY <2>1 DEF ScanShape, Active, Batch
  <2>3. BatchesApart'
    BY <2>1 DEF BatchesApart, Active, Batch
  <2>4. \A s \in Scans : Active(s)' => SnapshotHolds(s)'
    BY <2>1, <1>3 DEF Active
  <2> QED BY <1>2, <2>2, <2>3, <2>4
<1>5. ASSUME NEW u \in Scans, Scan(u) PROVE CInv'
  <2>1. \A t \in Scans : t # u => scans'[t] = scans[t]
    BY <1>5, OneStep
  <2>2. ASSUME NEW t \in Scans, t # u
        PROVE  ScanShape(t)' /\ (Active(t)' => SnapshotHolds(t)')
    BY <1>3, <2>1, <2>2 DEF ScanShape, Active, Batch
  <2>3. ASSUME NEW kind \in Kinds, Begin(u, kind) PROVE CInv'
    <3>1. PICK T \in Targets(kind) :
            scans' = [scans EXCEPT ![u] =
              [IdleScan EXCEPT !.stage = "fetching", !.kind = kind,
                  !.snapshot = [i \in T |-> [group |-> rows[i].group, seen |-> rows[i].seen]]]]
      BY <2>3 DEF Begin
    <3> DEFINE snapshot == [i \in T |-> [group |-> rows[i].group, seen |-> rows[i].seen]]
    <3>2. /\ scans'[u].stage = "fetching" /\ scans'[u].kind = kind
          /\ scans'[u].snapshot = snapshot
      BY <3>1 DEF TypeOK, IdleScan
    <3>3. rows' = rows
      BY <2>3 DEF Begin
    <3>4. kind # "none" /\ (kind # "one" => \A i \in T : rows[i].group = kind)
      BY DEF Targets, Kinds
    <3>5. SnapshotHolds(u)'
      BY <3>2, <3>3 DEF SnapshotHolds
    <3>6. ScanShape(u)'
      BY <3>2, <3>4 DEF ScanShape, Active, Batch
    <3>7. ASSUME NEW t \in Scans, t # u, kind # "one" PROVE scans'[t].kind # kind
      BY <2>1, <2>3, <3>7 DEF Begin, Joins
    <3>8. BatchesApart'
      BY <2>1, <3>2, <3>7 DEF BatchesApart, Active, Batch
    <3> QED BY <1>2, <2>2, <3>5, <3>6, <3>8
  <2>4. CASE Fetch(u)
    <3>1. /\ scans'[u].stage = "fetched" /\ scans[u].stage = "fetching"
          /\ scans'[u].snapshot = scans[u].snapshot
          /\ scans'[u].kind = scans[u].kind
          /\ DOMAIN scans'[u].found \subseteq DOMAIN scans[u].snapshot
      BY <2>4 DEF Fetch, TypeOK, ScanRecords
    <3>2. ScanShape(u)' /\ SnapshotHolds(u)'
      BY <1>3, <3>1 DEF ScanShape, Active, Batch
    <3>3. BatchesApart'
      BY <2>1, <3>1 DEF BatchesApart, Active, Batch
    <3> QED BY <1>2, <2>2, <3>2, <3>3
  <2>5. CASE Apply(u) \/ Fail(u)
    <3>1. scans'[u].stage = "idle" /\ scans'[u].kind = "none"
      BY <2>5 DEF Apply, Fail, TypeOK, IdleScan
    <3>2. ScanShape(u)' /\ ~Active(u)'
      BY <3>1 DEF ScanShape, Active
    <3>3. BatchesApart'
      BY <2>1, <3>1 DEF BatchesApart, Active, Batch
    <3> QED BY <1>2, <2>2, <3>2, <3>3
  <2> QED BY <1>5, <2>3, <2>4, <2>5 DEF Scan
<1> QED BY <1>4, <1>5 DEF Next

(* Any number of batches and single checks may overlap: batches of a kind   *)
(* are one, and the snapshot of a scan is what is stored wherever it was    *)
(* not crossed (checkFinished, checkUnused, expectedGroup).                 *)
THEOREM UncrossedSnapshotsHold == Spec => []CInv
<1> QED BY InitCrossing, NextCrossing, PTL DEF Spec

(* What an uncrossed scan finds newer than its snapshot is newer than what  *)
(* is stored.                                                               *)
LEMMA ApplySeen ==
    ASSUME CInv, NEW s \in Scans, Apply(s),
           NEW i \in Applied(s) \cap Matched(s), i \notin crossed[s]
    PROVE  IsNewerThanStored(s, i) <=> rows'[i].seen > rows[i].seen
<1> USE DEF CInv
<1>1. Active(s) /\ i \in DOMAIN scans[s].snapshot /\ i \in Ids
  BY AppliedRows DEF ScanShape, Apply, Active, Applied
<1>2. scans[s].snapshot[i].seen = rows[i].seen
  BY <1>1 DEF SnapshotHolds
<1>3. rows'[i].seen = scans[s].found[i]
  BY <1>1, ApplyRow, PatchedRow
<1> QED BY <1>2, <1>3 DEF IsNewerThanStored

(* A step of a scan that changes a row is its write.                        *)
LEMMA ScanWrites ==
    ASSUME TypeOK, NEW s \in Scans, Scan(s), NEW i \in Ids, rows'[i] # rows[i] \/ read' # read
    PROVE  Apply(s) /\ Ends(s) /\ read' = read /\ i \in Applied(s) \cap Matched(s)
<1>1. Apply(s)
  BY DEF Scan, Begin, Fetch, Apply, Fail
<1>2. Ends(s)
  BY <1>1 DEF Apply, Ends, TypeOK, IdleScan
<1> QED BY <1>1, <1>2, ApplyRow DEF Apply

(* Around the scans only the migration raises the unread flag.              *)
LEMMA AroundUnread ==
    ASSUME TypeOK, Around, NEW i \in Ids, ~rows[i].unread, rows'[i].unread
    PROVE  migrated' # migrated
<1>1. PICK j \in Ids, g \in Groups : AroundStep(j, g)
  BY AroundSteps
<1>2. rows \in [Ids -> Rows]
  BY DEF TypeOK
<1>3. CASE Migrate(j, g)
  BY <1>3 DEF Migrate
<1>4. CASE Arrive(j)
  BY <1>4 DEF Arrive
<1>5. CASE MarkRead(j) \/ Trash(j)
  BY <1>2, <1>5 DEF MarkRead, Trash, Rows
<1>6. CASE Delete(j)
  BY <1>2, <1>6 DEF Delete, Rows
<1>7. CASE Claim(j) \/ Release(j)
  BY <1>2, <1>7 DEF Claim, Release, Rows
<1>8. CASE Move(j, g)
  BY <1>2, <1>8 DEF Move, Rows
<1> QED BY <1>1, <1>3, <1>4, <1>5, <1>6, <1>7, <1>8 DEF AroundStep

(* Mail that was marked as read is not marked unread again without newer    *)
(* mail, however many batches overlap and whatever is moved, claimed and    *)
(* read meanwhile, unless the check was crossed (isNewerThanStored).        *)
THEOREM ReadMailAlwaysStaysRead == Spec => ReadMailStaysRead
<1>1. ASSUME CInv, [Next]_vars, NEW i \in Ids, ~rows[i].unread, rows'[i].unread
      PROVE  \/ rows'[i].seen > rows[i].seen
             \/ migrated' # migrated
             \/ \E s \in Scans : Ends(s) /\ i \in crossed[s]
  <2>1. CASE Around
    BY <1>1, <2>1, AroundUnread DEF CInv
  <2>2. CASE UNCHANGED vars
    BY <1>1, <2>2 DEF vars
  <2>3. ASSUME NEW s \in Scans, Scan(s), i \notin crossed[s]
        PROVE  rows'[i].seen > rows[i].seen
    <3>1. Apply(s) /\ i \in Applied(s) \cap Matched(s)
      BY <1>1, <2>3, ScanWrites DEF CInv
    <3>2. IsNewerThanStored(s, i)
      BY <1>1, <3>1, ApplyRow, PatchedRow DEF CInv
    <3> QED BY <1>1, <2>3, <3>1, <3>2, ApplySeen
  <2>4. ASSUME NEW s \in Scans, Scan(s) PROVE Ends(s)
    BY <1>1, <2>4, ScanWrites DEF CInv
  <2> QED BY <1>1, <2>1, <2>2, <2>3, <2>4 DEF Next
<1>2. CInv /\ [Next]_vars =>
        [\A i \in Ids : ~rows[i].unread /\ rows'[i].unread =>
            \/ rows'[i].seen > rows[i].seen
            \/ migrated' # migrated
            \/ \E s \in Scans : Ends(s) /\ i \in crossed[s]]_vars
  BY <1>1
<1> QED BY <1>2, UncrossedSnapshotsHold, PTL DEF Spec, ReadMailStaysRead

(* Nothing that happens around the scans loses the flag of unread mail.     *)
LEMMA AroundFlagged ==
    ASSUME TypeOK, Around, NEW i \in Ids, Flagged(i)
    PROVE  Flagged(i)'
<1>1. PICK j \in Ids, g \in Groups : AroundStep(j, g)
  BY AroundSteps
<1>2. rows \in [Ids -> Rows] /\ read \in [Ids -> Messages]
  BY DEF TypeOK
<1>3. CASE Arrive(j)
  BY <1>3 DEF Arrive, Flagged
<1>4. ASSUME NEW m \in Messages, Marked(j, m), rows'[j].seen = m
      PROVE  ~(rows'[j].seen > read'[j])
  BY <1>2, <1>4 DEF Marked, Messages
<1>5. CASE MarkRead(j) \/ Trash(j)
  <2>1. Marked(j, rows[j].seen) /\ rows'[j].seen = rows[j].seen /\ rows[j].seen \in Messages
    BY <1>2, <1>5 DEF MarkRead, Trash, Rows
  <2>2. CASE i = j
    BY <1>4, <2>1, <2>2 DEF Flagged
  <2>3. CASE i # j
    BY <1>2, <1>5, <2>1, <2>3 DEF MarkRead, Trash, Marked, Flagged
  <2> QED BY <2>2, <2>3
<1>6. CASE Delete(j)
  BY <1>2, <1>6 DEF Delete, Flagged, Rows
<1>7. CASE Claim(j) \/ Release(j)
  BY <1>2, <1>7 DEF Claim, Release, Flagged, Rows
<1>8. CASE Move(j, g)
  BY <1>2, <1>8 DEF Move, Flagged, Rows
<1>9. CASE Migrate(j, g)
  <2>1. PICK m \in 0..newest[j], unread \in BOOLEAN :
            /\ rows' = [rows EXCEPT ![j].group = g, ![j].seen = m, ![j].unread = unread]
            /\ IF unread THEN UNCHANGED read ELSE Marked(j, m)
    BY <1>9 DEF Migrate
  <2>2. m \in Messages
    BY MailAssumption DEF TypeOK, Messages
  <2>3. /\ rows'[j].seen = m /\ rows'[j].unread = unread
        /\ i # j => rows'[i] = rows[i] /\ read'[i] = read[i]
    BY <1>2, <2>1 DEF Rows, Marked
  <2>4. CASE i = j /\ unread
    BY <2>3, <2>4 DEF Flagged
  <2>5. CASE i = j /\ ~unread
    BY <1>4, <2>1, <2>2, <2>3, <2>5 DEF Flagged
  <2>6. CASE i # j
    BY <2>3, <2>6 DEF Flagged
  <2> QED BY <2>4, <2>5, <2>6
<1> QED BY <1>1, <1>3, <1>5, <1>6, <1>7, <1>8, <1>9 DEF AroundStep

(* A write of a scan that was not crossed keeps the flag of unread mail.    *)
LEMMA ScanFlagged ==
    ASSUME CInv, Next, NEW s \in Scans, Scan(s), NEW i \in Ids, i \notin crossed[s], Flagged(i)
    PROVE  Flagged(i)'
<1> USE DEF CInv
<1>1. CASE rows'[i] = rows[i] /\ read' = read
  BY <1>1 DEF Flagged
<1>2. CASE rows'[i] # rows[i] \/ read' # read
  <2>1. Apply(s) /\ read' = read /\ i \in Applied(s) \cap Matched(s)
    BY <1>2, ScanWrites
  <2>2. rows'[i].unread = (rows[i].unread \/ IsNewerThanStored(s, i))
    BY <2>1, ApplyRow, PatchedRow
  <2>3. rows'[i].seen \in Nat /\ rows[i].seen \in Nat /\ read[i] \in Nat
    BY NextType DEF TypeOK, Rows, Messages
  <2>4. CASE rows'[i].seen > rows[i].seen
    BY <2>1, <2>2, <2>4, ApplySeen DEF Flagged
  <2>5. CASE ~(rows'[i].seen > rows[i].seen)
    <3>1. rows'[i].seen > read'[i] => rows[i].seen > read[i]
      BY <2>1, <2>3, <2>5
    <3> QED BY <2>2, <3>1, Zenon DEF Flagged
  <2> QED BY <2>4, <2>5
<1> QED BY <1>1, <1>2

(* Stored mail newer than all that was marked as read stays unread until it *)
(* is marked, also when a folder that failed to open brought back older     *)
(* mail for a time, unless the check was crossed (messagePatch).            *)
THEOREM UnreadMailAlwaysStaysUnread == Spec => UnreadMailStaysUnread
<1>1. ASSUME CInv, [Next]_vars, NEW i \in Ids, Flagged(i), ~Flagged(i)'
      PROVE  \E s \in Scans : Ends(s) /\ i \in crossed[s]
  <2>1. CASE Around
    BY <1>1, <2>1, AroundFlagged DEF CInv
  <2>2. CASE UNCHANGED vars
    BY <1>1, <2>2 DEF vars, Flagged
  <2>3. ASSUME NEW s \in Scans, Next, Scan(s) PROVE Ends(s) /\ i \in crossed[s]
    <3>1. i \in crossed[s]
      BY <1>1, <2>3, ScanFlagged
    <3>2. rows'[i] # rows[i] \/ read' # read
      BY <1>1 DEF Flagged
    <3> QED BY <1>1, <2>3, <3>1, <3>2, ScanWrites DEF CInv
  <2> QED BY <1>1, <2>1, <2>2, <2>3 DEF Next
<1>2. CInv /\ [Next]_vars =>
        [\A i \in Ids : Flagged(i) /\ ~Flagged(i)' =>
            \E s \in Scans : Ends(s) /\ i \in crossed[s]]_vars
  BY <1>1
<1> QED BY <1>2, UncrossedSnapshotsHold, PTL DEF Spec, UnreadMailStaysUnread
=============================================================================
