------------------------------ MODULE MailScan ------------------------------
(***************************************************************************)
(* The scans that copy the newest message of each hidden address from the  *)
(* forwarding mailbox into the inventory of the local dashboard:           *)
(* InventoryMailService with checkOne, checkFinished and checkUnused.      *)
(*                                                                         *)
(* A scan takes a snapshot of its rows, waits for IMAP, and writes its     *)
(* findings in one mutation of the store.  Meanwhile mail arrives, the     *)
(* operator reads, moves and deletes rows, jobs claim and release them,    *)
(* and other scans run.                                                    *)
(*                                                                         *)
(* The messages of an address are numbered by their receivedAt.  Every row *)
(* is active; status texts and the code itself are left out.               *)
(***************************************************************************)
EXTENDS Naturals, FiniteSets, Functions

CONSTANTS
    Ids,        \* inventory rows
    Scans,      \* scans that may be under way at once
    MaxMail     \* bound on the messages of an address

ASSUME MailAssumption ==
    /\ IsFiniteSet(Ids)
    /\ MaxMail \in Nat

VARIABLES
    rows,
    newest,     \* the newest message of each address in the forwarding mailbox
    scans,
    migrated,
    result,     \* what the last scan to end has answered
    read,       \* history: the newest message of each row marked as read
    crossed     \* history: the rows of a scan that others crossed (Crossing)

vars == <<rows, newest, scans, migrated, result, read, crossed>>

Groups == {"unused", "finished", "trash"}
Messages == 0..MaxMail      \* 0: none

Rows == [group : Groups \cup {"gone"}, claimed : BOOLEAN, seen : Messages, unread : BOOLEAN]

Kinds == {"one", "finished", "unused"}

(* What a scan saw of a row.                                                *)
Snapshots == UNION {[T -> [group : Groups, seen : Messages]] : T \in SUBSET Ids}
NoRows == [i \in {} |-> 0]

ScanRecords ==
    [stage : {"idle", "fetching", "fetched"}, kind : Kinds \cup {"none"},
     snapshot : Snapshots, found : UNION {[T -> Messages] : T \in SUBSET Ids}]
IdleScan == [stage |-> "idle", kind |-> "none", snapshot |-> NoRows, found |-> NoRows]

Results == [ok : BOOLEAN, updated : 0..Cardinality(Ids), moved : 0..Cardinality(Ids)]

Present == {i \in Ids : rows[i].group # "gone"}

(* Rows, scans and results keep their shape, and only the migration puts a  *)
(* claimed row in another group than "finished".                            *)
TypeOK ==
    /\ rows \in [Ids -> Rows]
    /\ newest \in [Ids -> Messages]
    /\ scans \in [Scans -> ScanRecords]
    /\ migrated \in BOOLEAN
    /\ result \in Results
    /\ read \in [Ids -> Messages]
    /\ crossed \in [Scans -> SUBSET Ids]
    /\ \A i \in Ids : rows[i].claimed /\ ~migrated => rows[i].group = "finished"

Init ==
    /\ rows = [i \in Ids |-> [group |-> "unused", claimed |-> FALSE,
                              seen |-> 0, unread |-> FALSE]]
    /\ newest = [i \in Ids |-> 0]
    /\ scans = [s \in Scans |-> IdleScan]
    /\ migrated = FALSE
    /\ result = [ok |-> FALSE, updated |-> 0, moved |-> 0]
    /\ read = [i \in Ids |-> 0]
    /\ crossed = [s \in Scans |-> {}]

-----------------------------------------------------------------------------
(* What happens around a scan.                                              *)

Arrive(i) ==
    /\ newest[i] < MaxMail
    /\ newest' = [newest EXCEPT ![i] = @ + 1]
    /\ UNCHANGED <<rows, scans, migrated, read, result>>

Marked(i, m) == read' = [read EXCEPT ![i] = IF m > @ THEN m ELSE @]

(* The operator opens the stored message, or marks the row or all of them.  *)
MarkRead(i) ==
    /\ i \in Present /\ rows[i].unread
    /\ rows' = [rows EXCEPT ![i].unread = FALSE]
    /\ Marked(i, rows[i].seen)
    /\ UNCHANGED <<newest, scans, migrated, result>>

MovesClaimedRow(i, g) == g # rows[i].group /\ rows[i].claimed

Move(i, g) ==
    /\ i \in Present /\ g # rows[i].group
    /\ ~MovesClaimedRow(i, g)
    /\ rows' = [rows EXCEPT ![i].group = g]
    /\ UNCHANGED <<newest, scans, migrated, read, result>>

Delete(i) ==
    /\ rows[i].group = "trash" /\ ~rows[i].claimed
    /\ rows' = [rows EXCEPT ![i].group = "gone"]
    /\ UNCHANGED <<newest, scans, migrated, read, result>>

(* The page's delete: one patch of both fields.                             *)
Trash(i) ==
    /\ i \in Present /\ ~MovesClaimedRow(i, "trash")
    /\ rows' = [rows EXCEPT ![i].group = "trash", ![i].unread = FALSE]
    /\ Marked(i, rows[i].seen)
    /\ UNCHANGED <<newest, scans, migrated, result>>

(* Claims (InventoryState.tla).                                             *)
Claim(i) ==
    /\ rows[i].group = "unused" /\ ~rows[i].claimed
    /\ rows' = [rows EXCEPT ![i].group = "finished", ![i].claimed = TRUE]
    /\ UNCHANGED <<newest, scans, migrated, read, result>>

Release(i) ==
    /\ rows[i].claimed
    /\ rows' = [rows EXCEPT ![i].group = "unused", ![i].claimed = FALSE]
    /\ UNCHANGED <<newest, scans, migrated, read, result>>

(* The migration takes over what the browser has kept of a row.             *)
Migrate(i, g) ==
    /\ ~migrated
    /\ i \in Present
    /\ \E m \in 0..newest[i], unread \in BOOLEAN :
        /\ m = 0 => ~unread
        /\ rows' = [rows EXCEPT ![i].group = g, ![i].seen = m, ![i].unread = unread]
        /\ IF unread THEN UNCHANGED read ELSE Marked(i, m)
    /\ migrated' = TRUE
    /\ UNCHANGED <<newest, scans, result>>

-----------------------------------------------------------------------------
(* A scan.                                                                  *)

Targets(kind) ==
    CASE kind = "one"      -> {{i} : i \in Present}
      [] kind = "finished" -> {{i \in Present : rows[i].group = "finished"}} \ {{}}
      [] kind = "unused"   -> {{i \in Present : rows[i].group = "unused"}} \ {{}}

(* A batch of the same kind that is under way is joined, a single check is  *)
(* not.                                                                     *)
Joins_Never(kind) == FALSE                  \* mutant

Joins(kind) == kind # "one" /\ \E s \in Scans : scans[s].kind = kind

Begin(s, kind) ==
    /\ scans[s].stage = "idle"
    /\ ~Joins(kind)
    /\ \E T \in Targets(kind) :
        scans' = [scans EXCEPT ![s] =
            [IdleScan EXCEPT !.stage = "fetching", !.kind = kind,
                !.snapshot = [i \in T |-> [group |-> rows[i].group, seen |-> rows[i].seen]]]]
    /\ UNCHANGED <<rows, newest, migrated, read, result>>

(* IMAP answers with the newest message of each address among those in the  *)
(* window of a folder it could open: a folder that cannot be opened is      *)
(* passed over, and an older message, or none, stands for the newest.       *)
Fetch(s) ==
    /\ scans[s].stage = "fetching"
    /\ \E found \in [DOMAIN scans[s].snapshot -> Messages] :
        /\ \A i \in DOMAIN found : found[i] <= newest[i]
        /\ scans' = [scans EXCEPT ![s].stage = "fetched", ![s].found = found]
    /\ UNCHANGED <<rows, newest, migrated, read, result>>

Matched(s) == {i \in DOMAIN scans[s].found : scans[s].found[i] # 0}

(* The entries that updateInventoryItems applies: rows that are still there *)
(* and still in the group the scan saw them in.                             *)
Applied_AnyGroup(s) == DOMAIN scans[s].found \cap Present      \* mutant

Applied(s) ==
    {i \in DOMAIN scans[s].found \cap Present :
        rows[i].group = scans[s].snapshot[i].group}

(* The group a scan sets: mail for an unused row finishes it.               *)
Finishes(s, i) ==
    scans[s].snapshot[i].group = "unused" /\ i \in Matched(s)

IsNewerThanStored(s, i) == scans[s].found[i] > scans[s].snapshot[i].seen

messagePatch_SetsFlag(s, i) ==              \* mutant
    [rows[i] EXCEPT
        !.group = IF Finishes(s, i) THEN "finished" ELSE @,
        !.seen = scans[s].found[i],
        !.unread = IsNewerThanStored(s, i)]

messagePatch(s, i) ==
    [rows[i] EXCEPT
        !.group = IF Finishes(s, i) THEN "finished" ELSE @,
        !.seen = scans[s].found[i],
        !.unread = @ \/ IsNewerThanStored(s, i)]

Report_Planned(s) ==                        \* mutant
    [ok |-> TRUE, updated |-> Cardinality(Matched(s)),
     moved |-> Cardinality({i \in Matched(s) : Finishes(s, i)})]

Report(s) ==
    [ok |-> TRUE,
     updated |-> Cardinality(Applied(s) \cap Matched(s)),
     moved |-> Cardinality({i \in Applied(s) \cap Matched(s) : Finishes(s, i)})]

(* One entry that would move a claimed row fails them all.                  *)
CanApply(s) ==
    \A i \in Applied(s) : ~(Finishes(s, i) /\ MovesClaimedRow(i, "finished"))

Apply(s) ==
    /\ scans[s].stage = "fetched"
    /\ CanApply(s)
    /\ rows' = [i \in Ids |->
                    IF i \in Applied(s) \cap Matched(s) THEN messagePatch(s, i) ELSE rows[i]]
    /\ result' = Report(s)
    /\ scans' = [scans EXCEPT ![s] = IdleScan]
    /\ UNCHANGED <<newest, migrated, read>>

(* IMAP or the store fails, or CLAIM_ACTIVE is thrown.                      *)
Fail(s) ==
    /\ scans[s].stage # "idle"
    /\ scans' = [scans EXCEPT ![s] = IdleScan]
    /\ result' = [ok |-> FALSE, updated |-> 0, moved |-> 0]
    /\ UNCHANGED <<rows, newest, migrated, read>>

Ends(s) == scans[s].stage = "fetched" /\ scans'[s].stage = "idle"

Batch(s) == scans[s].kind # "one"

(* While a scan waits it is crossed at a row that leaves the group it had,  *)
(* or gets other mail, except by a batch while a batch waits: nothing keeps *)
(* a check of a single row, or the migration, apart from other checks.      *)
Crossing(s) ==
    {i \in DOMAIN scans[s].snapshot :
        \/ rows'[i].group # rows[i].group
        \/ /\ rows'[i].seen # rows[i].seen
           /\ ~(Batch(s) /\ \E t \in Scans : Ends(t) /\ Batch(t))}

Recorded ==
    crossed' = [s \in Scans |->
        IF scans'[s].stage = "idle" THEN {} ELSE crossed[s] \cup Crossing(s)]

Around == \E i \in Ids :
    \/ Arrive(i) \/ MarkRead(i) \/ Trash(i) \/ Delete(i) \/ Claim(i) \/ Release(i)
    \/ \E g \in Groups : Move(i, g) \/ Migrate(i, g)

Scan(s) ==
    \/ \E kind \in Kinds : Begin(s, kind)
    \/ Fetch(s) \/ Apply(s) \/ Fail(s)

Next == (Around \/ \E s \in Scans : Scan(s)) /\ Recorded

Spec == Init /\ [][Next]_vars

-----------------------------------------------------------------------------
(* The comment above isNewerThanStored: "only a strictly newer message is   *)
(* allowed to raise the unread flag", newer than the one that is stored     *)
(* when the scan writes.  It compares with the snapshot instead.            *)
OnlyNewerRaisesUnread ==
    [][\A s \in Scans, i \in Ids : Ends(s) /\ ~rows[i].unread /\ rows'[i].unread =>
            rows'[i].seen > rows[i].seen]_vars

(* What holds of it: mail marked as read becomes unread again, without      *)
(* newer mail, only by the migration or a check that was crossed.  Batches  *)
(* that overlap one another never do it, as those of a kind are joined and  *)
(* those of two kinds kept apart by expectedGroup.                          *)
ReadMailStaysRead ==
    [][\A i \in Ids : ~rows[i].unread /\ rows'[i].unread =>
            \/ rows'[i].seen > rows[i].seen
            \/ migrated' # migrated
            \/ \E s \in Scans : Ends(s) /\ i \in crossed[s]]_vars

Flagged(i) == rows[i].seen > read[i] => rows[i].unread

(* Stored mail newer than all that was marked as read stays unread until it *)
(* is marked, though a folder that fails to open brings back older mail,    *)
(* which is read in its place: only a crossed check loses the flag          *)
(* (isNewerThanStored with its snapshot, #scanAliases).                     *)
UnreadMailStaysUnread ==
    [][\A i \in Ids : Flagged(i) /\ ~Flagged(i)' =>
            \E s \in Scans : Ends(s) /\ i \in crossed[s]]_vars

(* A decision made while IMAP was busy stands: a scan neither brings a row  *)
(* back from the trash or the dead nor takes one out of the group its claim *)
(* put it in (expectedGroup of updateInventoryItems).                       *)
DecisionsStand ==
    [][\A s \in Scans, i \in Ids : Ends(s) /\ rows'[i].group # rows[i].group =>
            rows[i].group = "unused" /\ ~rows[i].claimed /\ rows'[i].group = "finished"]_vars

(* The counters of a check are those of the rows it has changed, not of the *)
(* rows it set out to change (runBatch, checkOne).                          *)
ReportsWhatItDid ==
    [][\A s \in Scans : Ends(s) /\ result'.ok =>
            /\ result'.moved = Cardinality({i \in Ids : rows'[i].group # rows[i].group})
            /\ result'.updated >= Cardinality({i \in Ids : rows'[i] # rows[i]})]_vars

=============================================================================
