--------------------------- MODULE DashboardStore ---------------------------
(***************************************************************************)
(* DashboardStore.mutate (lib/dashboard-store.mjs) with the operations of  *)
(* DashboardStore and ClaimService that go through it.                     *)
(*                                                                         *)
(* Mutations are chained on one promise, so one runs at a time.  It reads  *)
(* the state file and runs its worker on the copy, moves what has expired  *)
(* to the day's archive file, renames the new state file into place, and   *)
(* only then answers.  Each of these steps is an action here: a crash, a   *)
(* failed write, the clock and midnight can fall between any two of them.  *)
(***************************************************************************)
EXTENDS InventoryState

CONSTANTS
    Flags,      \* the isActive values requests carry
    MaxTime,    \* bound on the clock
    MaxDay      \* bound on the calendar days it spans

ASSUME FlagsAssumption == Flags \subseteq BOOLEAN
ASSUME BoundsAssumption == MaxTime \in Nat /\ MaxDay \in Nat

VARIABLES
    disk,       \* the state file
    archive,    \* the archive file of each day
    backups,    \* what the backup directory holds
    phase,      \* how far the running mutation is
    mem,        \* its copy of the document
    call,       \* the answer it will give
    answers,    \* history: the claims callers were told of
    now,        \* the clock
    today       \* its calendar day

vars == <<disk, archive, backups, phase, mem, call, answers, now, today>>

Days == 0..MaxDay
Phases == {"idle", "worked", "archived"}

(* The answer to claimNext; those of the other operations are not told      *)
(* apart.                                                                   *)
Claimed(k, c) == [key |-> k, claim |-> c]
Answers == [key : Keys, claim : ClaimIds]
Other == [key |-> None, claim |-> None]

(* A backup file: one deleted row, or the submitted browser inventory.      *)
DeletedRow(i, row) == [id |-> i, row |-> row]
LegacySnapshot == [id |-> None, row |-> AbsentRow]
Backups == [id : Ids, row : Rows] \cup {LegacySnapshot}

Archived(c) == \E d \in Days : archive[d].claims[c] # NoClaim

(* randomUUID: an id no row and no claim has had.                           *)
UnusedIds == {i \in Ids \ Present(disk) : \A b \in backups : b.id # i}
UnusedClaimIds == {c \in ClaimIds \ Known(disk) : ~Archived(c)}

(* Documents and files keep their shape whatever worker, sweep or crash     *)
(* comes next: no dangling group, owner or record of half a claim.          *)
TypeOK ==
    /\ disk \in Documents
    /\ archive \in [Days -> ArchiveFiles]
    /\ backups \subseteq Backups
    /\ phase \in Phases
    /\ mem \in Documents
    /\ call \in Answers \cup {Other}
    /\ answers \subseteq Answers
    /\ now \in 0..MaxTime
    /\ today \in Days

Init ==
    /\ disk = emptyState
    /\ archive = [d \in Days |-> emptyArchive]
    /\ backups = {}
    /\ phase = "idle"
    /\ mem = emptyState
    /\ call = Other
    /\ answers = {}
    /\ now = 0
    /\ today = 0

-----------------------------------------------------------------------------
(* The workers.  One that throws leaves no trace, and is not a step.        *)

Work(st, answer) ==
    /\ phase = "idle"
    /\ phase' = "worked"
    /\ mem' = st
    /\ call' = answer
    /\ UNCHANGED <<disk, archive, answers, now, today>>

(* claimNext of a key that has a claim returns that claim ...               *)
ClaimAgain(k) ==
    /\ disk.keys[k] \in Known(disk)
    /\ Work(disk, Claimed(k, disk.keys[k]))
    /\ UNCHANGED backups

(* ... and of any other key takes an available row, if there is one.        *)
ClaimNext_NoLookup(k) ==   \* mutant
    /\ \E i \in AvailableRows(disk), c \in UnusedClaimIds :
            Work(claimNext(disk, k, i, c), Claimed(k, c))
    /\ UNCHANGED backups

ClaimNext(k) ==
    /\ disk.keys[k] = None
    /\ \E i \in AvailableRows(disk), c \in UnusedClaimIds :
            Work(claimNext(disk, k, i, c), Claimed(k, c))
    /\ UNCHANGED backups

ReleaseClaim(c) ==
    /\ c \in Known(disk)
    /\ Work(releaseClaim(disk, c, now), Other)
    /\ UNCHANGED backups

(* syncAliases, createInventoryItems.  A list of no address still sweeps.   *)
UpsertAliases ==
    /\ \E E \in SUBSET Emails :
        \E isActive \in [E -> Flags \cup {None}],
           fresh \in FreshRows(disk, E, UnusedIds) :
                Work(upsertAliases(disk, isActive, fresh), Other)
    /\ UNCHANGED backups

(* The submitted snapshot is backed up before the rows are touched.         *)
InitializeFromLegacy ==
    /\ ~disk.migrated
    /\ \E E \in SUBSET Emails :
        \E group \in [E -> Groups], fresh \in FreshRows(disk, E, UnusedIds) :
                Work(initializeFromLegacy(disk, group, fresh), Other)
    /\ backups' = backups \cup {LegacySnapshot}

(* PATCH of one row.                                                        *)
UpdateInventoryItem(i) ==
    /\ i \in Present(disk)
    /\ \E p \in [group : Groups \cup {None}, active : Flags \cup {None}] :
        LET patch == [j \in {i} |-> p]
        IN  /\ CanUpdate(disk, patch, None)
            /\ Work(updateInventoryItems(disk, patch, None), Other)
    /\ UNCHANGED backups

(* A batch of group moves, each meant for a row its sender saw in group     *)
(* expected; rows that have moved or gone since are passed over.            *)
UpdateInventoryItems ==
    /\ \E batch \in SUBSET Ids \ {{}}, expected \in Groups, g \in Groups :
        LET patch == [i \in batch |-> [group |-> g, active |-> None]]
        IN  /\ CanUpdate(disk, patch, expected)
            /\ Work(updateInventoryItems(disk, patch, expected), Other)
    /\ UNCHANGED backups

(* The row is backed up before it leaves the document.                      *)
DeleteInventoryItem_AnyBackup(i) ==   \* mutant
    /\ CanDelete(disk, i)
    /\ Work(deleteInventoryItem(disk, i), Other)
    /\ backups' \in {backups, backups \cup {DeletedRow(i, disk.rows[i])}}

DeleteInventoryItem(i) ==
    /\ CanDelete(disk, i)
    /\ Work(deleteInventoryItem(disk, i), Other)
    /\ backups' = backups \cup {DeletedRow(i, disk.rows[i])}

Worker ==
    \/ \E k \in Keys : ClaimAgain(k) \/ ClaimNext(k)
    \/ \E c \in ClaimIds : ReleaseClaim(c)
    \/ UpsertAliases
    \/ InitializeFromLegacy
    \/ \E i \in Ids : UpdateInventoryItem(i) \/ DeleteInventoryItem(i)
    \/ UpdateInventoryItems

-----------------------------------------------------------------------------
(* The rest of mutate.                                                      *)

(* archiveExpired: the archive file lands before the document is trimmed,   *)
(* and is not written when nothing has expired.                             *)
ArchiveExpired_ErrorSwallowed ==   \* mutant
    /\ phase = "worked"
    /\ phase' = "archived"
    /\ archive' \in {archive, [archive EXCEPT ![today] = appendArchive(@, mem, now)]}
    /\ mem' = archiveExpired(mem, now)
    /\ UNCHANGED <<disk, backups, call, answers, now, today>>

ArchiveExpired ==
    /\ phase = "worked"
    /\ phase' = "archived"
    /\ archive' = [archive EXCEPT ![today] = appendArchive(@, mem, now)]
    /\ mem' = archiveExpired(mem, now)
    /\ UNCHANGED <<disk, backups, call, answers, now, today>>

(* The caller gets its answer once the rename is done, unless the process   *)
(* or the connection ends first.                                            *)
WriteAtomic_Torn ==   \* mutant
    /\ phase = "archived"
    /\ phase' = "idle"
    /\ disk' \in {mem, [mem EXCEPT !.rows = disk.rows]}
    /\ answers' \in {answers, answers \cup ({call} \cap Answers)}
    /\ mem' = disk'
    /\ call' = Other
    /\ UNCHANGED <<archive, backups, now, today>>

WriteAtomic ==
    /\ phase = "archived"
    /\ phase' = "idle"
    /\ disk' = mem
    /\ answers' \in {answers, answers \cup ({call} \cap Answers)}
    /\ call' = Other
    /\ UNCHANGED <<archive, backups, mem, now, today>>

(* The copy is dropped when a backup, archive or state file cannot be       *)
(* written or a damaged archive cannot be read (the caller gets             *)
(* STORAGE_ERROR), and when the process ends.                               *)
StorageErrorOrCrash ==
    /\ phase # "idle"
    /\ phase' = "idle"
    /\ mem' = disk
    /\ call' = Other
    /\ UNCHANGED <<disk, archive, backups, answers, now, today>>

(* The clock moves at any time, and may cross midnight.  A worker and the   *)
(* sweep after it read it in one turn of the event loop, milliseconds apart *)
(* at most, which only a retention of zero can tell from one instant.       *)
Tick ==
    /\ now < MaxTime
    /\ phase = "worked" => Retention = 0
    /\ now' = now + 1
    /\ today' \in {today, today + 1} \cap Days
    /\ UNCHANGED <<disk, archive, backups, phase, mem, call, answers>>

Next == Worker \/ ArchiveExpired \/ WriteAtomic \/ StorageErrorOrCrash \/ Tick

Spec == Init /\ [][Next]_vars

-----------------------------------------------------------------------------
(* What a document must satisfy, on the disk and in the hands of a worker.  *)

(* A row and the claim that holds it point at each other: activeClaimId     *)
(* names an active claim of that row, and every active claim is named by    *)
(* its row.  Otherwise release cannot find the way back to "unused".        *)
RowsAndClaims(st) ==
    /\ \A i \in Ids : LET c == st.rows[i].claim IN
            c # None => st.claims[c].status = "active" /\ st.claims[c].item = i
    /\ \A c \in Known(st) :
            st.claims[c].status = "active" =>
                st.rows[st.claims[c].item].claim = c

(* The idempotency map is the inverse of the claims' keys.  Otherwise a     *)
(* retry fails with "Claim idempotency state is inconsistent" or takes a    *)
(* second address.                                                          *)
KeysAndClaims(st) ==
    /\ \A k \in Keys : st.keys[k] # None =>
            st.keys[k] \in Known(st) /\ st.claims[st.keys[k]].key = k
    /\ \A c \in Known(st) : st.keys[st.claims[c].key] = c

(* An address has one row, whichever upsert brought it in.                  *)
OneRowPerEmail(st) ==
    \A i, j \in Present(st) : st.rows[i].email = st.rows[j].email => i = j

(* A claim carries the address of the row it holds.                         *)
ClaimedAddress(st) ==
    \A i \in Ids : LET c == st.rows[i].claim IN
        c # None => st.claims[c].email = st.rows[i].email

Active(st) == {c \in Known(st) : st.claims[c].status = "active"}

(* Every committed document has its rows and claims in agreement, through   *)
(* claims, releases, moves, deletions, migration, sweeps and crashes        *)
(* (claimNext, releaseClaim, deleteInventoryItem, archiveExpired).          *)
RowsAndClaimsAgree == RowsAndClaims(disk)

(* Every committed document resolves every idempotency key to the claim     *)
(* made under it (claimNext, archiveExpired).                               *)
KeysAndClaimsAgree == KeysAndClaims(disk)

(* Two jobs never hold the same address, even when its row was deleted and  *)
(* came back under a new id (claimNext with the upserts).                   *)
NoAddressHeldTwice ==
    \A c, d \in Active(disk) :
        disk.claims[c].email = disk.claims[d].email => c = d

(* No interleaving of syncs, creations, the migration and deletions gives   *)
(* an address a second row (the byEmail maps of the upserts).               *)
NoAddressListedTwice == OneRowPerEmail(disk)

(* Until the browser migration, which takes any group it is sent, a claimed *)
(* row stays in "finished" whatever the PATCH and mail-check batches ask    *)
(* (the CLAIM_ACTIVE guard of applyInventoryPatch).                         *)
ClaimedRowsStayFinished ==
    \A i \in Ids : disk.rows[i].claim # None =>
        disk.rows[i].group = "finished" \/ disk.migrated

(* A claim its caller was told of is never lost: it is in the state file or *)
(* in an archive file, whatever failed or crashed after the answer (mutate  *)
(* answers after the rename; the archive is written before the trim).       *)
ToldClaimsSurvive ==
    \A a \in answers :
        \/ a.claim \in Known(disk) /\ disk.claims[a.claim].key = a.key
        \/ Archived(a.claim)

(* A retried key is answered with the same claim until that claim has been  *)
(* released and archived, also across lost answers and crashes (the         *)
(* idempotency lookup of claimNext).                                        *)
SameKeySameClaim ==
    \A a, b \in answers :
        a.key = b.key /\ a.claim # b.claim =>
            \E c \in {a.claim, b.claim} : Archived(c) /\ c \notin Active(disk)

(* An archived record is final: it is a released claim, no other day's file *)
(* disagrees with it, and a copy still in the state file (the write after   *)
(* the archive failed) is the same (appendArchive, releaseClaim).           *)
ArchiveIsFinal ==
    \A d \in Days, c \in ClaimIds : LET r == archive[d].claims[c] IN
        r # NoClaim =>
            /\ r.status = "released"
            /\ c \in Known(disk) => disk.claims[c] = r
            /\ \A e \in Days : archive[e].claims[c] \in {NoClaim, r}

(* A claim is archived together with its key: the file that has the claim   *)
(* maps its key to that claim or to a later claim of the same key           *)
(* (archiveExpired, appendArchive).                                         *)
KeysArchivedWithClaims ==
    \A d \in Days, c \in ClaimIds : archive[d].claims[c] # NoClaim =>
        LET k == archive[d].claims[c].key
            other == archive[d].keys[k]
        IN  /\ other # None
            /\ archive[d].claims[other].key = k

ReleaseOf(old, new) ==
    /\ old.status = "active"
    /\ new = [old EXCEPT !.status = "released", !.releasedAt = new.releasedAt]

(* From one committed document to the next a claim stays as it is, or is    *)
(* released with nothing else changed, or has been in its final form in an  *)
(* archive file since its retention ran out (releaseClaim, archiveExpired). *)
ClaimsMoveForward ==
    [][\A c \in Known(disk) :
        LET old == disk.claims[c] IN
        \/ disk'.claims[c] = old
        \/ ReleaseOf(old, disk'.claims[c])
        \/ /\ disk'.claims[c] = NoClaim
           /\ \E d \in Days : LET r == archive[d].claims[c] IN
                /\ r = old \/ ReleaseOf(old, r)
                /\ r.releasedAt + Retention < now]_vars

(* A row that leaves the state file was in the trash, unclaimed, and is in  *)
(* the backup directory as it was (deleteInventoryItem, which can fail or   *)
(* crash between the backup and the write).                                 *)
RemovedRowsAreBackedUp ==
    [][\A i \in Present(disk) \ Present(disk') :
        /\ disk.rows[i].group = "trash"
        /\ disk.rows[i].claim = None
        /\ DeletedRow(i, disk.rows[i]) \in backups]_vars

(* What the comment above appendArchive says of a sweep that runs again     *)
(* after its state write failed: it "converges instead of accumulating      *)
(* duplicates".                                                             *)
NoClaimArchivedTwice ==
    \A c \in ClaimIds, d, e \in Days :
        archive[d].claims[c] # NoClaim /\ archive[e].claims[c] # NoClaim => d = e

-----------------------------------------------------------------------------
(* The ledger the state file and the archive files stand for.  A claim that *)
(* is in both is still in the ledger.                                       *)

LedgerStatus ==
    [c \in ClaimIds |->
        IF c \in Known(disk) THEN disk.claims[c].status
        ELSE IF Archived(c) THEN "archived" ELSE "none"]

LedgerAddress ==
    [c \in ClaimIds |-> IF c \in Known(disk) THEN disk.claims[c].email ELSE None]

Ledger == INSTANCE ClaimLedger WITH
    status <- LedgerStatus, address <- LedgerAddress, claimOf <- disk.keys

(* To its callers the store is an atomic ledger of exclusive claims: only   *)
(* the rename of the state file changes it, by one claim, one release or    *)
(* nothing, and whatever that mutation swept (mutate, claimNext,            *)
(* releaseClaim, archiveExpired).                                           *)
ImplementsLedger == Ledger!Spec

=============================================================================
