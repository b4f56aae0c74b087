-------------------------- MODULE Durability_proofs --------------------------
(***************************************************************************)
(* Nothing a caller was told of, and no row, is lost by a failed write or  *)
(* a crash between two steps of a mutation (DashboardStore); what the      *)
(* archive files have is final; and to its callers the store is the        *)
(* ledger of ClaimLedger.                                                  *)
(***************************************************************************)
EXTENDS DashboardStore_proofs

(* The copy a mutation works on, with the archive as it is by now, accounts *)
(* for every claim of the disk, and for the one it will answer with; the    *)
(* rows it lacks were in the trash, unclaimed, and are backed up.           *)

Carried(c, k) == (c \in Known(mem) /\ mem.claims[c].key = k) \/ Archived(c)

Removable(i) ==
    /\ disk.rows[i].group = "trash"
    /\ disk.rows[i].claim = None
    /\ DeletedRow(i, disk.rows[i]) \in backups

Durable ==
    /\ ToldClaimsSurvive
    /\ phase # "idle" =>
        /\ \A c \in Known(disk) : Carried(c, disk.claims[c].key)
        /\ call \in Answers => Carried(call.claim, call.key)
        /\ \A i \in Present(disk) \ Present(mem) : Removable(i)

DInv == Inv /\ Durable

(* What a worker leaves of the document it was given.                       *)
Keeps(st) ==
    /\ \A c \in Known(disk) : c \in Known(st) /\ st.claims[c].key = disk.claims[c].key
    /\ Present(disk) \subseteq Present(st)

(* Every worker but the deletion keeps all claims, their keys and all rows. *)
(* claimNext adds the claim of its answer.                                  *)
LEMMA ClaimNextKeeps ==
    ASSUME Inv, NEW k \in Keys, NEW i \in AvailableRows(disk), NEW c \in UnusedClaimIds
    PROVE  /\ Keeps(claimNext(disk, k, i, c))
           /\ c \in Known(claimNext(disk, k, i, c))
           /\ claimNext(disk, k, i, c).claims[c].key = k
<1> DEFINE new == claimNext(disk, k, i, c)
<1>1. disk \in Documents /\ c \in ClaimIds \ Known(disk) /\ i \in Ids
  BY UnusedAreNew DEF Inv, TypeOK, AvailableRows
<1>2. /\ new.claims = [disk.claims EXCEPT ![c] =
                         [status |-> "active", item |-> i, email |-> disk.rows[i].email,
                          key |-> k, releasedAt |-> 0]]
      /\ new.rows = [disk.rows EXCEPT ![i] = [@ EXCEPT !.group = "finished", !.claim = c]]
  BY <1>1 DEF claimNext, Documents
<1>3. disk.rows[i] \in Rows
  BY <1>1 DEF AvailableRows, Available, Documents, AbsentRow
<1>4. new.rows[i].group = "finished"
  BY <1>1, <1>2, <1>3 DEF Documents, Rows
<1> HIDE DEF new
<1>5. Present(disk) \subseteq Present(new)
  BY <1>1, <1>2, <1>4 DEF Present, Documents
<1>6. /\ \A d \in Known(disk) : d \in Known(new) /\ new.claims[d].key = disk.claims[d].key
      /\ c \in Known(new) /\ new.claims[c].key = k
  BY <1>1, <1>2 DEF Known, Documents
<1> QED BY <1>5, <1>6 DEF Keeps, new

(* A release changes the status of one claim.                               *)
LEMMA ReleaseClaimKeeps ==
    ASSUME Inv, NEW c \in Known(disk), NEW at \in Nat
    PROVE  Keeps(releaseClaim(disk, c, at))
<1> DEFINE new == releaseClaim(disk, c, at)
<1>1. disk \in Documents /\ c \in ClaimIds /\ disk.claims[c] \in Claims
  BY DEF Inv, TypeOK, Documents, Known, NoClaim
<1>2. CASE disk.claims[c].status = "released"
  BY <1>2 DEF releaseClaim, Keeps
<1>3. CASE disk.claims[c].status # "released"
  <2>1. /\ new.claims = [disk.claims EXCEPT ![c] =
                            [@ EXCEPT !.status = "released", !.releasedAt = at]]
        /\ \A i \in Ids : new.rows[i] = IF i \in HeldBy(disk, c)
                THEN [disk.rows[i] EXCEPT !.group = "unused", !.claim = None]
                ELSE disk.rows[i]
    BY <1>1, <1>3 DEF releaseClaim, Documents
  <2>2. new.claims[c].status = "released" /\ new.claims[c].key = disk.claims[c].key
    BY <1>1, <2>1 DEF Documents, Claims
  <2>3. \A i \in HeldBy(disk, c) : disk.rows[i] \in Rows
    BY <1>1, NoneAssumption DEF HeldBy, Documents, AbsentRow
  <2>4. \A i \in HeldBy(disk, c) : new.rows[i].group = "unused"
    BY <2>1, <2>3 DEF HeldBy, Rows
  <2> HIDE DEF new
  <2>5. Present(disk) \subseteq Present(new)
    BY <2>1, <2>4 DEF Present
  <2>6. \A d \in Known(disk) : d \in Known(new) /\ new.claims[d].key = disk.claims[d].key
    BY <1>1, <2>1, <2>2 DEF Known, Documents
  <2> QED BY <2>5, <2>6 DEF Keeps, new
<1> QED BY <1>2, <1>3

(* The other workers leave the claims alone and make no row absent.         *)
LEMMA RowWorkersKeep ==
    ASSUME Inv, NEW st, st.claims = disk.claims,
           \A i \in Present(disk) : st.rows[i].group # "absent"
    PROVE  Keeps(st)
BY DEF Keeps, Known, Present

(* syncAliases, createInventoryItems.                                       *)
LEMMA UpsertKeeps ==
    ASSUME Inv, NEW E \in SUBSET Emails, NEW isActive \in [E -> BOOLEAN \cup {None}],
           NEW fresh
    PROVE  Keeps(upsertAliases(disk, isActive, fresh))
<1> DEFINE new == upsertAliases(disk, isActive, fresh)
<1>1. disk \in Documents
  BY DEF Inv, TypeOK
<1>2. \A i \in Present(disk) : disk.rows[i] \in Rows /\ i \in Ids
  BY <1>1 DEF Present, Documents, AbsentRow
<1>3. \A i \in Present(disk) : new.rows[i].group # "absent"
  BY <1>1, <1>2 DEF upsertAliases, NewRow, Documents, Rows, Groups
<1>4. new.claims = disk.claims
  BY <1>1 DEF upsertAliases, Documents
<1> QED BY <1>3, <1>4, RowWorkersKeep

(* initializeFromLegacy.                                                    *)
LEMMA LegacyKeeps ==
    ASSUME Inv, NEW E \in SUBSET Emails, NEW group \in [E -> Groups],
           NEW fresh \in FreshRows(disk, E, UnusedIds)
    PROVE  Keeps(initializeFromLegacy(disk, group, fresh))
<1> DEFINE new == initializeFromLegacy(disk, group, fresh)
<1>1. disk \in Documents
  BY DEF Inv, TypeOK
<1>2. \A i \in Present(disk) : disk.rows[i] \in Rows /\ i \in Ids
  BY <1>1 DEF Present, Documents, AbsentRow
<1>3. \A i \in Present(disk) : i \notin DOMAIN fresh
  <2>1. UnusedIds \in SUBSET (Ids \ Present(disk))
    BY UnusedAreNew
  <2>2. NewFor(disk, E, fresh)
    BY <1>1, <2>1, FreshRowsAreNew
  <2> QED BY <2>2 DEF NewFor, Present, AbsentRow
<1>4. \A i \in Present(disk) : new.rows[i].group # "absent"
  BY <1>1, <1>2, <1>3 DEF initializeFromLegacy, Documents, Rows, Groups
<1>5. new.claims = disk.claims
  BY <1>1 DEF initializeFromLegacy, Documents
<1> QED BY <1>4, <1>5, RowWorkersKeep

(* updateInventoryItem, updateInventoryItems.                               *)
LEMMA UpdateKeeps ==
    ASSUME Inv, NEW batch \in SUBSET Ids, NEW patch \in [batch -> Patches], NEW expected
    PROVE  Keeps(updateInventoryItems(disk, patch, expected))
<1> DEFINE new == updateInventoryItems(disk, patch, expected)
<1>1. disk \in Documents
  BY DEF Inv, TypeOK
<1>2. \A i \in Present(disk) : disk.rows[i] \in Rows /\ i \in Ids
  BY <1>1 DEF Present, Documents, AbsentRow
<1>3. ASSUME NEW row \in Rows, NEW p \in Patches
      PROVE  patched(row, p).group # "absent"
  BY <1>3 DEF patched, Rows, Patches, Groups
<1>4. \A i \in Present(disk) : new.rows[i].group # "absent"
  BY <1>1, <1>2, <1>3 DEF updateInventoryItems, Documents, Rows, Groups
<1>5. new.claims = disk.claims
  BY <1>1 DEF updateInventoryItems, Documents
<1> QED BY <1>4, <1>5, RowWorkersKeep

-----------------------------------------------------------------------------
(* A worker that keeps the document, and answers with a claim it holds.     *)
LEMMA WorkKeepsDurable ==
    ASSUME DInv, NEW st, NEW answer, Work(st, answer), Keeps(st), backups' = backups,
           answer \in Answers =>
                answer.claim \in Known(st) /\ st.claims[answer.claim].key = answer.key
    PROVE  Durable'
<1>1. /\ UNCHANGED <<disk, archive, answers>>
      /\ mem' = st /\ call' = answer
  BY DEF Work
<1>2. ToldClaimsSurvive'
  BY <1>1 DEF DInv, Durable, ToldClaimsSurvive, Archived, Known
<1>3. Known(disk)' = Known(disk) /\ Known(mem)' = Known(st)
  BY <1>1 DEF Known
<1>4. Present(disk)' = Present(disk) /\ Present(mem)' = Present(st)
  BY <1>1 DEF Present
<1> QED BY <1>1, <1>2, <1>3, <1>4 DEF Durable, Carried, Keeps

(* Only claimNext answers with a claim of its own.                          *)
LEMMA OtherIsNoAnswer == Other \notin Answers
BY NoneAssumption DEF Other, Answers

(* Every operation.                                                         *)
LEMMA WorkerDurable == ASSUME DInv, Worker PROVE Durable'
<1> USE DEF DInv
<1>0. disk \in Documents /\ now \in Nat /\ None \notin ClaimIds
  BY BoundsAssumption, NoneAssumption DEF Inv, TypeOK
<1>1. ASSUME NEW k \in Keys, ClaimAgain(k) PROVE Durable'
  <2>1. Keeps(disk)
    BY DEF Keeps
  <2>2. disk.claims[disk.keys[k]].key = k
    BY <1>0, <1>1 DEF ClaimAgain, Inv, Consistent, KeysAndClaims, Known
  <2> QED BY <1>1, <2>1, <2>2, WorkKeepsDurable DEF ClaimAgain, Claimed
<1>2. ASSUME NEW k \in Keys, ClaimNext(k) PROVE Durable'
  <2>1. PICK i \in AvailableRows(disk), c \in UnusedClaimIds :
            Work(claimNext(disk, k, i, c), Claimed(k, c))
    BY <1>2 DEF ClaimNext
  <2> DEFINE new == claimNext(disk, k, i, c)
  <2>2. Keeps(new) /\ c \in Known(new) /\ new.claims[c].key = k
    BY ClaimNextKeeps
  <2> HIDE DEF new
  <2>3. Work(new, Claimed(k, c)) /\ backups' = backups
    BY <1>2, <2>1 DEF ClaimNext, new
  <2> QED BY <2>2, <2>3, WorkKeepsDurable DEF Claimed
<1>3. ASSUME NEW c \in ClaimIds, ReleaseClaim(c) PROVE Durable'
  BY <1>0, <1>3, ReleaseClaimKeeps, OtherIsNoAnswer, WorkKeepsDurable DEF ReleaseClaim
<1>4. ASSUME UpsertAliases PROVE Durable'
  <2>1. PICK E \in SUBSET Emails :
            \E isActive \in [E -> Flags \cup {None}],
               fresh \in FreshRows(disk, E, UnusedIds) :
                    Work(upsertAliases(disk, isActive, fresh), Other)
    BY <1>4 DEF UpsertAliases
  <2>2. PICK isActive \in [E -> Flags \cup {None}],
             fresh \in FreshRows(disk, E, UnusedIds) :
                Work(upsertAliases(disk, isActive, fresh), Other)
    BY <2>1
  <2>3. isActive \in [E -> BOOLEAN \cup {None}]
    BY FlagsAssumption
  <2>4. Keeps(upsertAliases(disk, isActive, fresh))
    BY <2>3, UpsertKeeps
  <2> QED BY <1>4, <2>2, <2>4, OtherIsNoAnswer, WorkKeepsDurable DEF UpsertAliases
<1>5. ASSUME InitializeFromLegacy PROVE Durable'
  <2>1. PICK E \in SUBSET Emails :
            \E group \in [E -> Groups], fresh \in FreshRows(disk, E, UnusedIds) :
                Work(initializeFromLegacy(disk, group, fresh), Other)
    BY <1>5 DEF InitializeFromLegacy
  <2>2. PICK group \in [E -> Groups], fresh \in FreshRows(disk, E, UnusedIds) :
                Work(initializeFromLegacy(disk, group, fresh), Other)
    BY <2>1
  <2> DEFINE new == initializeFromLegacy(disk, group, fresh)
  <2>3. Keeps(new)
    BY LegacyKeeps
  <2>4. Work(new, Other)
    BY <2>2
  <2> HIDE DEF new
  <2>5. UNCHANGED <<disk, archive, answers>> /\ mem' = new /\ call' = Other
    BY <2>4 DEF Work
  <2>6. ToldClaimsSurvive'
    BY <2>5 DEF Durable, ToldClaimsSurvive, Archived, Known
  <2>7. /\ Known(disk)' = Known(disk) /\ Known(mem)' = Known(new)
        /\ Present(disk)' = Present(disk) /\ Present(mem)' = Present(new)
    BY <2>5 DEF Known, Present
  <2> QED BY <2>3, <2>5, <2>6, <2>7, OtherIsNoAnswer DEF Durable, Carried, Keeps
<1>6. ASSUME NEW i \in Ids, UpdateInventoryItem(i) PROVE Durable'
  <2>1. PICK p \in [group : Groups \cup {None}, active : Flags \cup {None}] :
            Work(updateInventoryItems(disk, [j \in {i} |-> p], None), Other)
    BY <1>6 DEF UpdateInventoryItem
  <2>2. p \in Patches
    BY FlagsAssumption DEF Patches
  <2>3. Keeps(updateInventoryItems(disk, [j \in {i} |-> p], None))
    BY <2>2, UpdateKeeps
  <2> QED BY <1>6, <2>1, <2>3, OtherIsNoAnswer, WorkKeepsDurable DEF UpdateInventoryItem
<1>7. ASSUME UpdateInventoryItems PROVE Durable'
  <2>1. PICK batch \in SUBSET Ids \ {{}}, expected \in Groups, g \in Groups :
            Work(updateInventoryItems(disk,
                    [i \in batch |-> [group |-> g, active |-> None]], expected), Other)
    BY <1>7 DEF UpdateInventoryItems
  <2>2. [group |-> g, active |-> None] \in Patches
    BY DEF Patches
  <2>3. Keeps(updateInventoryItems(disk,
                    [i \in batch |-> [group |-> g, active |-> None]], expected))
    BY <2>2, UpdateKeeps
  <2> QED BY <1>7, <2>1, <2>3, OtherIsNoAnswer, WorkKeepsDurable DEF UpdateInventoryItems
<1>8. ASSUME NEW i \in Ids, DeleteInventoryItem(i) PROVE Durable'
  <2>1. /\ UNCHANGED <<disk, archive, answers>>
        /\ mem' = deleteInventoryItem(disk, i) /\ call' = Other
        /\ CanDelete(disk, i)
        /\ backups' = backups \cup {DeletedRow(i, disk.rows[i])}
    BY <1>8 DEF DeleteInventoryItem, Work
  <2>2. /\ mem'.claims = disk.claims
        /\ mem'.rows = [disk.rows EXCEPT ![i] = AbsentRow]
    BY <1>0, <2>1 DEF deleteInventoryItem, Documents
  <2>3. ToldClaimsSurvive'
    BY <2>1 DEF Durable, ToldClaimsSurvive, Archived, Known
  <2>4. \A c \in Known(disk)' : Carried(c, disk.claims[c].key)'
    BY <2>1, <2>2 DEF Carried, Known
  <2>5. \A j \in Present(disk)' \ Present(mem)' : j = i
    BY <1>0, <2>1, <2>2 DEF Present, Documents
  <2>6. Removable(i)'
    BY <2>1 DEF Removable, CanDelete
  <2> QED BY <2>1, <2>3, <2>4, <2>5, <2>6, OtherIsNoAnswer DEF Durable
<1> QED BY <1>1, <1>2, <1>3, <1>4, <1>5, <1>6, <1>7, <1>8 DEF Worker

-----------------------------------------------------------------------------
(* The archive only grows, and takes all that the sweep takes.              *)
LEMMA ArchiveGrows ==
    ASSUME Inv, ArchiveExpired
    PROVE  /\ \A c \in ClaimIds : Archived(c) => Archived(c)'
           /\ \A c \in ExpiredClaims(mem, now) : Archived(c)'
<1>1. /\ archive' = [archive EXCEPT ![today] = appendArchive(@, mem, now)]
      /\ today \in Days
      /\ archive \in [Days -> ArchiveFiles]
      /\ ExpiredClaims(mem, now) \subseteq ClaimIds
      /\ \A c \in ExpiredClaims(mem, now) : mem.claims[c] # NoClaim
  BY DEF Inv, TypeOK, ArchiveExpired, ExpiredClaims, Known, NoClaim
<1>2. \A c \in ClaimIds : archive'[today].claims[c] =
            IF c \in ExpiredClaims(mem, now) THEN mem.claims[c] ELSE archive[today].claims[c]
  BY <1>1 DEF appendArchive
<1>3. \A d \in Days \ {today} : archive'[d] = archive[d]
  BY <1>1
<1> QED BY <1>1, <1>2, <1>3 DEF Archived, Days

(* Nobody has been told anything yet.                                       *)
LEMMA InitDurable == Init => Durable
BY DEF Init, Durable, ToldClaimsSurvive

(* Every step: the sweep moves claims to the archive before they leave the  *)
(* copy, the rename makes the copy the document, and then the caller hears. *)
LEMMA NextDurable == DInv /\ [Next]_vars => Durable'
<1> SUFFICES ASSUME DInv, [Next]_vars PROVE Durable'
  OBVIOUS
<1> USE DEF DInv
<1>0. /\ disk \in Documents /\ mem \in Documents
      /\ answers \subseteq Answers /\ call \in Answers \cup {Other}
      /\ \A a \in Answers : a.claim \in ClaimIds
  BY DEF Inv, TypeOK, Answers
<1>1. CASE Worker
  BY <1>1, WorkerDurable
<1>2. CASE ArchiveExpired
  <2>1. /\ UNCHANGED <<disk, backups, call, answers>>
        /\ mem' = archiveExpired(mem, now)
        /\ phase = "worked"
    BY <1>2 DEF ArchiveExpired
  <2>2. /\ mem'.rows = mem.rows
        /\ mem'.claims = [c \in ClaimIds |-> IF c \in ExpiredClaims(mem, now)
                                             THEN NoClaim ELSE mem.claims[c]]
    BY <1>0, <2>1 DEF archiveExpired, Documents
  <2>3. ASSUME NEW c \in ClaimIds, NEW k, Carried(c, k) PROVE Carried(c, k)'
    BY <1>2, <2>2, <2>3, ArchiveGrows DEF Carried, Known
  <2>4. ToldClaimsSurvive'
    BY <1>0, <1>2, <2>1, ArchiveGrows DEF Durable, ToldClaimsSurvive, Known
  <2>5. \A c \in Known(disk)' : Carried(c, disk.claims[c].key)'
    BY <2>1, <2>3 DEF Durable, Known
  <2>6. (call \in Answers)' => Carried(call.claim, call.key)'
    BY <1>0, <2>1, <2>3 DEF Durable
  <2>7. \A i \in Present(disk)' \ Present(mem)' : Removable(i)'
    BY <2>1, <2>2 DEF Durable, Present, Removable
  <2> QED BY <2>4, <2>5, <2>6, <2>7 DEF Durable
<1>3. CASE WriteAtomic
  <2>1. /\ disk' = mem /\ phase = "archived" /\ phase' = "idle"
        /\ answers' \subseteq answers \cup ({call} \cap Answers)
        /\ UNCHANGED <<archive, mem>>
    BY <1>3 DEF WriteAtomic
  <2>2. ASSUME NEW c \in ClaimIds, NEW k, Carried(c, k)
        PROVE  (c \in Known(disk) /\ disk.claims[c].key = k)' \/ Archived(c)'
    BY <2>1, <2>2 DEF Carried, Known, Archived
  <2>3. ASSUME NEW a \in answers'
        PROVE  (a.claim \in Known(disk) /\ disk.claims[a.claim].key = a.key)'
                \/ Archived(a.claim)'
    <3>1. CASE a \in answers
      <4>1. CASE Archived(a.claim)
        BY <2>1, <4>1 DEF Archived
      <4>2. CASE a.claim \in Known(disk) /\ disk.claims[a.claim].key = a.key
        BY <1>0, <2>1, <2>2, <3>1, <4>2 DEF Durable
      <4> QED BY <3>1, <4>1, <4>2 DEF Durable, ToldClaimsSurvive
    <3>2. CASE a = call /\ call \in Answers
      BY <1>0, <2>1, <2>2, <3>2 DEF Durable
    <3> QED BY <2>1, <2>3, <3>1, <3>2
  <2>4. ToldClaimsSurvive'
    BY <2>3 DEF ToldClaimsSurvive
  <2> QED BY <2>1, <2>4 DEF Durable
<1>4. CASE StorageErrorOrCrash
  BY <1>4 DEF StorageErrorOrCrash, Durable, ToldClaimsSurvive, Archived, Known
<1>5. CASE Tick
  BY <1>5 DEF Tick, Durable, ToldClaimsSurvive, Archived, Known, Carried, Present, Removable
<1>6. CASE UNCHANGED vars
  BY <1>6 DEF vars, Durable, ToldClaimsSurvive, Archived, Known, Carried, Present, Removable
<1> QED BY <1>1, <1>2, <1>3, <1>4, <1>5, <1>6 DEF Next

(* So it holds throughout.                                                  *)
LEMMA DurableInvariant == Spec => []DInv
<1>1. Init => DInv
  BY InitInv, InitDurable DEF DInv
<1>2. DInv /\ [Next]_vars => DInv'
  BY NextInv, NextDurable DEF DInv
<1> QED BY <1>1, <1>2, PTL DEF Spec

(* A claim its caller was told of is in the state file or the archive,      *)
(* whatever failed since (mutate, archiveExpired).                          *)
THEOREM ToldClaimsAlwaysSurvive == Spec => []ToldClaimsSurvive
<1>1. DInv => ToldClaimsSurvive
  BY DEF DInv, Durable
<1> QED BY <1>1, DurableInvariant, PTL

(* A row leaves the state file only from the trash, unclaimed and backed    *)
(* up, also when the deletion failed on its first tries                     *)
(* (deleteInventoryItem).                                                   *)
THEOREM RemovedRowsAlwaysBackedUp == Spec => RemovedRowsAreBackedUp
<1>1. DInv /\ [Next]_vars =>
        [\A i \in Present(disk) \ Present(disk') :
            /\ disk.rows[i].group = "trash"
            /\ disk.rows[i].claim = None
            /\ DeletedRow(i, disk.rows[i]) \in backups]_vars
  <2> SUFFICES ASSUME DInv, [Next]_vars, NEW i \in Present(disk) \ Present(disk')
               PROVE  Removable(i)
    BY DEF Removable
  <2>1. disk' # disk
    OBVIOUS
  <2>2. CASE WriteAtomic
    BY <2>2 DEF WriteAtomic, DInv, Durable
  <2>3. CASE ~WriteAtomic
    BY <2>1, <2>3 DEF Next, vars, Worker, ClaimAgain, ClaimNext, ReleaseClaim, UpsertAliases,
                      InitializeFromLegacy, UpdateInventoryItem, UpdateInventoryItems,
                      DeleteInventoryItem, Work, ArchiveExpired, StorageErrorOrCrash, Tick
  <2> QED BY <2>2, <2>3
<1> QED BY <1>1, DurableInvariant, PTL DEF Spec, RemovedRowsAreBackedUp

-----------------------------------------------------------------------------
(* What one mutation does to the claims and keys of the document: nothing,  *)
(* or it releases one claim, or it makes one of an id no claim has had.     *)

OneRelease(f, g, c) ==
    /\ c \in Active(disk)
    /\ ReleaseOf(disk.claims[c], f[c])
    /\ \A d \in ClaimIds \ {c} : f[d] = disk.claims[d]
    /\ g = disk.keys

OneClaim(f, g, k, i, c) ==
    /\ disk.keys[k] = None
    /\ i \in AvailableRows(disk)
    /\ c \in UnusedClaimIds
    /\ f[c].status = "active"
    /\ f[c].email = disk.rows[i].email
    /\ f[c].key = k
    /\ \A d \in ClaimIds \ {c} : f[d] = disk.claims[d]
    /\ g = [disk.keys EXCEPT ![k] = c]

Outcome(f, g) ==
    \/ f = disk.claims /\ g = disk.keys
    \/ \E c \in ClaimIds : OneRelease(f, g, c)
    \/ \E k \in Keys, i \in Ids, c \in ClaimIds : OneClaim(f, g, k, i, c)

(* The sweep has since taken the claims X out of f and g; an archive file   *)
(* has each of them as it was.                                              *)
Swept(f, g, X) ==
    /\ \A c \in X :
        /\ f[c].status = "released"
        /\ f[c].releasedAt + Retention < now
        /\ \E d \in Days : archive[d].claims[c] = f[c]
    /\ \A c \in ClaimIds : mem.claims[c] = IF c \in X THEN NoClaim ELSE f[c]
    /\ \A k \in Keys : mem.keys[k] = IF g[k] \in X THEN None ELSE g[k]

Pending ==
    /\ phase = "worked" => Outcome(mem.claims, mem.keys)
    /\ phase = "archived" =>
        \E f, g : \E X \in SUBSET ClaimIds : Outcome(f, g) /\ Swept(f, g, X)

(* With a retention, what this mutation releases it does not sweep.         *)
ReleasedNow ==
    phase = "worked" /\ Retention > 0 =>
        \A c \in Known(mem) : mem.claims[c].status = "released" =>
            mem.claims[c] = disk.claims[c] \/ mem.claims[c].releasedAt = now

(* An answer names the key its claim has.                                   *)
AnswersAreTrue ==
    /\ \A a \in answers : a.claim \in Known(disk) => disk.claims[a.claim].key = a.key
    /\ phase # "idle" /\ call \in Answers /\ call.claim \in Known(mem) =>
            mem.claims[call.claim].key = call.key

(* A record in an archive file is of a released claim, under the key the    *)
(* document has for it, and its file maps that key to a claim of that key.  *)
RecordKeyOK(d, c) ==
    LET r == archive[d].claims[c]
    IN  r # NoClaim =>
        /\ r.status = "released"
        /\ c \in Known(disk) => disk.claims[c].key = r.key
        /\ archive[d].keys[r.key] # None
        /\ archive[d].claims[archive[d].keys[r.key]].key = r.key

(* With a retention it is the record in every file that has one, and in the *)
(* document.                                                                *)
RecordFinal(d, c) ==
    LET r == archive[d].claims[c]
    IN  Retention > 0 /\ r # NoClaim =>
        /\ c \in Known(disk) => disk.claims[c] = r
        /\ \A e \in Days : archive[e].claims[c] \in {NoClaim, r}

Records == \A d \in Days, c \in ClaimIds : RecordKeyOK(d, c) /\ RecordFinal(d, c)

LInv == DInv /\ Pending /\ ReleasedNow /\ AnswersAreTrue /\ Records

-----------------------------------------------------------------------------
(* A release leaves the rest of the claim as it was.                        *)
LEMMA ReleaseFields ==
    ASSUME NEW old \in Claims, NEW new, ReleaseOf(old, new)
    PROVE  /\ old.status = "active" /\ new.status = "released"
           /\ new.item = old.item /\ new.email = old.email /\ new.key = old.key
BY DEF ReleaseOf, Claims

(* A claim after a worker is the one before, that released, or the new one. *)
LEMMA OutcomeOfOne ==
    ASSUME Inv, NEW f, NEW g, Outcome(f, g), NEW c \in ClaimIds
    PROVE  \/ f[c] = disk.claims[c]
           \/ c \in Active(disk) /\ ReleaseOf(disk.claims[c], f[c])
           \/ c \in UnusedClaimIds /\ f[c].status = "active"
BY DEF Outcome, OneRelease, OneClaim

(* So it has the key it had.                                                *)
LEMMA OutcomeKeeps ==
    ASSUME Inv, NEW f, NEW g, Outcome(f, g), NEW c \in Known(disk)
    PROVE  /\ f[c] = disk.claims[c] \/ ReleaseOf(disk.claims[c], f[c])
           /\ f[c].status \in {"active", "released"}
           /\ f[c].key = disk.claims[c].key
           /\ f[c].email = disk.claims[c].email
<1>1. disk.claims[c] \in Claims /\ c \in ClaimIds
  BY DEF Inv, TypeOK, Documents, Known, NoClaim
<1>2. f[c] = disk.claims[c] \/ ReleaseOf(disk.claims[c], f[c])
  BY <1>1, OutcomeOfOne, UnusedAreNew
<1> QED BY <1>1, <1>2, ReleaseFields DEF Claims

(* What is in the copy by now came through the sweep.                       *)
LEMMA CopyOfOne ==
    ASSUME Inv, Pending, phase # "idle", NEW c \in Known(mem)
    PROVE  \/ /\ c \in Known(disk)
              /\ mem.claims[c] = disk.claims[c] \/ ReleaseOf(disk.claims[c], mem.claims[c])
              /\ mem.claims[c].key = disk.claims[c].key
           \/ /\ c \in UnusedClaimIds
              /\ mem.claims[c].status = "active"
<1>1. PICK f, g : Outcome(f, g) /\ f[c] = mem.claims[c]
  <2>1. CASE phase = "worked"
    BY <2>1 DEF Pending
  <2>2. CASE phase = "archived"
    <3>1. PICK f, g : \E X \in SUBSET ClaimIds : Outcome(f, g) /\ Swept(f, g, X)
      BY <2>2 DEF Pending
    <3> QED BY <3>1 DEF Swept, Known, NoClaim
  <2> QED BY <2>1, <2>2 DEF Inv, TypeOK, Phases
<1>2. c \in ClaimIds /\ mem.claims[c].status # "none"
  BY DEF Known
<1>3. CASE c \in Known(disk)
  BY <1>1, <1>3, OutcomeKeeps
<1>4. CASE c \notin Known(disk)
  <2>1. disk.claims[c].status = "none" /\ c \notin Active(disk)
    BY <1>2, <1>4 DEF Known, Active
  <2> QED BY <1>1, <1>2, <2>1, OutcomeOfOne
<1> QED BY <1>3, <1>4

-----------------------------------------------------------------------------
(* The workers: what each leaves of the claims and keys.                    *)

Leaves(st) ==
    /\ Outcome(st.claims, st.keys)
    /\ \A c \in Known(st) : st.claims[c].status = "released" =>
            st.claims[c] = disk.claims[c] \/ st.claims[c].releasedAt = now

(* claimNext.                                                               *)
LEMMA ClaimNextLeaves ==
    ASSUME Inv, NEW k \in Keys, disk.keys[k] = None,
           NEW i \in AvailableRows(disk), NEW c \in UnusedClaimIds
    PROVE  Leaves(claimNext(disk, k, i, c))
<1> DEFINE new == claimNext(disk, k, i, c)
           claim == [status |-> "active", item |-> i, email |-> disk.rows[i].email,
                     key |-> k, releasedAt |-> 0]
<1>1. disk \in Documents /\ c \in ClaimIds \ Known(disk) /\ i \in Ids
  BY UnusedAreNew DEF Inv, TypeOK, AvailableRows
<1>2. /\ new.claims = [disk.claims EXCEPT ![c] = claim]
      /\ new.keys = [disk.keys EXCEPT ![k] = c]
  BY <1>1 DEF claimNext, Documents
<1>3. claim.status = "active" /\ claim.email = disk.rows[i].email /\ claim.key = k
  OBVIOUS
<1> HIDE DEF new, claim
<1>4. new.claims[c] = claim /\ \A d \in ClaimIds \ {c} : new.claims[d] = disk.claims[d]
  BY <1>1, <1>2 DEF Documents
<1>5. OneClaim(new.claims, new.keys, k, i, c)
  BY <1>1, <1>2, <1>3, <1>4 DEF OneClaim
<1>6. \A d \in Known(new) : new.claims[d].status = "released" => new.claims[d] = disk.claims[d]
  BY <1>3, <1>4 DEF Known
<1> QED BY <1>1, <1>5, <1>6 DEF Leaves, Outcome, new

(* releaseClaim.                                                            *)
LEMMA ReleaseClaimLeaves ==
    ASSUME Inv, NEW c \in Known(disk)
    PROVE  Leaves(releaseClaim(disk, c, now))
<1> DEFINE new == releaseClaim(disk, c, now)
<1>1. disk \in Documents /\ c \in ClaimIds /\ disk.claims[c] \in Claims
  BY DEF Inv, TypeOK, Documents, Known, NoClaim
<1>2. CASE disk.claims[c].status = "released"
  BY <1>2 DEF releaseClaim, Leaves, Outcome
<1>3. CASE disk.claims[c].status # "released"
  <2>1. /\ new.claims = [disk.claims EXCEPT ![c] =
                            [@ EXCEPT !.status = "released", !.releasedAt = now]]
        /\ new.keys = disk.keys
    BY <1>1, <1>3 DEF releaseClaim, Documents
  <2>2. disk.claims[c].status = "active" /\ c \in Active(disk)
    BY <1>1, <1>3 DEF Claims, Active
  <2>3. [disk.claims[c] EXCEPT !.status = "released", !.releasedAt = now].releasedAt = now
    BY <1>1 DEF Claims
  <2> HIDE DEF new
  <2>4. /\ new.claims[c] = [disk.claims[c] EXCEPT !.status = "released", !.releasedAt = now]
        /\ \A d \in ClaimIds \ {c} : new.claims[d] = disk.claims[d]
    BY <1>1, <2>1 DEF Documents
  <2>5. ReleaseOf(disk.claims[c], new.claims[c])
    BY <2>2, <2>3, <2>4 DEF ReleaseOf
  <2>6. OneRelease(new.claims, new.keys, c)
    BY <2>1, <2>2, <2>4, <2>5 DEF OneRelease
  <2>7. \A d \in Known(new) :
            new.claims[d] = disk.claims[d] \/ new.claims[d].releasedAt = now
    BY <2>3, <2>4 DEF Known
  <2> QED BY <1>1, <2>6, <2>7 DEF Leaves, Outcome, new
<1> QED BY <1>2, <1>3

(* The other workers leave them alone.                                      *)
LEMMA RowWorkersLeave ==
    ASSUME NEW st, st.claims = disk.claims, st.keys = disk.keys
    PROVE  Leaves(st)
BY DEF Leaves, Outcome

(* So do the upserts, the migration, the patches, the deletion and a claim  *)
(* that is answered again.                                                  *)
LEMMA OtherWorkersLeave ==
    ASSUME Inv
    PROVE  /\ Leaves(disk)
           /\ \A isActive, fresh : Leaves(upsertAliases(disk, isActive, fresh))
           /\ \A group, fresh : Leaves(initializeFromLegacy(disk, group, fresh))
           /\ \A patch, expected : Leaves(updateInventoryItems(disk, patch, expected))
           /\ \A i : Leaves(deleteInventoryItem(disk, i))
<1>1. disk \in Documents
  BY DEF Inv, TypeOK
<1>2. Leaves(disk)
  BY RowWorkersLeave
<1>3. ASSUME NEW isActive, NEW fresh PROVE Leaves(upsertAliases(disk, isActive, fresh))
  BY <1>1, RowWorkersLeave DEF upsertAliases, Documents
<1>4. ASSUME NEW group, NEW fresh PROVE Leaves(initializeFromLegacy(disk, group, fresh))
  BY <1>1, RowWorkersLeave DEF initializeFromLegacy, Documents
<1>5. ASSUME NEW patch, NEW expected PROVE Leaves(updateInventoryItems(disk, patch, expected))
  BY <1>1, RowWorkersLeave DEF updateInventoryItems, Documents
<1>6. ASSUME NEW i PROVE Leaves(deleteInventoryItem(disk, i))
  BY <1>1, RowWorkersLeave DEF deleteInventoryItem, Documents
<1> QED BY <1>2, <1>3, <1>4, <1>5, <1>6

(* The worker that has run, and its answer.                                 *)
LEMMA WorkersLeave ==
    ASSUME Inv, Worker
    PROVE  \E st, answer :
            /\ Work(st, answer)
            /\ Leaves(st)
            /\ answer \in Answers /\ answer.claim \in Known(st) =>
                    st.claims[answer.claim].key = answer.key
<1> DEFINE Good(st, answer) ==
            /\ Work(st, answer)
            /\ Leaves(st)
            /\ answer \in Answers /\ answer.claim \in Known(st) =>
                    st.claims[answer.claim].key = answer.key
<1>1. ASSUME NEW k \in Keys, ClaimAgain(k) PROVE \E st, answer : Good(st, answer)
  <2>1. disk.claims[disk.keys[k]].key = k
    BY <1>1, NoneAssumption DEF ClaimAgain, Inv, Consistent, KeysAndClaims, Known
  <2> QED BY <1>1, <2>1, OtherWorkersLeave DEF ClaimAgain, Claimed
<1>2. ASSUME NEW k \in Keys, ClaimNext(k) PROVE \E st, answer : Good(st, answer)
  <2>1. PICK i \in AvailableRows(disk), c \in UnusedClaimIds :
            Work(claimNext(disk, k, i, c), Claimed(k, c))
    BY <1>2 DEF ClaimNext
  <2>2. claimNext(disk, k, i, c).claims[c].key = k
    BY ClaimNextKeeps
  <2>3. Leaves(claimNext(disk, k, i, c))
    BY <1>2, ClaimNextLeaves DEF ClaimNext
  <2> QED BY <2>1, <2>2, <2>3 DEF Claimed
<1>3. ASSUME NEW st, Work(st, Other), Leaves(st) PROVE \E s, answer : Good(s, answer)
  BY <1>3, OtherIsNoAnswer
<1> HIDE DEF Good
<1>4. ASSUME NEW c \in ClaimIds, ReleaseClaim(c) PROVE \E st, answer : Good(st, answer)
  BY <1>3, <1>4, ReleaseClaimLeaves DEF ReleaseClaim
<1>5. ASSUME UpsertAliases PROVE \E st, answer : Good(st, answer)
  BY <1>3, <1>5, OtherWorkersLeave DEF UpsertAliases
<1>6. ASSUME InitializeFromLegacy PROVE \E st, answer : Good(st, answer)
  BY <1>3, <1>6, OtherWorkersLeave DEF InitializeFromLegacy
<1>7. ASSUME NEW i \in Ids, UpdateInventoryItem(i) \/ DeleteInventoryItem(i)
      PROVE  \E st, answer : Good(st, answer)
  BY <1>3, <1>7, OtherWorkersLeave DEF UpdateInventoryItem, DeleteInventoryItem
<1>8. ASSUME UpdateInventoryItems PROVE \E st, answer : Good(st, answer)
  BY <1>3, <1>8, OtherWorkersLeave DEF UpdateInventoryItems
<1> QED BY <1>1, <1>2, <1>4, <1>5, <1>6, <1>7, <1>8 DEF Worker, Good

-----------------------------------------------------------------------------
(* The steps.  What a worker has done stays what it has done while its      *)
(* mutation goes on.                                                        *)
LEMMA OutcomeStays ==
    ASSUME Inv, NEW f, NEW g, Outcome(f, g), disk' = disk,
           \A c \in ClaimIds : Archived(c)' => Archived(c) \/ f[c].status = "released"
    PROVE  Outcome(f, g)'
<1>1. CASE f = disk.claims /\ g = disk.keys
  BY <1>1 DEF Outcome
<1>2. ASSUME NEW c \in ClaimIds, OneRelease(f, g, c) PROVE Outcome(f, g)'
  <2>1. OneRelease(f, g, c)'
    BY <1>2 DEF OneRelease, Active, Known
  <2> QED BY <2>1 DEF Outcome
<1>3. ASSUME NEW k \in Keys, NEW i \in Ids, NEW c \in ClaimIds, OneClaim(f, g, k, i, c)
      PROVE  Outcome(f, g)'
  <2>1. c \in UnusedClaimIds'
    BY <1>3 DEF OneClaim, UnusedClaimIds, Known
  <2>2. OneClaim(f, g, k, i, c)'
    BY <1>3, <2>1 DEF OneClaim, AvailableRows
  <2> QED BY <2>2 DEF Outcome
<1> QED BY <1>1, <1>2, <1>3 DEF Outcome

(* A worker's step.                                                         *)
LEMMA WorkerPending ==
    ASSUME LInv, Worker
    PROVE  Pending' /\ ReleasedNow' /\ AnswersAreTrue'
<1> USE DEF LInv, DInv
<1>1. PICK st, answer :
            /\ Work(st, answer)
            /\ Leaves(st)
            /\ answer \in Answers /\ answer.claim \in Known(st) =>
                    st.claims[answer.claim].key = answer.key
  BY WorkersLeave
<1>2. /\ UNCHANGED <<disk, archive, answers, now>>
      /\ phase' = "worked" /\ mem' = st /\ call' = answer
  BY <1>1 DEF Work
<1>3. PICK f, g : f = st.claims /\ g = st.keys
  OBVIOUS
<1>4. Outcome(f, g)'
  BY <1>1, <1>2, <1>3, OutcomeStays DEF Leaves, Archived
<1>5. Pending'
  BY <1>2, <1>3, <1>4 DEF Pending
<1>6. ReleasedNow'
  BY <1>1, <1>2 DEF ReleasedNow, Leaves, Known
<1>7. AnswersAreTrue'
  BY <1>1, <1>2 DEF AnswersAreTrue, Known
<1> QED BY <1>5, <1>6, <1>7

(* A key leaves the copy with its claim.                                    *)
LEMMA ExpiredKeysHaveExpiredClaims ==
    ASSUME Inv, NEW k \in Keys
    PROVE  k \in ExpiredKeys(mem, now) <=> mem.keys[k] \in ExpiredClaims(mem, now)
BY NoneAssumption DEF Inv, Consistent, KeysAndClaims, ExpiredKeys, ExpiredClaims, Known

(* The sweep, put field by field.                                           *)
LEMMA SweepFields ==
    ASSUME Inv, ArchiveExpired
    PROVE  /\ phase = "worked" /\ phase' = "archived"
           /\ UNCHANGED <<disk, backups, call, answers, now, today>>
           /\ \A c \in ClaimIds : mem'.claims[c] =
                IF c \in ExpiredClaims(mem, now) THEN NoClaim ELSE mem.claims[c]
           /\ \A k \in Keys : mem'.keys[k] =
                IF mem.keys[k] \in ExpiredClaims(mem, now) THEN None ELSE mem.keys[k]
           /\ today \in Days
           /\ \A c \in ClaimIds : archive'[today].claims[c] =
                IF c \in ExpiredClaims(mem, now) THEN mem.claims[c]
                ELSE archive[today].claims[c]
           /\ \A k \in Keys : archive'[today].keys[k] =
                IF mem.keys[k] \in ExpiredClaims(mem, now) THEN mem.keys[k]
                ELSE archive[today].keys[k]
           /\ \A d \in Days \ {today} : archive'[d] = archive[d]
<1>1. /\ phase = "worked" /\ phase' = "archived"
      /\ UNCHANGED <<disk, backups, call, answers, now, today>>
      /\ archive' = [archive EXCEPT ![today] = appendArchive(@, mem, now)]
      /\ mem' = archiveExpired(mem, now)
      /\ today \in Days /\ archive \in [Days -> ArchiveFiles] /\ mem \in Documents
  BY DEF ArchiveExpired, Inv, TypeOK
<1>2. /\ mem'.claims = [c \in ClaimIds |-> IF c \in ExpiredClaims(mem, now)
                                           THEN NoClaim ELSE mem.claims[c]]
      /\ mem'.keys = [k \in Keys |-> IF k \in ExpiredKeys(mem, now)
                                     THEN None ELSE mem.keys[k]]
  BY <1>1 DEF archiveExpired, Documents
<1>3. archive'[today] = appendArchive(archive[today], mem, now)
  BY <1>1
<1>4. /\ archive'[today].claims = [c \in ClaimIds |->
            IF c \in ExpiredClaims(mem, now) THEN mem.claims[c] ELSE archive[today].claims[c]]
      /\ archive'[today].keys = [k \in Keys |->
            IF k \in ExpiredKeys(mem, now) THEN mem.keys[k] ELSE archive[today].keys[k]]
  BY <1>3 DEF appendArchive
<1>5. \A d \in Days \ {today} : archive'[d] = archive[d]
  BY <1>1
<1> QED BY <1>1, <1>2, <1>4, <1>5, ExpiredKeysHaveExpiredClaims

(* What makes a claim expired.                                              *)
LEMMA ExpiredFields ==
    ASSUME NEW c \in ExpiredClaims(mem, now)
    PROVE  /\ c \in Known(mem) /\ c \in ClaimIds
           /\ mem.claims[c].status = "released"
           /\ mem.claims[c].releasedAt + Retention < now
BY DEF ExpiredClaims, Known

(* The sweep archives what it takes.                                        *)
LEMMA SweepPending == ASSUME LInv, ArchiveExpired PROVE Pending'
<1> USE DEF LInv, DInv
<1>1. PICK f, g, X : f = mem.claims /\ g = mem.keys /\ X = ExpiredClaims(mem, now)
  OBVIOUS
<1>2. phase = "worked" /\ phase' = "archived" /\ disk' = disk /\ now' = now /\ today \in Days
  BY SweepFields
<1>3. Outcome(f, g)
  BY <1>1, <1>2 DEF Pending
<1>4. \A c \in X : /\ c \in ClaimIds
                   /\ f[c].status = "released"
                   /\ f[c].releasedAt + Retention < now
  BY <1>1, ExpiredFields
<1>5. \A c \in ClaimIds : Archived(c)' => Archived(c) \/ f[c].status = "released"
  BY <1>1, <1>4, SweepFields DEF Archived
<1>6. Outcome(f, g)'
  BY <1>2, <1>3, <1>5, OutcomeStays
<1>7. Swept(f, g, X)'
  <2>1. \A c \in X : archive'[today].claims[c] = f[c]
    BY <1>1, <1>4, SweepFields
  <2>2. \A c \in ClaimIds : mem'.claims[c] = IF c \in X THEN NoClaim ELSE f[c]
    BY <1>1, SweepFields
  <2>3. \A k \in Keys : mem'.keys[k] = IF g[k] \in X THEN None ELSE g[k]
    BY <1>1, SweepFields
  <2> QED BY <1>2, <1>4, <2>1, <2>2, <2>3 DEF Swept
<1> QED BY <1>2, <1>4, <1>6, <1>7 DEF Pending

(* What it takes is a claim of the document, under the key it has there,    *)
(* and with a retention as it is there.                                     *)
LEMMA ExpiredInDocument ==
    ASSUME LInv, phase = "worked", NEW c \in ExpiredClaims(mem, now)
    PROVE  /\ c \in Known(disk) /\ c \in ClaimIds
           /\ mem.claims[c].key = disk.claims[c].key
           /\ mem.claims[c].key \in Keys
           /\ mem.keys[mem.claims[c].key] = c
           /\ Retention > 0 => mem.claims[c] = disk.claims[c]
<1> USE DEF LInv, DInv
<1>1. /\ c \in Known(mem) /\ c \in ClaimIds
      /\ mem.claims[c].status = "released"
      /\ mem.claims[c].releasedAt + Retention < now
  BY ExpiredFields
<1>2. c \in Known(disk) /\ mem.claims[c].key = disk.claims[c].key
  BY <1>1, CopyOfOne
<1>3. mem.claims[c] \in Claims
  BY <1>1 DEF Inv, TypeOK, Documents, NoClaim
<1>4. mem.keys[mem.claims[c].key] = c
  BY <1>1 DEF Inv, Consistent, KeysAndClaims
<1>5. ASSUME Retention > 0 PROVE mem.claims[c] = disk.claims[c]
  <2>1. mem.claims[c] = disk.claims[c] \/ mem.claims[c].releasedAt = now
    BY <1>1, <1>5 DEF ReleasedNow
  <2>2. now \in Nat /\ mem.claims[c].releasedAt \in Nat
    BY <1>3, BoundsAssumption DEF Claims, Inv, TypeOK
  <2> QED BY <1>1, <1>5, <2>1, <2>2, RetentionAssumption
<1> QED BY <1>1, <1>2, <1>3, <1>4, <1>5 DEF Claims

(* A record of an archive file, as a value.                                 *)
LEMMA RecordTypes ==
    ASSUME Inv, NEW d \in Days, NEW c \in ClaimIds
    PROVE  /\ archive[d].claims[c] # NoClaim => archive[d].claims[c] \in Claims
           /\ \A k \in Keys : archive[d].keys[k] \in ClaimIds \cup {None}
BY DEF Inv, TypeOK, ArchiveFiles

(* The sweep adds records to the file of today and leaves those it has,     *)
(* with their keys, or their keys to a later claim.                         *)
LEMMA SweepRecords == ASSUME LInv, ArchiveExpired PROVE Records'
<1> USE DEF LInv, DInv
<1> DEFINE X == ExpiredClaims(mem, now)
<1>1. /\ phase = "worked" /\ disk' = disk /\ today \in Days
      /\ None \notin ClaimIds /\ None \notin Keys /\ NoClaim.key = None
  BY SweepFields, NoneAssumption DEF NoClaim
<1>2. \A c \in X : /\ c \in Known(disk) /\ c \in ClaimIds
                   /\ mem.claims[c].status = "released"
                   /\ mem.claims[c].key = disk.claims[c].key
                   /\ mem.claims[c].key \in Keys
                   /\ mem.keys[mem.claims[c].key] = c
                   /\ Retention > 0 => mem.claims[c] = disk.claims[c]
  BY <1>1, ExpiredInDocument, ExpiredFields
<1>3. /\ \A c \in ClaimIds : archive'[today].claims[c] =
            IF c \in X THEN mem.claims[c] ELSE archive[today].claims[c]
      /\ \A k \in Keys : archive'[today].keys[k] =
            IF mem.keys[k] \in X THEN mem.keys[k] ELSE archive[today].keys[k]
      /\ \A d \in Days \ {today} : archive'[d] = archive[d]
  BY SweepFields
<1>4. \A k \in Keys : mem.keys[k] \in X => mem.claims[mem.keys[k]].key = k
  BY <1>1, <1>2 DEF Inv, Consistent, KeysAndClaims
<1> HIDE DEF X
<1>5. ASSUME NEW d \in Days, NEW c \in ClaimIds PROVE RecordKeyOK(d, c)'
  <2> DEFINE r == archive'[d].claims[c]
  <2>1. Known(disk)' = Known(disk)
    BY <1>1 DEF Known
  <2>2. CASE d # today
    <3>1. archive'[d] = archive[d]
      BY <1>3, <2>2
    <3> QED BY <1>1, <2>1, <3>1 DEF Records, RecordKeyOK
  <2>3. CASE d = today /\ c \in X
    <3>1. r = mem.claims[c] /\ archive'[d].keys[r.key] = c
      BY <1>2, <1>3, <2>3
    <3> QED BY <1>1, <1>2, <2>3, <3>1 DEF RecordKeyOK
  <2>4. CASE d = today /\ c \notin X /\ r # NoClaim
    <3>1. r = archive[d].claims[c] /\ r \in Claims /\ r.key \in Keys
      BY <1>3, <2>4, RecordTypes DEF Claims
    <3>2. /\ r.status = "released"
          /\ c \in Known(disk) => disk.claims[c].key = r.key
          /\ archive[d].keys[r.key] # None
          /\ archive[d].claims[archive[d].keys[r.key]].key = r.key
      BY <2>4, <3>1 DEF Records, RecordKeyOK
    <3>3. CASE mem.keys[r.key] \in X
      <4>1. archive'[d].keys[r.key] = mem.keys[r.key]
        BY <1>3, <2>4, <3>1, <3>3
      <4>2. archive'[d].claims[mem.keys[r.key]].key = r.key
        BY <1>2, <1>3, <1>4, <2>4, <3>1, <3>3
      <4> QED BY <1>1, <1>2, <2>1, <3>2, <3>3, <4>1, <4>2 DEF RecordKeyOK
    <3>4. CASE mem.keys[r.key] \notin X
      <4> DEFINE other == archive[d].keys[r.key]
      <4>1. other \in ClaimIds /\ archive'[d].keys[r.key] = other
        BY <1>3, <2>4, <3>1, <3>2, <3>4, RecordTypes
      <4>2. archive'[d].claims[other].key = r.key
        <5>1. CASE other \in X
          <6>1. archive[d].claims[other] # NoClaim
            BY <1>1, <3>1, <3>2
          <6>2. disk.claims[other].key = r.key
            BY <1>2, <3>2, <4>1, <5>1, <6>1 DEF Records, RecordKeyOK
          <6>3. archive'[today].claims[other] = mem.claims[other]
            BY <1>3, <4>1, <5>1
          <6>4. mem.claims[other].key = disk.claims[other].key
            BY <1>2, <5>1
          <6> QED BY <2>4, <6>2, <6>3, <6>4
        <5>2. CASE other \notin X
          BY <1>3, <2>4, <3>2, <4>1, <5>2
        <5> QED BY <5>1, <5>2
      <4> QED BY <1>1, <2>1, <3>2, <4>1, <4>2 DEF RecordKeyOK
    <3> QED BY <3>3, <3>4
  <2> QED BY <2>2, <2>3, <2>4 DEF RecordKeyOK
<1>6. ASSUME NEW d \in Days, NEW c \in ClaimIds PROVE RecordFinal(d, c)'
  <2> SUFFICES ASSUME Retention > 0, archive'[d].claims[c] # NoClaim
               PROVE  /\ c \in Known(disk) => disk.claims[c] = archive'[d].claims[c]
                      /\ \A e \in Days : archive'[e].claims[c] \in {NoClaim, archive'[d].claims[c]}
    BY <1>1 DEF RecordFinal, Known
  <2>1. \A e \in Days : archive[e].claims[c] # NoClaim =>
            /\ c \in Known(disk) => disk.claims[c] = archive[e].claims[c]
            /\ \A x \in Days : archive[x].claims[c] \in {NoClaim, archive[e].claims[c]}
    BY DEF Records, RecordFinal
  <2>2. CASE c \in X
    <3>1. \A e \in Days : archive'[e].claims[c] \in {NoClaim, disk.claims[c]}
      BY <1>2, <1>3, <2>1, <2>2
    <3> QED BY <1>2, <2>2, <3>1
  <2>3. CASE c \notin X
    <3>1. \A e \in Days : archive'[e].claims[c] = archive[e].claims[c]
      BY <1>3, <2>3
    <3> QED BY <2>1, <3>1
  <2> QED BY <2>2, <2>3
<1> QED BY <1>5, <1>6 DEF Records

(* An answer still on its way keeps its key through the sweep.              *)
LEMMA SweepAnswers == ASSUME LInv, ArchiveExpired PROVE AnswersAreTrue'
<1>1. /\ UNCHANGED <<disk, answers, call>> /\ phase = "worked"
      /\ \A c \in ClaimIds : mem'.claims[c] \in {NoClaim, mem.claims[c]}
  BY SweepFields DEF LInv, DInv
<1>2. \A c \in Known(mem)' : c \in Known(mem) /\ mem'.claims[c] = mem.claims[c]
  BY <1>1 DEF Known, NoClaim
<1> QED BY <1>1, <1>2 DEF LInv, AnswersAreTrue, Known

(* The rename.  An archived claim is in the document as it was, or not.     *)
LEMMA RenameKeeps ==
    ASSUME LInv, WriteAtomic PROVE AnswersAreTrue' /\ Records'
<1> USE DEF LInv, DInv
<1>1. /\ phase = "archived" /\ phase' = "idle" /\ disk' = mem
      /\ answers' \subseteq answers \cup ({call} \cap Answers)
      /\ archive' = archive
  BY DEF WriteAtomic
<1>2. \A c \in Known(mem) : Archived(c) =>
        /\ c \in Known(disk)
        /\ mem.claims[c].key = disk.claims[c].key
        /\ mem.claims[c] = disk.claims[c] \/ ReleaseOf(disk.claims[c], mem.claims[c])
  <2> SUFFICES ASSUME NEW c \in Known(mem), Archived(c)
               PROVE  /\ c \in Known(disk)
                      /\ mem.claims[c].key = disk.claims[c].key
                      /\ mem.claims[c] = disk.claims[c]
                            \/ ReleaseOf(disk.claims[c], mem.claims[c])
    OBVIOUS
  <2> QED BY <1>1, CopyOfOne DEF UnusedClaimIds
<1>3. Known(disk)' = Known(mem)
  BY <1>1 DEF Known
<1>4. AnswersAreTrue'
  <2> SUFFICES ASSUME NEW a \in answers', a.claim \in Known(mem)
               PROVE  mem.claims[a.claim].key = a.key
    BY <1>1, <1>3 DEF AnswersAreTrue
  <2>1. CASE a \in answers
    <3>1. CASE a.claim \in Known(disk)
      <4>1. disk.claims[a.claim].key = a.key
        BY <2>1, <3>1 DEF AnswersAreTrue
      <4> QED BY <1>1, <3>1, <4>1, CopyOfOne DEF UnusedClaimIds
    <3>2. CASE a.claim \notin Known(disk)
      BY <1>2, <2>1, <3>2 DEF Durable, ToldClaimsSurvive
    <3> QED BY <3>1, <3>2
  <2>2. CASE a = call /\ call \in Answers
    BY <1>1, <2>2 DEF AnswersAreTrue
  <2> QED BY <1>1, <2>1, <2>2
<1>5. ASSUME NEW d \in Days, NEW c \in ClaimIds, archive[d].claims[c] # NoClaim
      PROVE  /\ c \in Known(mem) => mem.claims[c].key = archive[d].claims[c].key
             /\ c \in Known(mem) /\ Retention > 0 => mem.claims[c] = archive[d].claims[c]
  <2> SUFFICES ASSUME c \in Known(mem)
               PROVE  /\ mem.claims[c].key = archive[d].claims[c].key
                      /\ Retention > 0 => mem.claims[c] = archive[d].claims[c]
    OBVIOUS
  <2>1. /\ c \in Known(disk)
        /\ mem.claims[c].key = disk.claims[c].key
        /\ mem.claims[c] = disk.claims[c] \/ ReleaseOf(disk.claims[c], mem.claims[c])
    BY <1>2, <1>5 DEF Archived
  <2>2. /\ archive[d].claims[c].status = "released"
        /\ disk.claims[c].key = archive[d].claims[c].key
        /\ Retention > 0 => disk.claims[c] = archive[d].claims[c]
    BY <1>5, <2>1 DEF Records, RecordKeyOK, RecordFinal
  <2> QED BY <2>1, <2>2 DEF ReleaseOf
<1>6. Records'
  BY <1>1, <1>3, <1>5 DEF Records, RecordKeyOK, RecordFinal
<1> QED BY <1>4, <1>6

(* Every step: a failure or a crash drops the copy, and time cannot pass    *)
(* between a worker and its sweep unless there is no retention.             *)
LEMMA NextL == LInv /\ [Next]_vars => LInv'
<1> SUFFICES ASSUME LInv, [Next]_vars PROVE LInv'
  OBVIOUS
<1> USE DEF LInv, DInv
<1>0. DInv'
  BY NextInv, NextDurable
<1>1. CASE Worker
  <2>1. UNCHANGED <<disk, archive>>
    BY <1>1 DEF Worker, ClaimAgain, ClaimNext, ReleaseClaim, UpsertAliases,
                InitializeFromLegacy, UpdateInventoryItem, UpdateInventoryItems,
                DeleteInventoryItem, Work
  <2>2. Records'
    BY <2>1 DEF Records, RecordKeyOK, RecordFinal, Known
  <2> QED BY <1>0, <1>1, <2>2, WorkerPending
<1>2. CASE ArchiveExpired
  <2>1. ReleasedNow'
    BY <1>2 DEF ArchiveExpired, ReleasedNow
  <2> QED BY <1>0, <1>2, <2>1, SweepPending, SweepRecords, SweepAnswers
<1>3. CASE WriteAtomic
  <2>1. Pending' /\ ReleasedNow'
    BY <1>3 DEF WriteAtomic, Pending, ReleasedNow
  <2> QED BY <1>0, <1>3, <2>1, RenameKeeps
<1>4. CASE StorageErrorOrCrash
  <2>1. UNCHANGED <<disk, archive, answers>> /\ phase' = "idle"
    BY <1>4 DEF StorageErrorOrCrash
  <2>2. Pending' /\ ReleasedNow'
    BY <2>1 DEF Pending, ReleasedNow
  <2>3. AnswersAreTrue' /\ Records'
    BY <2>1 DEF AnswersAreTrue, Records, RecordKeyOK, RecordFinal, Known
  <2> QED BY <1>0, <2>2, <2>3
<1>5. CASE Tick \/ UNCHANGED vars
  <2>1. /\ UNCHANGED <<disk, archive, phase, mem, call, answers>>
        /\ now \in Nat /\ now' \in Nat /\ now' >= now
        /\ phase = "worked" => Retention = 0 \/ now' = now
    BY <1>5, BoundsAssumption DEF Tick, vars, Inv, TypeOK
  <2>2. AnswersAreTrue' /\ Records'
    BY <2>1 DEF AnswersAreTrue, Records, RecordKeyOK, RecordFinal, Known
  <2>3. ReleasedNow'
    BY <2>1 DEF ReleasedNow, Known
  <2>4. ASSUME NEW f, NEW g, Outcome(f, g) PROVE Outcome(f, g)'
    BY <2>1, <2>4, OutcomeStays DEF Archived
  <2>5. CASE phase = "worked"
    <3>1. PICK f, g : f = mem.claims /\ g = mem.keys
      OBVIOUS
    <3>2. Outcome(f, g)'
      BY <2>4, <2>5, <3>1 DEF Pending
    <3> QED BY <1>0, <2>1, <2>2, <2>3, <2>5, <3>1, <3>2 DEF Pending
  <2>6. CASE phase = "archived"
    <3>1. PICK f, g : \E X \in SUBSET ClaimIds : Outcome(f, g) /\ Swept(f, g, X)
      BY <2>6 DEF Pending
    <3>2. PICK X \in SUBSET ClaimIds : Outcome(f, g) /\ Swept(f, g, X)
      BY <3>1
    <3>3. \A c \in X : f[c].releasedAt \in Nat
      <4> SUFFICES ASSUME NEW c \in X PROVE f[c].releasedAt \in Nat
        OBVIOUS
      <4>1. PICK d \in Days : archive[d].claims[c] = f[c]
        BY <3>2 DEF Swept
      <4>2. f[c] # NoClaim /\ c \in ClaimIds
        BY <3>2 DEF Swept, NoClaim
      <4> QED BY <4>1, <4>2, RecordTypes DEF Claims
    <3>4. Swept(f, g, X)'
      BY <2>1, <3>2, <3>3, RetentionAssumption DEF Swept
    <3>5. Outcome(f, g)'
      BY <2>4, <3>2
    <3> QED BY <1>0, <2>1, <2>2, <2>3, <2>6, <3>4, <3>5 DEF Pending
  <2>7. CASE phase = "idle"
    BY <1>0, <2>1, <2>2, <2>3, <2>7 DEF Pending
  <2> QED BY <2>5, <2>6, <2>7 DEF Inv, TypeOK, Phases
<1> QED BY <1>1, <1>2, <1>3, <1>4, <1>5 DEF Next

(* Nothing is archived, and nothing runs, at first.                         *)
LEMMA LedgerInvariant == Spec => []LInv
<1>1. Init => LInv
  <2> SUFFICES ASSUME Init PROVE LInv
    OBVIOUS
  <2>1. \A d \in Days, c \in ClaimIds : archive[d].claims[c] = NoClaim
    BY DEF Init, emptyArchive
  <2>2. Records
    BY <2>1 DEF Records, RecordKeyOK, RecordFinal
  <2> QED BY <2>2, InitInv, InitDurable
          DEF Init, LInv, DInv, Pending, ReleasedNow, AnswersAreTrue
<1> QED BY <1>1, NextL, PTL DEF Spec

(* A retried key is answered with the same claim until that claim is        *)
(* released and archived, across lost answers, failed writes and crashes    *)
(* (the idempotency lookup of claimNext).                                   *)
THEOREM RetriesGetTheSameClaim == Spec => []SameKeySameClaim
<1>1. ASSUME LInv PROVE SameKeySameClaim
  <2> SUFFICES ASSUME NEW a \in answers, NEW b \in answers, a.key = b.key, a.claim # b.claim
               PROVE  \E c \in {a.claim, b.claim} : Archived(c) /\ c \notin Active(disk)
    BY DEF SameKeySameClaim
  <2>1. \A x \in {a, b} : x.claim \in Known(disk) => disk.keys[x.key] = x.claim
    BY <1>1 DEF LInv, DInv, Inv, Consistent, KeysAndClaims, AnswersAreTrue
  <2>2. PICK x \in {a, b} : x.claim \notin Known(disk)
    BY <2>1
  <2>3. Archived(x.claim)
    BY <1>1, <2>2 DEF LInv, DInv, Durable, ToldClaimsSurvive
  <2> QED BY <2>2, <2>3 DEF Active
<1> QED BY <1>1, LedgerInvariant, PTL

(* Claims are archived together with their keys: no archive file has the    *)
(* one without the other, whichever sweeps failed half way or ran twice     *)
(* (archiveExpired, appendArchive).                                         *)
THEOREM KeysAlwaysArchivedWithClaims == Spec => []KeysArchivedWithClaims
<1>1. LInv => KeysArchivedWithClaims
  BY DEF LInv, Records, RecordKeyOK, KeysArchivedWithClaims
<1> QED BY <1>1, LedgerInvariant, PTL

(* With a retention, the record of a claim is the same in every archive     *)
(* file that has it and in the document the sweep could not write           *)
(* (appendArchive, releaseClaim).  With none, the mutation that releases a  *)
(* claim archives it before the release is durable; should its write fail,  *)
(* the archive has a claim as released that still is active.                *)
THEOREM ArchiveIsAlwaysFinal ==
    ASSUME Retention > 0
    PROVE  Spec => []ArchiveIsFinal
<1>1. LInv => ArchiveIsFinal
  BY DEF LInv, Records, RecordKeyOK, RecordFinal, ArchiveIsFinal
<1> QED BY <1>1, LedgerInvariant, PTL

-----------------------------------------------------------------------------
(* Only the rename changes the document.                                    *)
LEMMA OnlyTheRename ==
    ASSUME [Next]_vars, ~WriteAtomic
    PROVE  disk' = disk
BY DEF Next, vars, Worker, ClaimAgain, ClaimNext, ReleaseClaim, UpsertAliases,
       InitializeFromLegacy, UpdateInventoryItem, UpdateInventoryItems,
       DeleteInventoryItem, Work, ArchiveExpired, StorageErrorOrCrash, Tick

(* It makes durable what one worker and the sweep after it have done.       *)
LEMMA RenameOf ==
    ASSUME LInv, WriteAtomic
    PROVE  \E f, g : \E X \in SUBSET ClaimIds :
                /\ Outcome(f, g) /\ Swept(f, g, X)
                /\ disk' = mem /\ archive' = archive
BY DEF LInv, Pending, WriteAtomic

(* From one committed document to the next a claim stays as it is, is       *)
(* released with nothing else changed, or is archived in its final form     *)
(* (releaseClaim, archiveExpired).                                          *)
THEOREM ClaimsOnlyMoveForward == Spec => ClaimsMoveForward
<1> DEFINE Moves(c) ==
            LET old == disk.claims[c] IN
            \/ disk'.claims[c] = old
            \/ ReleaseOf(old, disk'.claims[c])
            \/ /\ disk'.claims[c] = NoClaim
               /\ \E d \in Days : LET r == archive[d].claims[c] IN
                    /\ r = old \/ ReleaseOf(old, r)
                    /\ r.releasedAt + Retention < now
<1>1. LInv /\ [Next]_vars => [\A c \in Known(disk) : Moves(c)]_vars
  <2> SUFFICES ASSUME LInv, [Next]_vars, NEW c \in Known(disk) PROVE Moves(c)
    OBVIOUS
  <2>1. CASE ~WriteAtomic
    BY <2>1, OnlyTheRename
  <2>2. CASE WriteAtomic
    <3>1. PICK f, g : \E X \in SUBSET ClaimIds :
            Outcome(f, g) /\ Swept(f, g, X) /\ disk' = mem /\ archive' = archive
      BY <2>2, RenameOf
    <3>2. PICK X \in SUBSET ClaimIds :
            Outcome(f, g) /\ Swept(f, g, X) /\ disk' = mem /\ archive' = archive
      BY <3>1
    <3>3. c \in ClaimIds /\ (f[c] = disk.claims[c] \/ ReleaseOf(disk.claims[c], f[c]))
      BY <3>2, OutcomeKeeps DEF LInv, DInv, Known
    <3>4. disk'.claims[c] = IF c \in X THEN NoClaim ELSE f[c]
      BY <3>2, <3>3 DEF Swept
    <3>5. CASE c \in X
      BY <3>2, <3>3, <3>4, <3>5 DEF Swept
    <3>6. CASE c \notin X
      BY <3>3, <3>4, <3>6
    <3> QED BY <3>5, <3>6
  <2> QED BY <2>1, <2>2
<1> QED BY <1>1, LedgerInvariant, PTL DEF Spec, ClaimsMoveForward

-----------------------------------------------------------------------------
(* The store as a ledger.                                                   *)

(* The status and address a claim has in it.                                *)
LEMMA LedgerOfOne ==
    ASSUME Inv, NEW c \in ClaimIds
    PROVE  /\ c \in Known(disk) =>
                /\ LedgerStatus[c] = disk.claims[c].status
                /\ LedgerAddress[c] = disk.claims[c].email
           /\ c \notin Known(disk) =>
                /\ LedgerStatus[c] = IF Archived(c) THEN "archived" ELSE "none"
                /\ LedgerAddress[c] = None
           /\ LedgerStatus[c] \in {"none", "active", "released", "archived"}
           /\ LedgerStatus[c] = "active" <=> c \in Active(disk)
<1>1. c \in Known(disk) => disk.claims[c].status \in {"active", "released"}
  BY DEF Inv, TypeOK, Documents, Known, Claims, NoClaim
<1> QED BY <1>1 DEF LedgerStatus, LedgerAddress, Active

(* A step that leaves the document alone does not show: what the sweep      *)
(* archives is still in the document.                                       *)
LEMMA LedgerStutters ==
    ASSUME LInv, [Next]_vars, ~WriteAtomic
    PROVE  UNCHANGED Ledger!ledger
<1>1. disk' = disk
  BY OnlyTheRename
<1>2. \A c \in ClaimIds \ Known(disk) : Archived(c)' <=> Archived(c)
  <2>1. CASE ArchiveExpired
    <3>1. ExpiredClaims(mem, now) \subseteq Known(disk)
      BY <2>1, ExpiredInDocument DEF ArchiveExpired
    <3>2. \A c \in ClaimIds \ Known(disk), d \in Days :
            archive'[d].claims[c] = archive[d].claims[c]
      BY <2>1, <3>1, SweepFields DEF LInv, DInv
    <3> QED BY <3>2 DEF Archived
  <2>2. CASE ~ArchiveExpired
    <3>1. archive' = archive
      BY <2>2 DEF Next, vars, Worker, ClaimAgain, ClaimNext, ReleaseClaim, UpsertAliases,
                  InitializeFromLegacy, UpdateInventoryItem, UpdateInventoryItems,
                  DeleteInventoryItem, Work, WriteAtomic, StorageErrorOrCrash, Tick
    <3> QED BY <3>1 DEF Archived
  <2> QED BY <2>1, <2>2
<1>3. Known(disk)' = Known(disk)
  BY <1>1 DEF Known
<1>4. LedgerStatus' = LedgerStatus
  BY <1>1, <1>2, <1>3 DEF LedgerStatus
<1>5. LedgerAddress' = LedgerAddress
  BY <1>1, <1>3 DEF LedgerAddress
<1> QED BY <1>1, <1>4, <1>5 DEF Ledger!ledger

(* The rename shows what the worker has done, st and addr, and archives     *)
(* what the sweep has taken out since.                                      *)
LEMMA LedgerArchives ==
    ASSUME LInv, NEW f, NEW g, NEW X \in SUBSET ClaimIds,
           Outcome(f, g), Swept(f, g, X), disk' = mem, archive' = archive,
           NEW st, NEW addr,
           \A c \in ClaimIds : f[c].status # "none" =>
                st[c] = f[c].status /\ addr[c] = f[c].email,
           \A c \in ClaimIds : f[c].status = "none" =>
                st[c] = LedgerStatus[c] /\ addr[c] = None
    PROVE  Ledger!Archive(X, st, addr, g)
<1> USE DEF LInv, DInv
<1>1. \A c \in X : c \in ClaimIds /\ f[c].status = "released" /\ Archived(c)
  <2> SUFFICES ASSUME NEW c \in X PROVE f[c].status = "released" /\ Archived(c)
    OBVIOUS
  <2>1. f[c].status = "released" /\ \E d \in Days : archive[d].claims[c] = f[c]
    BY DEF Swept
  <2>2. f[c] # NoClaim
    BY <2>1 DEF NoClaim
  <2> QED BY <2>1, <2>2 DEF Archived
<1>2. \A c \in ClaimIds : mem.claims[c] = IF c \in X THEN NoClaim ELSE f[c]
  BY DEF Swept
<1>3. /\ \A c \in ClaimIds : c \in Known(disk)' <=> c \notin X /\ f[c].status # "none"
      /\ \A c \in ClaimIds : Archived(c)' <=> Archived(c)
  BY <1>2 DEF Known, NoClaim, Archived
<1>4. \A c \in ClaimIds : f[c].status = "none" => c \notin Known(disk)
  BY OutcomeKeeps
<1>5. LedgerStatus' = [c \in ClaimIds |-> IF c \in X THEN "archived" ELSE st[c]]
  <2> SUFFICES ASSUME NEW c \in ClaimIds
               PROVE  (IF c \in Known(disk)' THEN disk'.claims[c].status
                       ELSE IF Archived(c)' THEN "archived" ELSE "none")
                      = (IF c \in X THEN "archived" ELSE st[c])
    BY DEF LedgerStatus
  <2>1. CASE c \in X
    BY <1>1, <1>3, <2>1
  <2>2. CASE c \notin X /\ f[c].status # "none"
    BY <1>2, <1>3, <2>2
  <2>3. CASE c \notin X /\ f[c].status = "none"
    BY <1>3, <1>4, <2>3 DEF LedgerStatus
  <2> QED BY <2>1, <2>2, <2>3
<1>6. LedgerAddress' = [c \in ClaimIds |-> IF c \in X THEN None ELSE addr[c]]
  <2> SUFFICES ASSUME NEW c \in ClaimIds
               PROVE  (IF c \in Known(disk)' THEN disk'.claims[c].email ELSE None)
                      = (IF c \in X THEN None ELSE addr[c])
    BY DEF LedgerAddress
  <2> QED BY <1>2, <1>3
<1>7. disk'.keys = [k \in Keys |-> IF g[k] \in X THEN None ELSE g[k]]
  BY DEF Swept, Inv, TypeOK, Documents
<1>8. \A c \in X : st[c] = "released"
  BY <1>1
<1> QED BY <1>5, <1>6, <1>7, <1>8 DEF Ledger!Archive

(* A row that claimNext may hand out has an address nobody holds.           *)
LEMMA AvailableIsFree ==
    ASSUME Inv, NEW i \in AvailableRows(disk), NEW d \in Active(disk)
    PROVE  disk.claims[d].email # disk.rows[i].email
<1> DEFINE j == disk.claims[d].item
<1>1. /\ disk \in Documents /\ d \in ClaimIds /\ d # None
      /\ disk.claims[d] \in Claims /\ j \in Ids
  BY NoneAssumption DEF Inv, TypeOK, Active, Known, Documents, Claims, NoClaim
<1>2. disk.rows[j].claim = d /\ disk.rows[j].email = disk.claims[d].email
  BY <1>1 DEF Inv, Consistent, RowsAndClaims, ClaimedAddress, Active
<1>3. j \in Present(disk)
  BY <1>1, <1>2 DEF Present, Documents, AbsentRow, Rows, Groups
<1>4. i \in Present(disk) /\ disk.rows[i].claim = None
  BY DEF AvailableRows, Available, Present
<1> QED BY <1>1, <1>2, <1>3, <1>4 DEF Inv, Consistent, OneRowPerEmail

(* The step of the ledger that the rename is.                               *)
LEMMA RenameIsLedgerStep == ASSUME LInv, WriteAtomic PROVE Ledger!Next
<1> USE DEF LInv, DInv
<1>1. PICK f, g : \E X \in SUBSET ClaimIds :
        Outcome(f, g) /\ Swept(f, g, X) /\ disk' = mem /\ archive' = archive
  BY RenameOf
<1>2. PICK X \in SUBSET ClaimIds :
        Outcome(f, g) /\ Swept(f, g, X) /\ disk' = mem /\ archive' = archive
  BY <1>1
<1>3. \A c \in ClaimIds :
        /\ disk.claims[c].status # "none" =>
            /\ LedgerStatus[c] = disk.claims[c].status
            /\ LedgerAddress[c] = disk.claims[c].email
        /\ disk.claims[c].status = "none" => LedgerAddress[c] = None
  BY LedgerOfOne DEF Known
<1>4. CASE f = disk.claims /\ g = disk.keys
  <2>1. Ledger!Archive(X, LedgerStatus, LedgerAddress, g)
    BY <1>2, <1>3, <1>4, LedgerArchives
  <2>2. Ledger!Forget(X)
    BY <1>4, <2>1 DEF Ledger!Forget
  <2> QED BY <2>2 DEF Ledger!Next
<1>5. ASSUME NEW c \in ClaimIds, OneRelease(f, g, c) PROVE Ledger!Next
  <2> DEFINE st == [LedgerStatus EXCEPT ![c] = "released"]
  <2>1. /\ c \in Active(disk) /\ c \in Known(disk)
        /\ disk.claims[c].status = "active" /\ f[c].status = "released"
        /\ f[c].email = disk.claims[c].email
    <3>1. c \in Active(disk) /\ c \in Known(disk) /\ disk.claims[c].status = "active"
      BY <1>5 DEF OneRelease, Active
    <3>2. disk.claims[c] \in Claims
      BY <3>1 DEF Inv, TypeOK, Documents, Known, NoClaim
    <3> QED BY <1>5, <3>1, <3>2, ReleaseFields DEF OneRelease
  <2>2. \A d \in ClaimIds : st[d] = IF d = c THEN "released" ELSE LedgerStatus[d]
    BY DEF LedgerStatus
  <2> HIDE DEF st
  <2>3. Ledger!Archive(X, st, LedgerAddress, g)
    <3>1. \A d \in ClaimIds : f[d].status # "none" =>
                st[d] = f[d].status /\ LedgerAddress[d] = f[d].email
      BY <1>3, <1>5, <2>1, <2>2 DEF OneRelease
    <3>2. \A d \in ClaimIds : f[d].status = "none" =>
                st[d] = LedgerStatus[d] /\ LedgerAddress[d] = None
      BY <1>3, <1>5, <2>1, <2>2 DEF OneRelease
    <3> QED BY <1>2, <3>1, <3>2, LedgerArchives
  <2>4. LedgerStatus[c] = "active" /\ g = disk.keys
    BY <1>3, <1>5, <2>1 DEF OneRelease
  <2>5. Ledger!Release(c, X)
    BY <2>3, <2>4 DEF Ledger!Release, st
  <2> QED BY <2>5 DEF Ledger!Next
<1>6. ASSUME NEW k \in Keys, NEW i \in Ids, NEW c \in ClaimIds, OneClaim(f, g, k, i, c)
      PROVE  Ledger!Next
  <2> DEFINE e == disk.rows[i].email
             st == [LedgerStatus EXCEPT ![c] = "active"]
             addr == [LedgerAddress EXCEPT ![c] = e]
  <2>1. /\ disk.keys[k] = None /\ i \in AvailableRows(disk)
        /\ c \notin Known(disk) /\ ~Archived(c)
        /\ f[c].status = "active" /\ f[c].email = e
        /\ \A d \in ClaimIds \ {c} : f[d] = disk.claims[d]
        /\ g = [disk.keys EXCEPT ![k] = c]
    BY <1>6 DEF OneClaim, UnusedClaimIds
  <2>2. e \in Emails
    BY <2>1 DEF AvailableRows, Available, Inv, TypeOK, Documents, AbsentRow, Rows
  <2>3. /\ \A d \in ClaimIds : st[d] = IF d = c THEN "active" ELSE LedgerStatus[d]
        /\ \A d \in ClaimIds : addr[d] = IF d = c THEN e ELSE LedgerAddress[d]
    BY DEF LedgerStatus, LedgerAddress
  <2>4. \A d \in Ledger!With("active") : LedgerAddress[d] # e
    <3> SUFFICES ASSUME NEW d \in ClaimIds, LedgerStatus[d] = "active"
                 PROVE  LedgerAddress[d] # e
      BY DEF Ledger!With
    <3>1. d \in Active(disk) /\ d \in Known(disk)
      BY LedgerOfOne DEF Active
    <3> QED BY <2>1, <3>1, LedgerOfOne, AvailableIsFree
  <2>5. LedgerStatus[c] = "none"
    BY <2>1, LedgerOfOne
  <2> HIDE DEF e, st, addr
  <2>6. Ledger!Archive(X, st, addr, g)
    <3>1. \A d \in ClaimIds : f[d].status # "none" => st[d] = f[d].status /\ addr[d] = f[d].email
      BY <1>3, <2>1, <2>3
    <3>2. \A d \in ClaimIds : f[d].status = "none" => st[d] = LedgerStatus[d] /\ addr[d] = None
      BY <1>3, <2>1, <2>3
    <3> QED BY <1>2, <3>1, <3>2, LedgerArchives
  <2>7. Ledger!Claim(k, e, c, X)
    BY <2>1, <2>4, <2>5, <2>6 DEF Ledger!Claim, st, addr
  <2> QED BY <2>2, <2>7 DEF Ledger!Next
<1> QED BY <1>2, <1>4, <1>5, <1>6 DEF Outcome

(* To its callers the store is an atomic ledger of exclusive claims: every  *)
(* step but the rename of the state file is invisible, and the rename is a  *)
(* claim, a release or nothing, with what that mutation swept (mutate,      *)
(* claimNext, releaseClaim, archiveExpired).                                *)
THEOREM StoreImplementsLedger == Spec => ImplementsLedger
<1>1. Init => Ledger!Init
  <2> SUFFICES ASSUME Init PROVE Ledger!Init
    OBVIOUS
  <2>1. /\ Known(disk) = {} /\ disk.keys = [k \in Keys |-> None]
        /\ \A c \in ClaimIds : ~Archived(c)
    BY DEF Init, emptyState, emptyArchive, Known, Archived, NoClaim
  <2> QED BY <2>1 DEF Ledger!Init, LedgerStatus, LedgerAddress
<1>2. LInv /\ [Next]_vars => [Ledger!Next]_(Ledger!ledger)
  BY LedgerStutters, RenameIsLedgerStep
<1> QED BY <1>1, <1>2, LedgerInvariant, PTL DEF Spec, ImplementsLedger, Ledger!Spec

=============================================================================
