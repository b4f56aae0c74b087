------------------------ MODULE DashboardStore_proofs ------------------------
(***************************************************************************)
(* For any number of rows, addresses, claims and keys, any retention and   *)
(* any clock: the type invariant of DashboardStore and the agreement of    *)
(* its rows, claims, keys and addresses.                                   *)
(***************************************************************************)
EXTENDS DashboardStore, TLAPS

(* A document a worker may be given, and must leave behind.                 *)
Consistent(st) ==
    /\ st \in Documents
    /\ RowsAndClaims(st)
    /\ KeysAndClaims(st)
    /\ OneRowPerEmail(st)
    /\ ClaimedAddress(st)

-----------------------------------------------------------------------------
(* The workers preserve consistency.                                        *)

(* claimNext on a key without a claim, a row it may hand out and a claim id *)
(* of no claim in the document.                                             *)
LEMMA ClaimNextConsistent ==
    ASSUME NEW st, Consistent(st),
           NEW k \in Keys, st.keys[k] = None,
           NEW i \in AvailableRows(st),
           NEW c \in ClaimIds \ Known(st)
    PROVE  Consistent(claimNext(st, k, i, c))
<1> DEFINE new == claimNext(st, k, i, c)
           row == [st.rows[i] EXCEPT !.group = "finished", !.claim = c]
           claim == [status |-> "active", item |-> i, email |-> st.rows[i].email,
                     key |-> k, releasedAt |-> 0]
<1>1. /\ st \in Documents
      /\ i \in Ids
      /\ st.rows[i] \in Rows
      /\ st.rows[i].claim = None
      /\ st.rows[i].group = "unused"
      /\ None \notin ClaimIds
  BY NoneAssumption DEF Consistent, Documents, AvailableRows, Available, AbsentRow
<1>2. /\ new.rows = [st.rows EXCEPT ![i] = row]
      /\ new.claims = [st.claims EXCEPT ![c] = claim]
      /\ new.keys = [st.keys EXCEPT ![k] = c]
      /\ new.migrated = st.migrated
  BY <1>1 DEF claimNext, Documents
<1>3. row \in Rows /\ row.claim = c /\ row.email = st.rows[i].email /\ row.group = "finished"
  BY <1>1 DEF Rows, Groups
<1>4. claim \in Claims
  BY <1>1 DEF Claims, Rows
<1>5. new \in Documents
  BY <1>1, <1>2, <1>3, <1>4 DEF claimNext, Documents
<1> HIDE DEF new, row, claim
<1>6. RowsAndClaims(new)
  BY <1>1, <1>2, <1>3, <1>4 DEF Consistent, RowsAndClaims, Known, Documents, claim
<1>7. KeysAndClaims(new)
  BY <1>1, <1>2, <1>4 DEF Consistent, KeysAndClaims, Known, Documents, Claims, NoClaim, claim
<1>8. OneRowPerEmail(new)
  BY <1>1, <1>2, <1>3 DEF Consistent, OneRowPerEmail, Present, Documents
<1>9. ClaimedAddress(new)
  BY <1>1, <1>2, <1>3, <1>4 DEF Consistent, ClaimedAddress, RowsAndClaims, Known, Documents, claim
<1> QED BY <1>5, <1>6, <1>7, <1>8, <1>9 DEF Consistent, new

(* releaseClaim, at any time, of any claim in the document.                 *)
LEMMA ReleaseClaimConsistent ==
    ASSUME NEW st, Consistent(st),
           NEW c \in Known(st), NEW at \in Nat
    PROVE  Consistent(releaseClaim(st, c, at))
<1> DEFINE new == releaseClaim(st, c, at)
           item == st.claims[c].item
           claim == [st.claims[c] EXCEPT !.status = "released", !.releasedAt = at]
           row == [st.rows[item] EXCEPT !.group = "unused", !.claim = None]
<1>1. CASE st.claims[c].status = "released"
  BY <1>1 DEF releaseClaim
<1>2. CASE st.claims[c].status # "released"
  <2>1. /\ st \in Documents
        /\ c \in ClaimIds
        /\ st.claims[c] \in Claims
        /\ st.claims[c].status = "active"
        /\ item \in Ids
        /\ st.rows[item].claim = c
        /\ None \notin ClaimIds
    BY <1>2, NoneAssumption DEF Consistent, Documents, Known, NoClaim, Claims, RowsAndClaims
  <2>2. st.rows[item] \in Rows /\ st.rows[item].group # "absent"
    BY <2>1 DEF Documents, AbsentRow, Rows, Groups
  <2>3. /\ row \in Rows
        /\ row.claim = None
        /\ row.email = st.rows[item].email
        /\ row.group = "unused"
    BY <2>2 DEF Rows, Groups
  <2>4. /\ claim \in Claims
        /\ claim.status = "released"
        /\ claim.item = item
        /\ claim.email = st.claims[c].email
        /\ claim.key = st.claims[c].key
    BY <2>1 DEF Claims
  <2>5. /\ new.rows = [st.rows EXCEPT ![item] = row]
        /\ new.claims = [st.claims EXCEPT ![c] = claim]
        /\ new.keys = st.keys
        /\ new.migrated = st.migrated
    BY <1>2, <2>1 DEF releaseClaim, HeldBy, Documents
  <2>6. new \in Documents
    BY <1>2, <2>1, <2>3, <2>4, <2>5 DEF releaseClaim, Documents
  <2> HIDE DEF new, claim, row
  <2>7. RowsAndClaims(new)
    BY <2>1, <2>3, <2>4, <2>5 DEF Consistent, RowsAndClaims, Known, Documents
  <2>8. KeysAndClaims(new)
    BY <2>1, <2>4, <2>5 DEF Consistent, KeysAndClaims, Known, Documents, Claims
  <2>9. OneRowPerEmail(new)
    BY <2>1, <2>2, <2>3, <2>5 DEF Consistent, OneRowPerEmail, Present, Documents
  <2>10. ClaimedAddress(new)
    BY <2>1, <2>3, <2>4, <2>5 DEF Consistent, ClaimedAddress, Documents
  <2> QED BY <2>6, <2>7, <2>8, <2>9, <2>10 DEF Consistent, new
<1> QED BY <1>1, <1>2

(* Rows can change their group and flag, and rows without a claim can go,   *)
(* without disturbing anything else.                                        *)
LEMMA RowsOnly ==
    ASSUME NEW st, Consistent(st), NEW new \in Documents,
           new.claims = st.claims, new.keys = st.keys,
           \A i \in Ids : new.rows[i].claim = st.rows[i].claim,
           \A i \in Ids : st.rows[i].claim # None => new.rows[i].email = st.rows[i].email,
           OneRowPerEmail(new)
    PROVE  Consistent(new)
<1>1. RowsAndClaims(new)
  BY DEF Consistent, RowsAndClaims, Known, Documents, Claims, NoClaim
<1>2. KeysAndClaims(new)
  BY DEF Consistent, KeysAndClaims, Known
<1>3. ClaimedAddress(new)
  BY DEF Consistent, ClaimedAddress
<1> QED BY <1>1, <1>2, <1>3 DEF Consistent

(* The rows made for the addresses of a request have ids of absent rows,    *)
(* distinct addresses, and addresses no present row has.                    *)
NewFor(st, E, fresh) ==
    /\ DOMAIN fresh \subseteq Ids
    /\ \A i \in DOMAIN fresh :
        /\ fresh[i] \in E
        /\ st.rows[i] = AbsentRow
        /\ \A j \in Present(st) : st.rows[j].email # fresh[i]
        /\ \A j \in DOMAIN fresh : fresh[i] = fresh[j] => i = j

(* The upserts mint such ids.                                               *)
LEMMA FreshRowsAreNew ==
    ASSUME NEW st \in Documents, NEW E \in SUBSET Emails,
           NEW unused \in SUBSET (Ids \ Present(st)),
           NEW fresh \in FreshRows(st, E, unused)
    PROVE  NewFor(st, E, fresh)
<1>1. PICK N \in SUBSET unused : fresh \in Bijection(N, NewEmails(st, E))
  BY DEF FreshRows
<1>2. fresh \in [N -> NewEmails(st, E)] /\ IsInjective(fresh)
  BY <1>1 DEF Bijection, Injection
<1>3. \A i \in Ids : i \notin Present(st) => st.rows[i] = AbsentRow
  BY DEF Present, Documents, Rows, Groups
<1> QED BY <1>2, <1>3 DEF NewFor, IsInjective, NewEmails, ByEmail

(* A row made by an upsert is a row, with no claim.                         *)
LEMMA NewRowIsRow ==
    ASSUME NEW e \in Emails, NEW g \in Groups, NEW active \in BOOLEAN
    PROVE  /\ NewRow(e, g, active) \in Rows
           /\ NewRow(e, g, active).group = g
           /\ NewRow(e, g, active).email = e
           /\ NewRow(e, g, active).claim = None
BY DEF NewRow, Rows

(* syncAliases, createInventoryItems.                                       *)
LEMMA UpsertConsistent ==
    ASSUME NEW st, Consistent(st),
           NEW E \in SUBSET Emails, NEW isActive \in [E -> BOOLEAN \cup {None}],
           NEW unused \in SUBSET (Ids \ Present(st)),
           NEW fresh \in FreshRows(st, E, unused)
    PROVE  Consistent(upsertAliases(st, isActive, fresh))
<1> DEFINE new == upsertAliases(st, isActive, fresh)
           made(i) == NewRow(fresh[i], "unused", isActive[fresh[i]] # FALSE)
           kept(i) == IF st.rows[i].email \in E /\ isActive[st.rows[i].email] # None
                      THEN [st.rows[i] EXCEPT !.active = isActive[st.rows[i].email]]
                      ELSE st.rows[i]
<1>0. NewFor(st, E, fresh)
  BY FreshRowsAreNew DEF Consistent
<1>1. st \in Documents /\ DOMAIN isActive = E
  BY DEF Consistent
<1>2. /\ new.rows = [i \in Ids |-> IF i \in DOMAIN fresh THEN made(i) ELSE kept(i)]
      /\ new.claims = st.claims
      /\ new.keys = st.keys
      /\ new.migrated = st.migrated
  BY <1>1 DEF upsertAliases, Documents
<1>3. \A i \in DOMAIN fresh :
        /\ made(i) \in Rows
        /\ made(i).group = "unused"
        /\ made(i).email = fresh[i]
        /\ made(i).claim = None
        /\ st.rows[i].claim = None
  <2> SUFFICES ASSUME NEW i \in DOMAIN fresh
               PROVE  /\ made(i) \in Rows
                      /\ made(i).group = "unused"
                      /\ made(i).email = fresh[i]
                      /\ made(i).claim = None
                      /\ st.rows[i].claim = None
    OBVIOUS
  <2>1. fresh[i] \in Emails /\ st.rows[i].claim = None
    BY <1>0 DEF NewFor, AbsentRow
  <2>2. (isActive[fresh[i]] # FALSE) \in BOOLEAN /\ "unused" \in Groups
    BY DEF Groups
  <2> QED BY <2>1, <2>2, NewRowIsRow
<1>4. \A i \in Ids :
        /\ kept(i) \in Rows \cup {AbsentRow}
        /\ kept(i).email = st.rows[i].email
        /\ kept(i).claim = st.rows[i].claim
        /\ kept(i).group = st.rows[i].group
  BY <1>1, NoneAssumption DEF Documents, Rows, AbsentRow
<1>5. new \in Documents
  BY <1>1, <1>2, <1>3, <1>4 DEF upsertAliases, Documents
<1> HIDE DEF new, made, kept
<1>6. OneRowPerEmail(new)
  <2> SUFFICES ASSUME NEW i \in Present(new), NEW j \in Present(new),
                      new.rows[i].email = new.rows[j].email
               PROVE  i = j
    BY DEF OneRowPerEmail
  <2>1. \A x \in Present(new) :
            /\ x \in Ids
            /\ x \in DOMAIN fresh => new.rows[x].email = fresh[x]
            /\ x \notin DOMAIN fresh =>
                    x \in Present(st) /\ new.rows[x].email = st.rows[x].email
    BY <1>2, <1>3, <1>4 DEF Present
  <2> QED BY <1>0, <2>1 DEF NewFor, Consistent, OneRowPerEmail
<1>7. \A i \in Ids : /\ new.rows[i].claim = st.rows[i].claim
                     /\ st.rows[i].claim # None => new.rows[i].email = st.rows[i].email
  BY <1>2, <1>3, <1>4
<1> QED BY <1>2, <1>5, <1>6, <1>7, RowsOnly DEF new

(* initializeFromLegacy, whatever groups the browser submits.               *)
LEMMA LegacyConsistent ==
    ASSUME NEW st, Consistent(st),
           NEW E \in SUBSET Emails, NEW group \in [E -> Groups],
           NEW unused \in SUBSET (Ids \ Present(st)),
           NEW fresh \in FreshRows(st, E, unused)
    PROVE  Consistent(initializeFromLegacy(st, group, fresh))
<1> DEFINE new == initializeFromLegacy(st, group, fresh)
           made(i) == NewRow(fresh[i], group[fresh[i]], TRUE)
           kept(i) == IF st.rows[i].email \in E
                      THEN [st.rows[i] EXCEPT !.group = group[st.rows[i].email]]
                      ELSE st.rows[i]
<1>0. NewFor(st, E, fresh)
  BY FreshRowsAreNew DEF Consistent
<1>1. st \in Documents /\ DOMAIN group = E
  BY DEF Consistent
<1>2. /\ new.rows = [i \in Ids |-> IF i \in DOMAIN fresh THEN made(i) ELSE kept(i)]
      /\ new.claims = st.claims
      /\ new.keys = st.keys
      /\ new.migrated = TRUE
  BY <1>1 DEF initializeFromLegacy, Documents
<1>3. \A i \in DOMAIN fresh :
        /\ made(i) \in Rows
        /\ made(i).email = fresh[i]
        /\ made(i).claim = None
        /\ st.rows[i].claim = None
  <2> SUFFICES ASSUME NEW i \in DOMAIN fresh
               PROVE  /\ made(i) \in Rows
                      /\ made(i).email = fresh[i]
                      /\ made(i).claim = None
                      /\ st.rows[i].claim = None
    OBVIOUS
  <2>1. fresh[i] \in E /\ st.rows[i].claim = None
    BY <1>0 DEF NewFor, AbsentRow
  <2>2. group[fresh[i]] \in Groups /\ TRUE \in BOOLEAN
    BY <2>1
  <2> QED BY <2>1, <2>2, NewRowIsRow
<1>4. \A i \in Ids :
        /\ kept(i) \in Rows \cup {AbsentRow}
        /\ kept(i).email = st.rows[i].email
        /\ kept(i).claim = st.rows[i].claim
        /\ kept(i).group # "absent" => i \in Present(st)
  BY <1>1, NoneAssumption DEF Documents, Rows, AbsentRow, Present, Groups
<1>5. new \in Documents
  BY <1>1, <1>2, <1>3, <1>4 DEF initializeFromLegacy, Documents
<1> HIDE DEF new, made, kept
<1>6. OneRowPerEmail(new)
  <2> SUFFICES ASSUME NEW i \in Present(new), NEW j \in Present(new),
                      new.rows[i].email = new.rows[j].email
               PROVE  i = j
    BY DEF OneRowPerEmail
  <2>1. \A x \in Present(new) :
            /\ x \in Ids
            /\ x \in DOMAIN fresh => new.rows[x].email = fresh[x]
            /\ x \notin DOMAIN fresh =>
                    x \in Present(st) /\ new.rows[x].email = st.rows[x].email
    BY <1>2, <1>3, <1>4 DEF Present
  <2> QED BY <1>0, <2>1 DEF NewFor, Consistent, OneRowPerEmail
<1>7. \A i \in Ids : /\ new.rows[i].claim = st.rows[i].claim
                     /\ st.rows[i].claim # None => new.rows[i].email = st.rows[i].email
  BY <1>2, <1>3, <1>4
<1> QED BY <1>2, <1>5, <1>6, <1>7, RowsOnly DEF new

(* updateInventoryItem, updateInventoryItems.                               *)
LEMMA UpdateConsistent ==
    ASSUME NEW st, Consistent(st),
           NEW batch \in SUBSET Ids, NEW patch \in [batch -> Patches],
           NEW expected \in Groups \cup {None}
    PROVE  Consistent(updateInventoryItems(st, patch, expected))
<1> DEFINE new == updateInventoryItems(st, patch, expected)
<1>1. st \in Documents
  BY DEF Consistent
<1>2. \A i \in batch : i \in Present(st) =>
        /\ patched(st.rows[i], patch[i]) \in Rows
        /\ patched(st.rows[i], patch[i]).email = st.rows[i].email
        /\ patched(st.rows[i], patch[i]).claim = st.rows[i].claim
  <2> SUFFICES ASSUME NEW row \in Rows, NEW p \in Patches
               PROVE  /\ patched(row, p) \in Rows
                      /\ patched(row, p).email = row.email
                      /\ patched(row, p).claim = row.claim
    BY <1>1 DEF Documents, Present, AbsentRow
  <2>1. /\ (IF p.group = None THEN row.group ELSE p.group) \in Groups
        /\ (IF p.active = None THEN row.active ELSE p.active) \in BOOLEAN
    BY DEF Rows, Patches
  <2> QED BY <2>1 DEF patched, Rows
<1>3. /\ new.rows = [i \in Ids |-> IF i \in batch /\ Applies(st, i, expected)
                                   THEN patched(st.rows[i], patch[i])
                                   ELSE st.rows[i]]
      /\ new.claims = st.claims
      /\ new.keys = st.keys
      /\ new.migrated = st.migrated
  BY <1>1 DEF updateInventoryItems, Documents
<1>4. new \in Documents
  BY <1>1, <1>2, <1>3 DEF updateInventoryItems, Documents, Applies
<1> HIDE DEF new
<1>5. \A i \in Ids : /\ new.rows[i].claim = st.rows[i].claim
                     /\ new.rows[i].email = st.rows[i].email
                     /\ i \in Present(new) => i \in Present(st)
  BY <1>2, <1>3 DEF Applies, Present
<1>6. OneRowPerEmail(new)
  BY <1>5 DEF Consistent, OneRowPerEmail, Present
<1> QED BY <1>3, <1>4, <1>5, <1>6, RowsOnly DEF new

(* deleteInventoryItem.                                                     *)
LEMMA DeleteConsistent ==
    ASSUME NEW st, Consistent(st), NEW i \in Ids, CanDelete(st, i)
    PROVE  Consistent(deleteInventoryItem(st, i))
<1> DEFINE new == deleteInventoryItem(st, i)
<1>1. st \in Documents /\ st.rows[i].claim = None
  BY DEF Consistent, CanDelete
<1>2. /\ new.rows = [st.rows EXCEPT ![i] = AbsentRow]
      /\ new.claims = st.claims
      /\ new.keys = st.keys
      /\ new.migrated = st.migrated
      /\ new \in Documents
  BY <1>1 DEF deleteInventoryItem, Documents
<1> HIDE DEF new
<1>3. OneRowPerEmail(new)
  BY <1>1, <1>2 DEF Consistent, OneRowPerEmail, Present, AbsentRow, Documents
<1>4. \A j \in Ids : /\ new.rows[j].claim = st.rows[j].claim
                     /\ st.rows[j].claim # None => new.rows[j].email = st.rows[j].email
  BY <1>1, <1>2 DEF AbsentRow, Documents
<1> QED BY <1>2, <1>3, <1>4, RowsOnly DEF new

(* The sweep, at any time: it takes claims no row holds, with their keys.   *)
LEMMA SweepConsistent ==
    ASSUME NEW st, Consistent(st), NEW at \in Nat
    PROVE  Consistent(archiveExpired(st, at))
<1> DEFINE new == archiveExpired(st, at)
           gone == ExpiredClaims(st, at)
<1>1. st \in Documents /\ None \notin ClaimIds
  BY NoneAssumption DEF Consistent
<1>2. /\ new.rows = st.rows
      /\ new.claims = [c \in ClaimIds |-> IF c \in gone THEN NoClaim ELSE st.claims[c]]
      /\ new.keys = [k \in Keys |-> IF k \in ExpiredKeys(st, at) THEN None ELSE st.keys[k]]
      /\ new.migrated = st.migrated
      /\ new \in Documents
  BY <1>1 DEF archiveExpired, Documents
<1>3. \A c \in gone : c \in Known(st) /\ st.claims[c].status = "released"
  BY DEF ExpiredClaims
<1>4. \A k \in Keys : k \in ExpiredKeys(st, at) <=> st.keys[k] \in gone
  BY <1>1, <1>3 DEF Consistent, KeysAndClaims, ExpiredKeys, Known
<1>5. Known(new) = Known(st) \ gone
  BY <1>1, <1>2 DEF Known, NoClaim
<1> HIDE DEF new, gone
<1>6. RowsAndClaims(new)
  <2>1. \A c \in ClaimIds : st.claims[c].status = "active" => new.claims[c] = st.claims[c]
    BY <1>2, <1>3
  <2>2. \A i \in Ids : st.rows[i].claim \in ClaimIds \cup {None}
    BY <1>1 DEF Documents, Rows, AbsentRow
  <2>3. \A c \in Known(new) : c \in Known(st) /\ new.claims[c] = st.claims[c]
    BY <1>2, <1>5 DEF Known
  <2> QED BY <1>2, <2>1, <2>2, <2>3 DEF Consistent, RowsAndClaims
<1>7. KeysAndClaims(new)
  BY <1>1, <1>2, <1>3, <1>4, <1>5 DEF Consistent, KeysAndClaims, Known, Documents, Claims, NoClaim
<1>8. OneRowPerEmail(new) /\ ClaimedAddress(new)
  BY <1>1, <1>2, <1>3 DEF Consistent, OneRowPerEmail, Present, ClaimedAddress, RowsAndClaims, Documents, Rows, AbsentRow
<1> QED BY <1>2, <1>6, <1>7, <1>8 DEF Consistent, new

(* A store with no state file yet.                                          *)
LEMMA EmptyConsistent == Consistent(emptyState)
BY DEF Consistent, emptyState, Documents, RowsAndClaims, KeysAndClaims, OneRowPerEmail,
       ClaimedAddress, Known, Present, AbsentRow, NoClaim

-----------------------------------------------------------------------------
(* The state machine: the document on disk and the copy a mutation works on *)
(* are consistent whenever a step, a failure or a crash can find them.      *)

Inv == TypeOK /\ Consistent(disk) /\ Consistent(mem)

(* A fresh UUID is the id of no row, and of no claim, of the document.      *)
LEMMA UnusedAreNew ==
    ASSUME Inv
    PROVE  /\ UnusedIds \in SUBSET (Ids \ Present(disk))
           /\ UnusedClaimIds \subseteq ClaimIds \ Known(disk)
BY DEF UnusedIds, UnusedClaimIds

(* A worker step that leaves a consistent copy and a well-typed backup.     *)
LEMMA WorkKeepsInv ==
    ASSUME Inv,
           NEW st, Consistent(st),
           NEW answer \in Answers \cup {Other},
           Work(st, answer),
           backups' \subseteq Backups
    PROVE  Inv'
<1>1. TypeOK'
  BY DEF Inv, TypeOK, Work, Phases, Consistent
<1>2. Consistent(disk') /\ Consistent(mem')
  BY DEF Inv, Work
<1> QED BY <1>1, <1>2 DEF Inv

(* The store starts consistent.                                             *)
LEMMA InitInv == Init => Inv
<1> SUFFICES ASSUME Init PROVE Inv
  OBVIOUS
<1>1. Consistent(emptyState)
  BY EmptyConsistent
<1>2. TypeOK
  BY <1>1, BoundsAssumption
     DEF Init, TypeOK, Consistent, ArchiveFiles, emptyArchive, Days, Phases
<1> QED BY <1>1, <1>2 DEF Init, Inv

(* Every operation leaves a consistent copy.                                *)
LEMMA WorkerInv == Inv /\ Worker => Inv'
<1> SUFFICES ASSUME Inv, Worker PROVE Inv'
  OBVIOUS
<1> USE DEF Inv
<1>1. backups \subseteq Backups /\ disk \in Documents /\ now \in Nat /\ None \notin ClaimIds
  BY BoundsAssumption, NoneAssumption DEF TypeOK
<1>2. ASSUME NEW k \in Keys, ClaimAgain(k) PROVE Inv'
  <2>1. Claimed(k, disk.keys[k]) \in Answers
    BY <1>2 DEF ClaimAgain, Known, Claimed, Answers
  <2> QED BY <1>1, <1>2, <2>1, WorkKeepsInv DEF ClaimAgain
<1>3. ASSUME NEW k \in Keys, ClaimNext(k) PROVE Inv'
  <2>1. PICK i \in AvailableRows(disk), c \in UnusedClaimIds :
            Work(claimNext(disk, k, i, c), Claimed(k, c))
    BY <1>3 DEF ClaimNext
  <2>2. c \in ClaimIds \ Known(disk)
    BY UnusedAreNew
  <2>3. Consistent(claimNext(disk, k, i, c))
    BY <1>3, <2>2, ClaimNextConsistent DEF ClaimNext
  <2>4. Claimed(k, c) \in Answers
    BY <2>2 DEF Claimed, Answers
  <2> QED BY <1>1, <1>3, <2>1, <2>3, <2>4, WorkKeepsInv DEF ClaimNext
<1>4. ASSUME NEW c \in ClaimIds, ReleaseClaim(c) PROVE Inv'
  <2>1. Consistent(releaseClaim(disk, c, now))
    BY <1>1, <1>4, ReleaseClaimConsistent DEF ReleaseClaim
  <2> QED BY <1>1, <1>4, <2>1, WorkKeepsInv DEF ReleaseClaim
<1>5. ASSUME UpsertAliases PROVE Inv'
  <2>1. PICK E \in SUBSET Emails :
            \E isActive \in [E -> Flags \cup {None}],
               fresh \in FreshRows(disk, E, UnusedIds) :
                    Work(upsertAliases(disk, isActive, fresh), Other)
    BY <1>5 DEF UpsertAliases
  <2>2. PICK isActive \in [E -> Flags \cup {None}],
             fresh \in FreshRows(disk, E, UnusedIds) :
                Work(upsertAliases(disk, isActive, fresh), Other)
    BY <2>1
  <2>3. isActive \in [E -> BOOLEAN \cup {None}]
    BY FlagsAssumption
  <2>4. Consistent(upsertAliases(disk, isActive, fresh))
    BY <2>3, UnusedAreNew, UpsertConsistent
  <2> QED BY <1>1, <1>5, <2>2, <2>4, WorkKeepsInv DEF UpsertAliases
<1>6. ASSUME InitializeFromLegacy PROVE Inv'
  <2>1. PICK E \in SUBSET Emails :
            \E group \in [E -> Groups], fresh \in FreshRows(disk, E, UnusedIds) :
                Work(initializeFromLegacy(disk, group, fresh), Other)
    BY <1>6 DEF InitializeFromLegacy
  <2>2. PICK group \in [E -> Groups], fresh \in FreshRows(disk, E, UnusedIds) :
                Work(initializeFromLegacy(disk, group, fresh), Other)
    BY <2>1
  <2>3. Consistent(initializeFromLegacy(disk, group, fresh))
    BY UnusedAreNew, LegacyConsistent
  <2>4. backups' \subseteq Backups
    BY <1>1, <1>6 DEF InitializeFromLegacy, Backups
  <2> QED BY <2>2, <2>3, <2>4, WorkKeepsInv
<1>7. ASSUME NEW i \in Ids, UpdateInventoryItem(i) PROVE Inv'
  <2>1. PICK p \in [group : Groups \cup {None}, active : Flags \cup {None}] :
            Work(updateInventoryItems(disk, [j \in {i} |-> p], None), Other)
    BY <1>7 DEF UpdateInventoryItem
  <2>2. p \in Patches
    BY FlagsAssumption DEF Patches
  <2>3. Consistent(updateInventoryItems(disk, [j \in {i} |-> p], None))
    BY <2>2, UpdateConsistent
  <2> QED BY <1>1, <1>7, <2>1, <2>3, WorkKeepsInv DEF UpdateInventoryItem
<1>8. ASSUME NEW i \in Ids, DeleteInventoryItem(i) PROVE Inv'
  <2>1. Consistent(deleteInventoryItem(disk, i))
    BY <1>8, DeleteConsistent DEF DeleteInventoryItem
  <2>2. disk.rows[i] \in Rows
    BY <1>1, <1>8 DEF DeleteInventoryItem, CanDelete, Present, Documents, AbsentRow
  <2>3. backups' \subseteq Backups
    BY <1>1, <1>8, <2>2 DEF DeleteInventoryItem, Backups, DeletedRow
  <2> QED BY <1>8, <2>1, <2>3, WorkKeepsInv DEF DeleteInventoryItem
<1>9. ASSUME UpdateInventoryItems PROVE Inv'
  <2>1. PICK batch \in SUBSET Ids \ {{}}, expected \in Groups, g \in Groups :
            Work(updateInventoryItems(disk,
                    [i \in batch |-> [group |-> g, active |-> None]], expected), Other)
    BY <1>9 DEF UpdateInventoryItems
  <2>2. [group |-> g, active |-> None] \in Patches
    BY DEF Patches
  <2>3. Consistent(updateInventoryItems(disk,
                    [i \in batch |-> [group |-> g, active |-> None]], expected))
    BY <2>2, UpdateConsistent
  <2> QED BY <1>1, <1>9, <2>1, <2>3, WorkKeepsInv DEF UpdateInventoryItems
<1> QED BY <1>2, <1>3, <1>4, <1>5, <1>6, <1>7, <1>8, <1>9 DEF Worker

(* So do the sweep and the rename, and a failure falls back on the disk.    *)
LEMMA NextInv == Inv /\ [Next]_vars => Inv'
<1> SUFFICES ASSUME Inv, [Next]_vars PROVE Inv'
  OBVIOUS
<1>1. CASE Worker
  BY <1>1, WorkerInv
<1>2. CASE ArchiveExpired
  <2>1. Consistent(archiveExpired(mem, now))
    BY BoundsAssumption, SweepConsistent DEF Inv, TypeOK
  <2>2. appendArchive(archive[today], mem, now) \in ArchiveFiles
    BY DEF Inv, TypeOK, appendArchive, ArchiveFiles, Documents
  <2>3. TypeOK'
    BY <1>2, <2>1, <2>2 DEF Inv, TypeOK, ArchiveExpired, Phases, Consistent
  <2> QED BY <1>2, <2>1, <2>3 DEF Inv, ArchiveExpired
<1>3. CASE WriteAtomic
  <2>1. TypeOK'
    BY <1>3 DEF Inv, TypeOK, WriteAtomic, Phases
  <2> QED BY <1>3, <2>1 DEF Inv, WriteAtomic
<1>4. CASE StorageErrorOrCrash
  <2>1. TypeOK'
    BY <1>4 DEF Inv, TypeOK, StorageErrorOrCrash, Phases
  <2> QED BY <1>4, <2>1 DEF Inv, StorageErrorOrCrash
<1>5. CASE Tick
  <2>1. TypeOK'
    BY <1>5, BoundsAssumption DEF Inv, TypeOK, Tick
  <2> QED BY <1>5, <2>1 DEF Inv, Tick
<1>6. CASE UNCHANGED vars
  BY <1>6 DEF vars, Inv, TypeOK, Archived
<1> QED BY <1>1, <1>2, <1>3, <1>4, <1>5, <1>6 DEF Next

(* Every document and file keeps its shape.                                 *)
THEOREM TypeCorrect == Spec => []TypeOK
<1>1. Inv => TypeOK
  BY DEF Inv
<1> QED BY <1>1, InitInv, NextInv, PTL DEF Spec

(* Rows and claims agree in every committed document: an address in use can *)
(* always be released.                                                      *)
THEOREM RowsAndClaimsAlwaysAgree == Spec => []RowsAndClaimsAgree
<1>1. Inv => RowsAndClaimsAgree
  BY DEF Inv, Consistent, RowsAndClaimsAgree
<1> QED BY <1>1, InitInv, NextInv, PTL DEF Spec

(* Every idempotency key resolves to the claim made under it: claimNext     *)
(* never finds the map inconsistent.                                        *)
THEOREM KeysAndClaimsAlwaysAgree == Spec => []KeysAndClaimsAgree
<1>1. Inv => KeysAndClaimsAgree
  BY DEF Inv, Consistent, KeysAndClaimsAgree
<1> QED BY <1>1, InitInv, NextInv, PTL DEF Spec

(* No interleaving of upserts and deletions lists an address twice.         *)
THEOREM AddressesAreListedOnce == Spec => []NoAddressListedTwice
<1>1. Inv => NoAddressListedTwice
  BY DEF Inv, Consistent, NoAddressListedTwice
<1> QED BY <1>1, InitInv, NextInv, PTL DEF Spec

(* Two active claims are for two addresses.                                 *)
THEOREM ClaimsAreExclusive == Spec => []NoAddressHeldTwice
<1>1. ASSUME Inv PROVE NoAddressHeldTwice
  <2> SUFFICES ASSUME NEW c \in Active(disk), NEW d \in Active(disk),
                      disk.claims[c].email = disk.claims[d].email
               PROVE  c = d
    BY DEF NoAddressHeldTwice
  <2> DEFINE row(x) == disk.rows[disk.claims[x].item]
  <2>1. \A x \in Active(disk) : x \in ClaimIds /\ x # None /\ disk.claims[x].item \in Ids
    BY <1>1, NoneAssumption DEF Inv, Consistent, Active, Known, Documents, Claims, NoClaim
  <2>2. \A x \in Active(disk) : row(x).claim = x
    BY <1>1 DEF Inv, Consistent, RowsAndClaims, Active
  <2>3. \A x \in Active(disk) : /\ row(x).email = disk.claims[x].email
                                /\ disk.claims[x].item \in Present(disk)
    BY <1>1, <2>1, <2>2 DEF Inv, Consistent, ClaimedAddress, Present, Documents, AbsentRow, Rows, Groups
  <2>4. disk.claims[c].item = disk.claims[d].item
    BY <1>1, <2>3 DEF Inv, Consistent, OneRowPerEmail
  <2> QED BY <2>2, <2>4
<1> QED BY <1>1, InitInv, NextInv, PTL DEF Spec

-----------------------------------------------------------------------------
(* Until the migration every row with a claim is in "finished", in the      *)
(* document and in the copy.                                                *)
Finished(st) ==
    \A i \in Ids :
        st.rows[i].claim # None => st.rows[i].group = "finished" \/ st.migrated

FInv == Inv /\ Finished(disk) /\ Finished(mem)

(* claimNext moves the row it claims there.                                 *)
LEMMA ClaimNextFinished ==
    ASSUME NEW st \in Documents, Finished(st),
           NEW k, NEW i \in AvailableRows(st), NEW c \in ClaimIds
    PROVE  Finished(claimNext(st, k, i, c))
<1> DEFINE new == claimNext(st, k, i, c)
<1>1. i \in Ids /\ st.rows[i] \in Rows
  BY DEF AvailableRows, Available, Documents, AbsentRow
<1>2. /\ new.rows = [st.rows EXCEPT ![i] = [@ EXCEPT !.group = "finished", !.claim = c]]
      /\ new.migrated = st.migrated
  BY DEF claimNext, Documents
<1>3. new.rows[i].group = "finished"
  BY <1>1, <1>2 DEF Documents, Rows
<1>4. \A j \in Ids \ {i} : new.rows[j] = st.rows[j]
  BY <1>2 DEF Documents
<1> HIDE DEF new
<1> QED BY <1>2, <1>3, <1>4 DEF Finished, new

(* releaseClaim takes the claim off the row it moves.                       *)
LEMMA ReleaseClaimFinished ==
    ASSUME NEW st \in Documents, Finished(st), NEW c \in Known(st), NEW at
    PROVE  Finished(releaseClaim(st, c, at))
<1> DEFINE new == releaseClaim(st, c, at)
<1>1. CASE st.claims[c].status = "released"
  BY <1>1 DEF releaseClaim
<1>2. CASE st.claims[c].status # "released"
  <2>1. /\ new.migrated = st.migrated
        /\ \A i \in Ids : new.rows[i] = IF i \in HeldBy(st, c)
                THEN [st.rows[i] EXCEPT !.group = "unused", !.claim = None]
                ELSE st.rows[i]
    BY <1>2 DEF releaseClaim, Documents
  <2>2. \A i \in Ids : st.rows[i] \in Rows \/ st.rows[i] = AbsentRow
    BY DEF Documents
  <2>3. \A i \in HeldBy(st, c) : i \in Ids /\ [st.rows[i] EXCEPT !.group = "unused", !.claim = None].claim = None
    BY <2>2 DEF HeldBy, Rows, AbsentRow
  <2> HIDE DEF new
  <2> QED BY <2>1, <2>3 DEF Finished, new
<1> QED BY <1>1, <1>2

(* The upserts make rows without a claim and leave the groups alone.        *)
LEMMA UpsertFinished ==
    ASSUME NEW st \in Documents, Finished(st), NEW isActive, NEW fresh
    PROVE  Finished(upsertAliases(st, isActive, fresh))
<1> DEFINE new == upsertAliases(st, isActive, fresh)
           made(i) == NewRow(fresh[i], "unused", isActive[fresh[i]] # FALSE)
           marked(i) == [st.rows[i] EXCEPT !.active = isActive[st.rows[i].email]]
<1>1. /\ new.migrated = st.migrated
      /\ new.rows = [i \in Ids |->
            IF i \in DOMAIN fresh THEN made(i)
            ELSE IF st.rows[i].email \in DOMAIN isActive /\ isActive[st.rows[i].email] # None
            THEN marked(i) ELSE st.rows[i]]
  BY DEF upsertAliases, Documents
<1>2. \A i \in Ids : st.rows[i] \in Rows \/ st.rows[i] = AbsentRow
  BY DEF Documents
<1>3. \A i \in Ids : made(i).claim = None
  BY DEF NewRow
<1>4. \A i \in Ids : marked(i).claim = st.rows[i].claim /\ marked(i).group = st.rows[i].group
  BY <1>2 DEF Rows, AbsentRow
<1> HIDE DEF new, made, marked
<1>5. \A i \in Ids : \/ new.rows[i].claim = None
                     \/ /\ new.rows[i].claim = st.rows[i].claim
                        /\ new.rows[i].group = st.rows[i].group
  BY <1>1, <1>3, <1>4
<1> QED BY <1>1, <1>5 DEF Finished, new

(* The patches pass a claimed row over unless it stays in its group.        *)
LEMMA UpdateFinished ==
    ASSUME NEW st \in Documents, Finished(st),
           NEW batch \in SUBSET Ids, NEW patch \in [batch -> Patches], NEW expected,
           CanUpdate(st, patch, expected)
    PROVE  Finished(updateInventoryItems(st, patch, expected))
<1> DEFINE new == updateInventoryItems(st, patch, expected)
<1>1. /\ new.migrated = st.migrated
      /\ \A i \in Ids : new.rows[i] = IF i \in batch /\ Applies(st, i, expected)
                                      THEN patched(st.rows[i], patch[i])
                                      ELSE st.rows[i]
  BY DEF updateInventoryItems, Documents
<1>2. \A i \in batch : Applies(st, i, expected) =>
            st.rows[i] \in Rows /\ ~MovesClaimedRow(st.rows[i], patch[i])
  BY DEF CanUpdate, Applies, Present, Documents, AbsentRow
<1>3. ASSUME NEW row \in Rows, NEW p \in Patches, ~MovesClaimedRow(row, p), row.claim # None
      PROVE  patched(row, p).claim = row.claim /\ patched(row, p).group = row.group
  BY <1>3 DEF patched, Rows, Patches, MovesClaimedRow
<1>4. ASSUME NEW row \in Rows, NEW p \in Patches
      PROVE  patched(row, p).claim = row.claim
  BY <1>4 DEF patched, Rows
<1>5. \A i \in Ids : /\ new.rows[i].claim = st.rows[i].claim
                     /\ st.rows[i].claim # None => new.rows[i].group = st.rows[i].group
  BY <1>1, <1>2, <1>3, <1>4
<1> HIDE DEF new
<1> QED BY <1>1, <1>5 DEF Finished, new

(* What a worker leaves is what it gives to the copy.                       *)
LEMMA WorkFinished ==
    ASSUME FInv, NEW st, NEW answer, Work(st, answer), Finished(st)
    PROVE  Finished(disk') /\ Finished(mem')
BY DEF FInv, Work

(* Every operation.                                                         *)
LEMMA WorkerFinished == ASSUME FInv, Worker PROVE Finished(disk') /\ Finished(mem')
<1> USE DEF FInv
<1>0. disk \in Documents
  BY DEF Inv, TypeOK
<1>1. ASSUME NEW k \in Keys, ClaimAgain(k) \/ ClaimNext(k)
      PROVE  Finished(disk') /\ Finished(mem')
  BY <1>0, <1>1, UnusedAreNew, ClaimNextFinished, WorkFinished DEF ClaimAgain, ClaimNext
<1>2. ASSUME NEW c \in ClaimIds, ReleaseClaim(c) PROVE Finished(disk') /\ Finished(mem')
  BY <1>0, <1>2, ReleaseClaimFinished, WorkFinished DEF ReleaseClaim
<1>3. ASSUME UpsertAliases PROVE Finished(disk') /\ Finished(mem')
  BY <1>0, <1>3, UpsertFinished, WorkFinished DEF UpsertAliases
<1>4. ASSUME InitializeFromLegacy PROVE Finished(disk') /\ Finished(mem')
  <2>1. \A group, fresh : initializeFromLegacy(disk, group, fresh).migrated = TRUE
    BY <1>0 DEF initializeFromLegacy, Documents
  <2>2. \A group, fresh : Finished(initializeFromLegacy(disk, group, fresh))
    BY <2>1 DEF Finished
  <2> QED BY <1>4, <2>2, WorkFinished DEF InitializeFromLegacy
<1>5. ASSUME NEW i \in Ids, UpdateInventoryItem(i) PROVE Finished(disk') /\ Finished(mem')
  <2>1. PICK p \in [group : Groups \cup {None}, active : Flags \cup {None}] :
            /\ CanUpdate(disk, [j \in {i} |-> p], None)
            /\ Work(updateInventoryItems(disk, [j \in {i} |-> p], None), Other)
    BY <1>5 DEF UpdateInventoryItem
  <2>2. p \in Patches
    BY FlagsAssumption DEF Patches
  <2>3. Finished(updateInventoryItems(disk, [j \in {i} |-> p], None))
    BY <1>0, <2>1, <2>2, UpdateFinished
  <2> QED BY <2>1, <2>3, WorkFinished
<1>6. ASSUME UpdateInventoryItems PROVE Finished(disk') /\ Finished(mem')
  <2> DEFINE move(batch, g) == [i \in batch |-> [group |-> g, active |-> None]]
  <2>1. PICK batch \in SUBSET Ids \ {{}}, expected \in Groups, g \in Groups :
            /\ CanUpdate(disk, move(batch, g), expected)
            /\ Work(updateInventoryItems(disk, move(batch, g), expected), Other)
    BY <1>6 DEF UpdateInventoryItems
  <2>2. [group |-> g, active |-> None] \in Patches
    BY DEF Patches
  <2>3. Finished(updateInventoryItems(disk, move(batch, g), expected))
    BY <1>0, <2>1, <2>2, UpdateFinished
  <2> QED BY <2>1, <2>3, WorkFinished
<1>7. ASSUME NEW i \in Ids, DeleteInventoryItem(i) PROVE Finished(disk') /\ Finished(mem')
  <2> DEFINE new == deleteInventoryItem(disk, i)
  <2>1. /\ new.rows = [disk.rows EXCEPT ![i] = AbsentRow]
        /\ new.migrated = disk.migrated
    BY <1>0 DEF deleteInventoryItem, Documents
  <2>2. Finished(new)
    BY <1>0, <2>1 DEF Finished, Documents, AbsentRow
  <2> QED BY <1>7, <2>2, WorkFinished DEF DeleteInventoryItem
<1> QED BY <1>1, <1>2, <1>3, <1>4, <1>5, <1>6, <1>7 DEF Worker

(* The sweep touches no row.                                                *)
LEMMA NextFinished == FInv /\ [Next]_vars => Finished(disk') /\ Finished(mem')
<1> SUFFICES ASSUME FInv, [Next]_vars PROVE Finished(disk') /\ Finished(mem')
  OBVIOUS
<1>1. CASE Worker
  BY <1>1, WorkerFinished
<1>2. CASE ArchiveExpired
  <2>1. mem'.rows = mem.rows /\ mem'.migrated = mem.migrated /\ disk' = disk
    BY <1>2 DEF ArchiveExpired, archiveExpired, FInv, Inv, TypeOK, Documents
  <2> QED BY <2>1 DEF FInv, Finished
<1>3. CASE WriteAtomic \/ StorageErrorOrCrash \/ Tick \/ UNCHANGED vars
  BY <1>3 DEF FInv, WriteAtomic, StorageErrorOrCrash, Tick, vars
<1> QED BY <1>1, <1>2, <1>3 DEF Next

(* Until the browser migration no sync, patch or batch moves a claimed row  *)
(* out of "finished" (applyInventoryPatch and its CLAIM_ACTIVE guard).      *)
THEOREM ClaimedRowsAlwaysFinished == Spec => []ClaimedRowsStayFinished
<1>1. Init => FInv
  <2> SUFFICES ASSUME Init PROVE Finished(emptyState)
    BY InitInv DEF FInv, Init
  <2> QED BY DEF Finished, emptyState, AbsentRow
<1>2. FInv /\ [Next]_vars => FInv'
  BY NextInv, NextFinished DEF FInv
<1>3. FInv => ClaimedRowsStayFinished
  BY DEF FInv, Finished, ClaimedRowsStayFinished
<1> QED BY <1>1, <1>2, <1>3, PTL DEF Spec

=============================================================================
