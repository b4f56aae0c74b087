--------------------------- MODULE InventoryState ---------------------------
(***************************************************************************)
(* The document lib/dashboard-store.mjs keeps in one JSON file, and the    *)
(* workers that DashboardStore and ClaimService run on a copy of it.       *)
(*                                                                         *)
(* A worker is an operator from a document (and its arguments) to the      *)
(* document it leaves behind; Can... is the condition under which it does  *)
(* not throw.  Nothing here touches a disk: DashboardStore.tla says when a *)
(* worker runs and when its result becomes durable.                        *)
(*                                                                         *)
(* Labels, remarks and mail fields are left out: no guard reads them.      *)
(***************************************************************************)
EXTENDS Naturals, Functions

CONSTANTS
    Ids,        \* ids of inventory rows (random UUIDs)
    Emails,     \* lower-cased hidden addresses
    ClaimIds,   \* ids of claims (random UUIDs)
    Keys,       \* Idempotency-Key values of callers
    None,       \* an empty activeClaimId, an absent key, a field of nothing
    Retention   \* for how long a released claim stays in the document

ASSUME NoneAssumption ==
    /\ None \notin Ids \cup Emails \cup ClaimIds \cup Keys
    /\ None \notin {"unused", "finished", "trash"}
    /\ None \notin BOOLEAN
ASSUME RetentionAssumption == Retention \in Nat

Groups == {"unused", "finished", "trash"}

Rows == [group : Groups, email : Emails, active : BOOLEAN,
         claim : ClaimIds \cup {None}]
AbsentRow == [group |-> "absent", email |-> None, active |-> FALSE, claim |-> None]

Claims == [status : {"active", "released"}, item : Ids, email : Emails,
           key : Keys, releasedAt : Nat]
NoClaim == [status |-> "none", item |-> None, email |-> None,
            key |-> None, releasedAt |-> 0]

Documents == [rows : [Ids -> Rows \cup {AbsentRow}],
              claims : [ClaimIds -> Claims \cup {NoClaim}],
              keys : [Keys -> ClaimIds \cup {None}],
              migrated : BOOLEAN]

emptyState == [rows |-> [i \in Ids |-> AbsentRow],
               claims |-> [c \in ClaimIds |-> NoClaim],
               keys |-> [k \in Keys |-> None],
               migrated |-> FALSE]

Present(st) == {i \in Ids : st.rows[i].group # "absent"}
Known(st) == {c \in ClaimIds : st.claims[c].status # "none"}
ByEmail(st, e) == {i \in Present(st) : st.rows[i].email = e}

NewRow(e, g, active) == [group |-> g, email |-> e, active |-> active, claim |-> None]

-----------------------------------------------------------------------------
(* ClaimService.claimNext: the rows it may hand out, and the claim it makes *)
(* of one of them.  It takes the first of them in label order; which one is *)
(* first is data, so the model lets it be any.                              *)

Available_GroupOnly(row) == row.group = "unused" /\ row.active   \* mutant

Available(row) ==
    /\ row.group = "unused"
    /\ row.active
    /\ row.claim = None

AvailableRows(st) == {i \in Ids : Available(st.rows[i])}

claimNext(st, k, i, c) ==
    [st EXCEPT
        !.rows[i] = [@ EXCEPT !.group = "finished", !.claim = c],
        !.claims[c] = [status |-> "active", item |-> i, email |-> st.rows[i].email,
                       key |-> k, releasedAt |-> 0],
        !.keys[k] = c]

(* ClaimService.releaseClaim: the row comes back only if it still carries   *)
(* this claim.                                                              *)

HeldBy(st, c) ==
    {i \in Ids : i = st.claims[c].item /\ st.rows[i].claim = c}

releaseClaim_Again(st, c, at) ==   \* mutant
    [st EXCEPT
        !.claims[c] = [@ EXCEPT !.status = "released", !.releasedAt = at],
        !.rows = [i \in Ids |->
                    IF i \in HeldBy(st, c)
                    THEN [st.rows[i] EXCEPT !.group = "unused", !.claim = None]
                    ELSE st.rows[i]]]

releaseClaim(st, c, at) ==
    IF st.claims[c].status = "released"
    THEN st
    ELSE [st EXCEPT
            !.claims[c] = [@ EXCEPT !.status = "released", !.releasedAt = at],
            !.rows = [i \in Ids |->
                        IF i \in HeldBy(st, c)
                        THEN [st.rows[i] EXCEPT !.group = "unused", !.claim = None]
                        ELSE st.rows[i]]]

-----------------------------------------------------------------------------
(* The upserts by email: fresh maps each id minted for the request to the   *)
(* address, so far without a row, that gets it.                             *)

NewEmails_TrashIgnored(st, E) ==   \* mutant
    {e \in E : \A i \in ByEmail(st, e) : st.rows[i].group = "trash"}

NewEmails(st, E) == {e \in E : ByEmail(st, e) = {}}

FreshRows(st, E, unusedIds) ==
    UNION {Bijection(N, NewEmails(st, E)) : N \in SUBSET unusedIds}

(* syncAliases and createInventoryItems.  isActive maps each address of the *)
(* request to what it says of that flag (None: nothing).  A row that exists *)
(* keeps its group and its claim; a new one is unused.                      *)

upsertAliases(st, isActive, fresh) ==
    [st EXCEPT !.rows = [i \in Ids |->
        LET row == st.rows[i]
        IN  IF i \in DOMAIN fresh
            THEN NewRow(fresh[i], "unused", isActive[fresh[i]] # FALSE)
            ELSE IF row.email \in DOMAIN isActive /\ isActive[row.email] # None
            THEN [row EXCEPT !.active = isActive[row.email]]
            ELSE row]]

(* initializeFromLegacy: the browser's old inventory, once.  A row that     *)
(* exists takes the submitted group whatever claim it carries.              *)

initializeFromLegacy(st, group, fresh) ==
    [st EXCEPT
        !.migrated = TRUE,
        !.rows = [i \in Ids |->
            LET row == st.rows[i]
            IN  IF i \in DOMAIN fresh
                THEN NewRow(fresh[i], group[fresh[i]], TRUE)
                ELSE IF row.email \in DOMAIN group
                THEN [row EXCEPT !.group = group[row.email]]
                ELSE row]]

-----------------------------------------------------------------------------
(* Patches.  patch maps each id of a batch to the fields it sets (None:     *)
(* left alone); expected is the group its sender saw, None in a single      *)
(* PATCH.  One entry that would move a claimed row fails the whole batch.   *)

Patches == [group : Groups \cup {None}, active : BOOLEAN \cup {None}]

Applies(st, i, expected) ==
    /\ i \in Present(st)
    /\ expected = None \/ st.rows[i].group = expected

MovesClaimedRow_TrashOnly(row, p) == p.group = "trash" /\ row.claim # None   \* mutant

MovesClaimedRow(row, p) ==
    /\ p.group \notin {None, row.group}
    /\ row.claim # None

CanUpdate(st, patch, expected) ==
    \A i \in DOMAIN patch :
        Applies(st, i, expected) => ~MovesClaimedRow(st.rows[i], patch[i])

patched(row, p) ==
    [row EXCEPT !.group = IF p.group = None THEN @ ELSE p.group,
                !.active = IF p.active = None THEN @ ELSE p.active]

updateInventoryItems(st, patch, expected) ==
    [st EXCEPT !.rows = [i \in Ids |->
        IF i \in DOMAIN patch /\ Applies(st, i, expected)
        THEN patched(st.rows[i], patch[i])
        ELSE st.rows[i]]]

(* deleteInventoryItem.                                                     *)

CanDelete_ClaimIgnored(st, i) ==   \* mutant
    i \in Present(st) /\ st.rows[i].group = "trash"

CanDelete(st, i) ==
    /\ i \in Present(st)
    /\ st.rows[i].claim = None
    /\ st.rows[i].group = "trash"

deleteInventoryItem(st, i) == [st EXCEPT !.rows[i] = AbsentRow]

-----------------------------------------------------------------------------
(* The retention sweep that every mutation runs before its write.           *)

HeldClaimIds(st) == {st.rows[i].claim : i \in Ids} \ {None}

ExpiredClaims_AtOnce(st, at) ==   \* mutant
    {c \in Known(st) : /\ st.claims[c].status = "released"
                       /\ st.claims[c].releasedAt < at
                       /\ c \notin HeldClaimIds(st)}

ExpiredClaims(st, at) ==
    {c \in Known(st) : /\ st.claims[c].status = "released"
                       /\ st.claims[c].releasedAt + Retention < at
                       /\ c \notin HeldClaimIds(st)}

ExpiredKeys_NextSweep(st, at) ==   \* mutant
    {k \in Keys : st.keys[k] # None /\ st.keys[k] \notin Known(st)}

ExpiredKeys(st, at) ==
    {k \in Keys : /\ st.keys[k] # None
                  /\ st.keys[k] \notin Known(st) \ ExpiredClaims(st, at)}

archiveExpired_KeepsKeys(st, at) ==   \* mutant
    [st EXCEPT !.claims = [c \in ClaimIds |->
        IF c \in ExpiredClaims(st, at) THEN NoClaim ELSE st.claims[c]]]

archiveExpired(st, at) ==
    [st EXCEPT
        !.claims = [c \in ClaimIds |->
            IF c \in ExpiredClaims(st, at) THEN NoClaim ELSE st.claims[c]],
        !.keys = [k \in Keys |->
            IF k \in ExpiredKeys(st, at) THEN None ELSE st.keys[k]]]

(* One archive file: claims and keys, each merged under its own id.         *)

ArchiveFiles == [claims : [ClaimIds -> Claims \cup {NoClaim}],
                 keys : [Keys -> ClaimIds \cup {None}]]

emptyArchive == [claims |-> [c \in ClaimIds |-> NoClaim],
                 keys |-> [k \in Keys |-> None]]

appendArchive(file, st, at) ==
    [claims |-> [c \in ClaimIds |->
        IF c \in ExpiredClaims(st, at) THEN st.claims[c] ELSE file.claims[c]],
     keys |-> [k \in Keys |->
        IF k \in ExpiredKeys(st, at) THEN st.keys[k] ELSE file.keys[k]]]

=============================================================================
