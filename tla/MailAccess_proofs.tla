-------------------------- MODULE MailAccess_proofs -------------------------
(***************************************************************************)
(* What the sharing of single mailboxes promises (MailAccess), for any     *)
(* numbers of rows, grants, sessions and requests.                         *)
(***************************************************************************)
EXTENDS MailAccess, TLAPS

-----------------------------------------------------------------------------
(* The inventory and the grants.                                            *)

GrantTypeOK ==
    /\ rows \in [Ids -> Rows]
    /\ grants \in [Grants -> GrantRecords \cup {NoGrant}]
    /\ offers \in [Admins -> SUBSET Ids]
    /\ \A i \in Ids : rows[i].state # "new" => rows[i].email \in Emails
    /\ \A a \in Admins : \A i \in offers[a] : rows[i].state # "new"
    /\ \A g \in Grants : grants[g].status = "active" <=> grants[g].token # 0

(* An address has one row that is kept, and a row has one grant.            *)
RowsApart ==
    \A i, j \in Ids :
        Kept(i) /\ Kept(j) /\ rows[i].email = rows[j].email => i = j

GrantsApart ==
    \A g, h \in Grants :
        grants[g] # NoGrant /\ grants[g].row = grants[h].row => g = h

GrantInv == GrantTypeOK /\ RowsApart /\ GrantsApart

LEMMA LessKeepsTimes == \A t \in Times : Less(t) \in Times
<1> SUFFICES ASSUME NEW t \in Times PROVE Less(t) \in Times
  OBVIOUS
<1>1. CASE t \in {None, 0}
  BY <1>1 DEF Less
<1>2. CASE t \notin {None, 0}
  <2>1. PICK d \in Durations : t \in 0..d
    BY <1>2 DEF Times
  <2>2. t - 1 \in 0..d
    BY <1>2, <2>1, AccessAssumption
  <2> QED BY <1>2, <2>2 DEF Less, Times
<1> QED BY <1>1, <1>2

LEMMA DurationsAreTimes == Durations \cup {None} \subseteq Times
<1>1. \A d \in Durations : d \in 0..d
  BY AccessAssumption
<1> QED BY <1>1 DEF Times

(* What one step can do to a grant: nothing; its time runs; it is made; or  *)
(* it gets its next revision.                                               *)
Lasts(g) ==
    /\ grants'[g].status = grants[g].status
    /\ grants'[g].revision = grants[g].revision
    /\ grants'[g].token = grants[g].token

Made(g) == grants[g] = NoGrant /\ grants'[g] \in GrantRecords

Revised(g) == grants[g] # NoGrant /\ grants'[g].revision = grants[g].revision + 1

SameGrant(g) ==
    /\ grants'[g].row = grants[g].row
    /\ grants'[g].email = grants[g].email
    /\ grants'[g].since = grants[g].since
    /\ grants'[g] = NoGrant <=> grants[g] = NoGrant

GrantStep(g) ==
    \/ Made(g)
    \/ SameGrant(g) /\ (Lasts(g) \/ Revised(g))

LEMMA GrantInvInit == Init => GrantInv
BY DEF Init, GrantInv, GrantTypeOK, RowsApart, GrantsApart, Rows, NewRow, Kept, NoGrant

LEMMA NoGrantIsNone == NoGrant \notin GrantRecords /\ NoGrant.row \notin Ids
BY AccessAssumption DEF NoGrant, GrantRecords

(* A grant changed by Revoke, Reset or UpdateGrant.                         *)
LEMMA ChangeKeepsGrants ==
    ASSUME GrantInv, NEW g \in Grants, NEW record, Change(g, record),
           grants[g] # NoGrant => record \in GrantRecords,
           record.row = grants[g].row, record.email = grants[g].email,
           record.since = grants[g].since, record.revision = grants[g].revision + 1,
           record.status = "active" <=> record.token # 0
    PROVE  GrantInv' /\ \A h \in Grants : GrantStep(h)
<1> USE DEF GrantInv
<1>1. /\ grants[g] # NoGrant /\ record \in GrantRecords
      /\ grants' = [grants EXCEPT ![g] = record]
      /\ UNCHANGED <<rows, offers>>
  BY DEF Change, memory
<1>2. GrantTypeOK'
  BY <1>1 DEF GrantTypeOK
<1>3. \A h \in Grants : SameGrant(h) /\ (Lasts(h) \/ Revised(h))
  BY <1>1, NoGrantIsNone DEF GrantTypeOK, SameGrant, Lasts, Revised
<1>4. GrantsApart'
  BY <1>3 DEF GrantsApart, SameGrant
<1>5. RowsApart'
  BY <1>1 DEF RowsApart, Kept
<1> QED BY <1>2, <1>3, <1>4, <1>5 DEF GrantStep

(* The grants of a distribution.                                            *)
LEMMA DistributeKeepsGrants ==
    ASSUME GrantInv, NEW a \in Admins, Distribute(a)
    PROVE  GrantInv' /\ \A h \in Grants : GrantStep(h)
<1> USE DEF GrantInv
<1>1. PICK f \in Injection(offers[a], {g \in Grants : grants[g] = NoGrant}),
          since \in Since, d \in Durations \cup {None} :
        grants' = [g \in Grants |->
            IF \E i \in offers[a] : f[i] = g
            THEN LET i == CHOOSE j \in offers[a] : f[j] = g
                 IN  [row |-> i, email |-> rows[i].email, status |-> "active",
                      since |-> since, left |-> d, revision |-> 1, token |-> 1]
            ELSE grants[g]]
  BY DEF Distribute
<1> DEFINE Of(g) == CHOOSE j \in offers[a] : f[j] = g
<1>2. /\ \A i, j \in offers[a] : f[i] = f[j] => i = j
      /\ \A i \in offers[a] : f[i] \in Grants /\ grants[f[i]] = NoGrant
      /\ \A i \in offers[a] : i \in Ids /\ ~Distributed(i)
      /\ UNCHANGED rows
      /\ offers' = [offers EXCEPT ![a] = {}]
  BY DEF Injection, IsInjective, Distribute, GrantTypeOK
<1>3. ASSUME NEW g \in Grants
      PROVE  \/ /\ grants[g] = NoGrant /\ Of(g) \in offers[a] /\ f[Of(g)] = g
                /\ grants'[g] = [row |-> Of(g), email |-> rows[Of(g)].email,
                                 status |-> "active", since |-> since, left |-> d,
                                 revision |-> 1, token |-> 1]
             \/ grants'[g] = grants[g]
  <2>1. CASE \E i \in offers[a] : f[i] = g
    <3>1. Of(g) \in offers[a] /\ f[Of(g)] = g
      BY <2>1
    <3> QED BY <1>1, <1>2, <2>1, <3>1
  <2>2. CASE ~ \E i \in offers[a] : f[i] = g
    BY <1>1, <2>2
  <2> QED BY <2>1, <2>2
<1> HIDE DEF Of
<1>4. ASSUME NEW g \in Grants, grants[g] = NoGrant,
             Of(g) \in offers[a], f[Of(g)] = g,
             grants'[g] = [row |-> Of(g), email |-> rows[Of(g)].email,
                           status |-> "active", since |-> since, left |-> d,
                           revision |-> 1, token |-> 1]
      PROVE  /\ grants'[g] \in GrantRecords /\ grants'[g].row = Of(g)
             /\ grants'[g].status = "active" /\ grants'[g].token = 1
  <2>1. rows[Of(g)].email \in Emails /\ Of(g) \in Ids
    BY <1>2, <1>4 DEF GrantTypeOK
  <2>2. d \in Times /\ since \in Since /\ 1 \in 1..MaxRevision /\ 1 \in 0..MaxRevision
    BY DurationsAreTimes, AccessAssumption
  <2> QED BY <1>4, <2>1, <2>2 DEF GrantRecords
<1>5. GrantTypeOK'
  <2>1. grants' \in [Grants -> GrantRecords \cup {NoGrant}]
    <3>1. \A g \in Grants : grants'[g] \in GrantRecords \cup {NoGrant}
      BY <1>3, <1>4 DEF GrantTypeOK
    <3>2. grants' = [g \in Grants |-> grants'[g]]
      BY <1>1
    <3> QED BY <3>1, <3>2
  <2>2. \A g \in Grants : grants'[g].status = "active" <=> grants'[g].token # 0
    <3>1. \A g \in Grants : \/ grants'[g] = grants[g]
                            \/ grants'[g].status = "active" /\ grants'[g].token = 1
      BY <1>3, <1>4
    <3> QED BY <3>1 DEF GrantTypeOK
  <2> QED BY <1>2, <2>1, <2>2 DEF GrantTypeOK
<1>6. GrantsApart'
  <2> SUFFICES ASSUME NEW g \in Grants, NEW h \in Grants,
                      grants'[g] # NoGrant, grants'[g].row = grants'[h].row
               PROVE  g = h
    BY DEF GrantsApart
  <2>1. CASE grants'[g] = grants[g] /\ grants'[h] = grants[h]
    BY <2>1 DEF GrantsApart
  <2>2. ASSUME NEW k \in Grants, NEW l \in Grants, grants'[k] # grants[k],
               grants'[k].row = grants'[l].row
        PROVE  k = l
    <3>1. grants'[k].row = Of(k) /\ f[Of(k)] = k /\ Of(k) \in offers[a]
      BY <1>3, <1>4, <2>2
    <3>2. grants'[l] # grants[l]
      BY <1>2, <2>2, <3>1 DEF Distributed
    <3>3. grants'[l].row = Of(l) /\ f[Of(l)] = l /\ Of(l) \in offers[a]
      BY <1>3, <1>4, <3>2
    <3> QED BY <2>2, <3>1, <3>3
  <2> QED BY <2>1, <2>2
<1>7. RowsApart'
  BY <1>2 DEF RowsApart, Kept
<1>8. \A g \in Grants : GrantStep(g)
  BY <1>3, <1>4 DEF GrantStep, Made, SameGrant, Lasts
<1> QED BY <1>5, <1>6, <1>7, <1>8

(* Steps that leave the grants alone.                                       *)
LEMMA GrantsKept ==
    ASSUME GrantInv, UNCHANGED <<rows, grants>>, offers' \in [Admins -> SUBSET Ids],
           \A a \in Admins : \A i \in offers'[a] : rows[i].state # "new"
    PROVE  GrantInv' /\ \A h \in Grants : GrantStep(h)
BY DEF GrantInv, GrantTypeOK, RowsApart, Kept, GrantsApart, GrantStep, SameGrant, Lasts

(* The next revision of a record, and what may be set in it.                *)
LEMMA NextRevisionTyped ==
    ASSUME NEW g, grants[g] \in GrantRecords, grants[g].revision < MaxRevision
    PROVE  /\ NextRevision(g) \in GrantRecords
           /\ NextRevision(g).revision = grants[g].revision + 1
           /\ NextRevision(g).row = grants[g].row
           /\ NextRevision(g).email = grants[g].email
           /\ NextRevision(g).since = grants[g].since
           /\ NextRevision(g).status = grants[g].status
           /\ NextRevision(g).token = grants[g].token
<1>1. grants[g].revision + 1 \in 1..MaxRevision
  BY AccessAssumption DEF GrantRecords
<1> QED BY <1>1 DEF NextRevision, GrantRecords

LEMMA StatusTyped ==
    ASSUME NEW r \in GrantRecords, NEW new,
           new = [r EXCEPT !.status = "revoked", !.token = 0]
            \/ new = [r EXCEPT !.status = "active", !.token = r.revision]
    PROVE  /\ new \in GrantRecords /\ new.row = r.row /\ new.email = r.email
           /\ new.since = r.since /\ new.revision = r.revision
           /\ new.status = "active" <=> new.token # 0
<1>1. 0 \in 0..MaxRevision /\ r.revision \in 0..MaxRevision /\ r.revision # 0
  BY AccessAssumption DEF GrantRecords
<1>2. /\ new \in GrantRecords /\ new.row = r.row /\ new.email = r.email
      /\ new.since = r.since /\ new.revision = r.revision
  BY <1>1 DEF GrantRecords
<1>3. \/ new.status = "revoked" /\ new.token = 0
      \/ new.status = "active" /\ new.token = r.revision
  BY DEF GrantRecords
<1> QED BY <1>1, <1>2, <1>3

LEMMA DeadlineTyped ==
    ASSUME NEW r \in GrantRecords, NEW left \in Times, NEW new, new = [r EXCEPT !.left = left]
    PROVE  /\ new \in GrantRecords /\ new.row = r.row /\ new.email = r.email
           /\ new.since = r.since /\ new.revision = r.revision
           /\ new.status = r.status /\ new.token = r.token
BY DEF GrantRecords

LEMMA GrantInvNext ==
    ASSUME GrantInv, [Next]_vars
    PROVE  GrantInv' /\ \A h \in Grants : GrantStep(h)
<1> USE DEF GrantInv
<1>1. ASSUME NEW i \in Ids, NEW e \in Emails, AddRow(i, e)
      PROVE  GrantInv' /\ \A h \in Grants : GrantStep(h)
  <2>1. /\ rows' = [rows EXCEPT ![i] = [state |-> "listed", email |-> e]]
        /\ rows[i].state = "new" /\ UNCHANGED <<grants, offers>>
        /\ \A j \in Ids : Kept(j) => rows[j].email # e
    BY <1>1 DEF AddRow, memory
  <2>2. GrantTypeOK'
    BY <2>1 DEF GrantTypeOK, Rows
  <2>3. RowsApart'
    BY <2>1 DEF RowsApart, Kept, GrantTypeOK
  <2> QED BY <2>1, <2>2, <2>3 DEF GrantsApart, GrantStep, SameGrant, Lasts
<1>2. ASSUME NEW i \in Ids, HideRow(i) \/ ShowRow(i)
      PROVE  GrantInv' /\ \A h \in Grants : GrantStep(h)
  <2>1. PICK to \in {"listed", "hidden"} :
            /\ rows' = [rows EXCEPT ![i].state = to]
            /\ Kept(i) /\ UNCHANGED <<grants, offers>>
    BY <1>2 DEF HideRow, ShowRow, memory, Kept, Listed
  <2>2. \A j \in Ids : /\ rows'[j].email = rows[j].email
                       /\ Kept(j)' => Kept(j)
                       /\ rows'[j] \in Rows
                       /\ rows[j].state # "new" <=> rows'[j].state # "new"
    BY <2>1 DEF GrantTypeOK, Rows, Kept
  <2>3. GrantTypeOK'
    BY <2>1, <2>2 DEF GrantTypeOK
  <2>4. RowsApart'
    BY <2>2 DEF RowsApart
  <2> QED BY <2>1, <2>3, <2>4 DEF GrantsApart, GrantStep, SameGrant, Lasts
<1>3. ASSUME NEW a \in Admins, DistributeRead(a) \/ DistributeRefused(a)
      PROVE  GrantInv' /\ \A h \in Grants : GrantStep(h)
  <2>1. /\ UNCHANGED <<rows, grants>>
        /\ \E S \in SUBSET Ids : /\ offers' = [offers EXCEPT ![a] = S]
                                 /\ \A i \in S : rows[i].state # "new"
    BY <1>3 DEF DistributeRead, DistributeRefused, durable, Listed
  <2> QED BY <2>1, GrantsKept DEF GrantTypeOK
<1>4. ASSUME NEW g \in Grants, Revoke(g)
      PROVE  GrantInv' /\ \A h \in Grants : GrantStep(h)
  <2> DEFINE record == [NextRevision(g) EXCEPT !.status = "revoked", !.token = 0]
  <2>1. Change(g, record)
    BY <1>4 DEF Revoke
  <2>2. grants[g] # NoGrant /\ grants[g] \in GrantRecords /\ grants[g].revision < MaxRevision
    BY <2>1 DEF Change, GrantTypeOK
  <2>3. /\ record \in GrantRecords
        /\ record.row = grants[g].row /\ record.email = grants[g].email
        /\ record.since = grants[g].since /\ record.revision = grants[g].revision + 1
        /\ record.status = "active" <=> record.token # 0
    <3>1. NextRevision(g) \in GrantRecords
      BY <2>2, NextRevisionTyped
    <3>2. NextRevision(g).revision \in 0..MaxRevision /\ 0 \in 0..MaxRevision /\ None \in Times
      BY <3>1, AccessAssumption DEF GrantRecords, Times
    <3>3. /\ record \in GrantRecords /\ record.row = NextRevision(g).row
          /\ record.email = NextRevision(g).email /\ record.since = NextRevision(g).since
          /\ record.revision = NextRevision(g).revision
          /\ record.status = "active" <=> record.token # 0
      <4> DEFINE r == NextRevision(g)
      <4>1. record = [r EXCEPT !.status = "revoked", !.token = 0]
        OBVIOUS
      <4>2. r \in GrantRecords
        BY <3>1
      <4> HIDE DEF record, r
      <4>3. /\ record \in GrantRecords /\ record.row = r.row /\ record.email = r.email
            /\ record.since = r.since /\ record.revision = r.revision
            /\ record.status = "active" <=> record.token # 0
        BY <4>1, <4>2, StatusTyped
      <4> QED BY <4>3 DEF r
    <3> QED BY <2>2, <3>3, NextRevisionTyped
  <2> HIDE DEF record
  <2> QED BY <2>1, <2>3, ChangeKeepsGrants
<1>5. ASSUME NEW g \in Grants, Reset(g)
      PROVE  GrantInv' /\ \A h \in Grants : GrantStep(h)
  <2> DEFINE record == [NextRevision(g) EXCEPT !.status = "active",
                                               !.token = NextRevision(g).revision]
  <2>1. Change(g, record)
    BY <1>5 DEF Reset
  <2>2. grants[g] # NoGrant /\ grants[g] \in GrantRecords /\ grants[g].revision < MaxRevision
    BY <2>1 DEF Change, GrantTypeOK
  <2>3. /\ record \in GrantRecords
        /\ record.row = grants[g].row /\ record.email = grants[g].email
        /\ record.since = grants[g].since /\ record.revision = grants[g].revision + 1
        /\ record.status = "active" <=> record.token # 0
    <3>1. NextRevision(g) \in GrantRecords
      BY <2>2, NextRevisionTyped
    <3>2. NextRevision(g).revision \in 0..MaxRevision /\ 0 \in 0..MaxRevision /\ None \in Times
      BY <3>1, AccessAssumption DEF GrantRecords, Times
    <3>3. /\ record \in GrantRecords /\ record.row = NextRevision(g).row
          /\ record.email = NextRevision(g).email /\ record.since = NextRevision(g).since
          /\ record.revision = NextRevision(g).revision
          /\ record.status = "active" <=> record.token # 0
      <4> DEFINE r == NextRevision(g)
      <4>1. record = [r EXCEPT !.status = "active", !.token = r.revision]
        OBVIOUS
      <4>2. r \in GrantRecords
        BY <3>1
      <4> HIDE DEF record, r
      <4>3. /\ record \in GrantRecords /\ record.row = r.row /\ record.email = r.email
            /\ record.since = r.since /\ record.revision = r.revision
            /\ record.status = "active" <=> record.token # 0
        BY <4>1, <4>2, StatusTyped
      <4> QED BY <4>3 DEF r
    <3> QED BY <2>2, <3>3, NextRevisionTyped
  <2> HIDE DEF record
  <2> QED BY <2>1, <2>3, ChangeKeepsGrants
<1>6. ASSUME NEW g \in Grants, NEW d \in Durations \cup {None}, UpdateGrant(g, d)
      PROVE  GrantInv' /\ \A h \in Grants : GrantStep(h)
  <2> DEFINE record == [NextRevision(g) EXCEPT !.left = d]
  <2>1. Change(g, record)
    BY <1>6 DEF UpdateGrant
  <2>2. /\ grants[g] # NoGrant /\ grants[g] \in GrantRecords /\ grants[g].revision < MaxRevision
        /\ d \in Times
    BY <2>1, DurationsAreTimes DEF Change, GrantTypeOK
  <2>3. /\ record \in GrantRecords
        /\ record.row = grants[g].row /\ record.email = grants[g].email
        /\ record.since = grants[g].since /\ record.revision = grants[g].revision + 1
        /\ record.status = "active" <=> record.token # 0
    <3>1. NextRevision(g) \in GrantRecords
      BY <2>2, NextRevisionTyped
    <3>2. NextRevision(g).revision \in 0..MaxRevision /\ 0 \in 0..MaxRevision /\ None \in Times
      BY <3>1, AccessAssumption DEF GrantRecords, Times
    <3>3. /\ record \in GrantRecords /\ record.row = NextRevision(g).row
          /\ record.email = NextRevision(g).email /\ record.since = NextRevision(g).since
          /\ record.revision = NextRevision(g).revision
          /\ record.status = NextRevision(g).status /\ record.token = NextRevision(g).token
      BY <2>2, <3>1, <3>2, DeadlineTyped
    <3> QED BY <2>2, <3>3, NextRevisionTyped DEF GrantTypeOK
  <2> HIDE DEF record
  <2> QED BY <2>1, <2>3, ChangeKeepsGrants
<1>7. CASE Tick
  <2>1. /\ grants' = [g \in Grants |-> [grants[g] EXCEPT !.left = Less(@)]]
        /\ UNCHANGED <<rows, offers>>
    BY <1>7 DEF Tick
  <2>2. ASSUME NEW g \in Grants
        PROVE  /\ grants'[g] \in GrantRecords \cup {NoGrant}
               /\ SameGrant(g) /\ Lasts(g)
    <3>1. CASE grants[g] = NoGrant
      <4>1. grants'[g] = NoGrant
        BY <2>1, <3>1 DEF NoGrant, Less
      <4> QED BY <3>1, <4>1 DEF SameGrant, Lasts
    <3>2. CASE grants[g] \in GrantRecords
      <4>1. Less(grants[g].left) \in Times
        BY <3>2, LessKeepsTimes DEF GrantRecords
      <4>2. grants'[g] = [grants[g] EXCEPT !.left = Less(@)]
        BY <2>1
      <4>3. grants'[g] \in GrantRecords /\ SameGrant(g) /\ Lasts(g)
        BY <3>2, <4>1, <4>2, NoGrantIsNone DEF GrantRecords, SameGrant, Lasts
      <4> QED BY <4>3
    <3> QED BY <3>1, <3>2 DEF GrantTypeOK
  <2>3. GrantTypeOK'
    BY <2>1, <2>2 DEF GrantTypeOK, Lasts
  <2>4. GrantsApart'
    BY <2>2 DEF GrantsApart, SameGrant
  <2> QED BY <2>1, <2>2, <2>3, <2>4 DEF RowsApart, Kept, GrantStep
<1>8. CASE Restart
  BY <1>8, GrantsKept DEF Restart, durable
<1>9. CASE Settings \/ Fetch \/ (\E r \in Requests : Request(r))
            \/ (\E s \in sessions : DropSession(s)) \/ (\E k \in Keys : Evict(k))
            \/ UNCHANGED vars
  <2>1. UNCHANGED <<rows, grants, offers>>
    BY <1>9
    DEF Settings, Fetch, Request, DropSession, Evict, vars, durable, memory, AtRest,
        Configure, ConfigureWrite, ConfigureFails, FetchConfig, FetchDone, FetchFails,
        Login, Messages, AdminMessages, ReadGrant, ReadInventory, ReadGrantAgain,
        ReadAccount, ReadRow, Receive, Send, Refuse, End
  <2> QED BY <2>1, GrantsKept DEF GrantTypeOK
<1>10. ASSUME NEW a \in Admins, Distribute(a)
       PROVE  GrantInv' /\ \A h \in Grants : GrantStep(h)
  BY <1>10, DistributeKeepsGrants
<1> QED BY <1>1, <1>2, <1>3, <1>4, <1>5, <1>6, <1>7, <1>8, <1>9, <1>10
        DEF Next, Inventory, Sharing

LEMMA GrantInvariant == Spec => []GrantInv
<1>1. GrantInv /\ [Next]_vars => GrantInv'
  BY GrantInvNext
<1> QED BY GrantInvInit, <1>1, PTL DEF Spec

(* An address is readable through one grant at most, however distributions  *)
(* overlap and rows leave and enter view (distribute, changeGrant).         *)
THEOREM OneReaderAlways == Spec => []OneReaderPerAddress
<1>1. GrantInv => OneReaderPerAddress
  BY NoGrantIsNone
  DEF GrantInv, GrantTypeOK, RowsApart, GrantsApart, OneReaderPerAddress, Usable, Kept,
      GrantRecords, NoGrant
<1> QED BY <1>1, GrantInvariant, PTL

-----------------------------------------------------------------------------
(* Sessions, requests, fetches and the cache.                               *)

(* A token that was in force at a revision is in force as long as that      *)
(* revision is and the grant is active.                                     *)
Holds(g, revision, token) ==
    /\ g \in Grants /\ revision \in 1..MaxRevision /\ token \in 1..MaxRevision
    /\ revision <= grants[g].revision
    /\ grants[g].status = "active" /\ grants[g].revision = revision =>
            grants[g].token = token

(* A fetch that answers a row from some time on, and one that has read its  *)
(* mailbox.                                                                 *)
Answers(f, row, since) ==
    /\ f \in Fetches /\ fetches[f].status # "free"
    /\ fetches[f].row = row /\ fetches[f].since = since

Read(f) == fetches[f].status \in {"reading", "done"}

ReaderOK(r) ==
    LET q == requests[r]
    IN  /\ Holds(q.grant, q.revision, q.token) /\ q.row = grants[q.grant].row
        /\ q.kind = "login" => q.stage \in {"grant", "inventory", "again"} /\ q.round = 0
        /\ q.kind = "mail" =>
            /\ q.round \in 1..3
            /\ q.stage \in {"account", "row", "waiting", "send"} \/ q.round > 1 =>
                    q.since = grants[q.grant].since

MailOK(r) ==
    LET q == requests[r]
    IN  /\ Answers(q.fetch, q.row, q.since)
        /\ rows[q.row].state # "new"
        /\ q.stage # "waiting" => fetches[q.fetch].status = "done"
        /\ q.current <= IF Read(q.fetch) THEN fetches[q.fetch].forward ELSE account.forward

RequestOK(r) ==
    LET q == requests[r]
    IN  q.stage # "idle" =>
        /\ q.row \in Ids
        /\ IF q.kind = "admin"
           THEN q.stage \in {"account", "row", "waiting", "send"} /\ q.round = 0
           ELSE ReaderOK(r)
        /\ q.fetch # None <=> (q.stage \in {"waiting", "send"} \/ q.round > 1)
        /\ q.fetch # None => MailOK(r)

RequestsOK ==
    /\ requests \in [Requests -> RequestRecords]
    /\ \A r \in Requests : RequestOK(r) /\ (requests[r].stage = "idle" => requests[r] = Idle)

(* A cache entry answers its key, and is too young to hold mail of a        *)
(* mailbox that was replaced the cache's lifetime ago.                      *)
CacheOK(k) ==
    cache[k] # NoEntry =>
        /\ cache[k].ttl > 0
        /\ Answers(cache[k].fetch, k[1], k[2])
        /\ rows[k[1]].state # "new"
        /\ Read(cache[k].fetch) /\ fetches[cache[k].fetch].forward < account.forward =>
                cache[k].ttl + changed <= CacheTime

(* Mail of a row that has been unlisted ever since.                         *)
UnlistedOK(r) ==
    /\ requests[r].stage \in {"grant", "inventory", "send"} /\ requests[r].fetch # None
    /\ rows[requests[r].row].state = "hidden"

AccountOK ==
    /\ account \in Accounts
    /\ configuring \in Accounts \cup {None}
    /\ configuring # None => account.forward <= configuring.forward
    /\ changed \in 0..CacheTime

FetchOK(f) ==
    /\ Read(f) => fetches[f].forward \in 0..MaxForward
    /\ fetches[f].status # "free" => fetches[f].row \in Ids
    /\ fetches[f].status = "free" => fetches[f] = FreeFetch

AccessTypeOK ==
    /\ sessions \subseteq Sessions
    /\ cache \in [Keys -> CacheEntries]
    /\ fetches \in [Fetches -> FetchRecords]
    /\ unlisted \subseteq Requests

AccessInv ==
    /\ GrantInv /\ AccountOK /\ AccessTypeOK
    /\ \A s \in sessions : Holds(s.grant, s.revision, s.token)
    /\ \A k \in Keys : CacheOK(k)
    /\ \A f \in Fetches : FetchOK(f)
    /\ RequestsOK
    /\ \A r \in unlisted : UnlistedOK(r)

LEMMA IdleIsTyped ==
    /\ Idle \in RequestRecords /\ Idle.stage = "idle" /\ Idle.fetch = None
    /\ NoEntry \in CacheEntries /\ FreeFetch \in FetchRecords /\ FreeFetch.status = "free"
<1> USE AccessAssumption
<1>1. Idle \in RequestRecords /\ Idle.stage = "idle" /\ Idle.fetch = None
  <2>1. 0 \in 0..MaxRevision /\ 0 \in 0..3 /\ 0 \in 0..MaxForward
    OBVIOUS
  <2> QED BY <2>1 DEF Idle, RequestRecords, Stages, Since
<1>2. NoEntry \in CacheEntries
  <2>1. 0 \in 0..CacheTime
    OBVIOUS
  <2> QED BY <2>1 DEF NoEntry, CacheEntries
<1>3. FreeFetch \in FetchRecords /\ FreeFetch.status = "free"
  BY DEF FreeFetch, FetchRecords, Since
<1> QED BY <1>1, <1>2, <1>3

LEMMA AccessInvInit == Init => AccessInv
<1> SUFFICES ASSUME Init PROVE AccessInv
  OBVIOUS
<1>1. GrantInv
  BY GrantInvInit
<1>2. AccountOK
  BY AccessAssumption DEF Init, AccountOK, Accounts
<1>3. AccessTypeOK
  BY IdleIsTyped DEF Init, AccessTypeOK, RequestsOK
<1>4. \A k \in Keys : CacheOK(k)
  BY DEF Init, CacheOK
<1>5. \A f \in Fetches : FetchOK(f)
  BY DEF Init, FetchOK, Read, FreeFetch
<1>6. RequestsOK
  BY IdleIsTyped DEF Init, RequestOK, RequestsOK
<1>7. sessions = {} /\ unlisted = {}
  BY DEF Init
<1> QED BY <1>1, <1>2, <1>3, <1>4, <1>5, <1>6, <1>7 DEF AccessInv

(* What lives on over a step: the hold of a token, ...                      *)
LEMMA HoldsOn ==
    ASSUME GrantInv, \A h \in Grants : GrantStep(h),
           NEW g, NEW revision, NEW token, Holds(g, revision, token)
    PROVE  Holds(g, revision, token)' /\ SameGrant(g) /\ grants[g] \in GrantRecords
<1>1. g \in Grants /\ GrantStep(g) /\ grants[g] \in GrantRecords \cup {NoGrant}
  BY DEF Holds, GrantInv, GrantTypeOK
<1>2. grants[g].revision \in Nat /\ revision \in Nat /\ revision > 0
  BY <1>1, AccessAssumption DEF GrantRecords, NoGrant, Holds
<1>3. grants[g] # NoGrant
  BY <1>2 DEF NoGrant, Holds
<1> QED BY <1>1, <1>2, <1>3 DEF Holds, GrantStep, Made, Lasts, Revised

(* ... the rows that there are and the age of the mailbox, ...              *)
LEMMA RowsAndAccountMove ==
    ASSUME AccessInv, [Next]_vars
    PROVE  /\ \A i \in Ids : rows[i].state # "new" => rows'[i].state # "new"
           /\ AccountOK' /\ account.forward <= account'.forward
           /\ account.forward \in Nat /\ account'.forward \in Nat
           /\ account'.forward # account.forward => changed' = 0 /\ UNCHANGED fetches
           /\ changed' \in {0, changed} \/ Tick
<1> USE AccessAssumption DEF AccessInv
<1>0. account \in Accounts /\ account.forward \in Nat /\ changed \in 0..CacheTime
      /\ 0 \in 0..CacheTime
  BY DEF AccountOK, Accounts
<1>1. ASSUME NEW next \in Accounts, Configure(next)
      PROVE  AccountOK' /\ UNCHANGED <<rows, account, changed>>
  <2>1. /\ next.forward \in {account.forward, account.forward + 1}
        /\ configuring' = next /\ UNCHANGED <<rows, account, changed>>
    BY <1>1 DEF Configure, durable
  <2>2. account.forward <= next.forward
    BY <1>0, <2>1
  <2> QED BY <2>1, <2>2 DEF AccountOK
<1>2. ASSUME ConfigureWrite
      PROVE  /\ AccountOK' /\ UNCHANGED <<rows, fetches>>
             /\ account.forward <= account'.forward
             /\ account'.forward # account.forward => changed' = 0
             /\ changed' \in {0, changed}
  <2>1. /\ configuring # None /\ account' = configuring /\ configuring' = None
        /\ changed' = IF configuring.forward # account.forward THEN 0 ELSE changed
        /\ UNCHANGED <<rows, fetches>>
    BY <1>2 DEF ConfigureWrite
  <2>2. /\ account' \in Accounts /\ account.forward <= account'.forward
        /\ changed' \in {0, changed} /\ changed' \in 0..CacheTime
    BY <1>0, <2>1 DEF AccountOK
  <2>3. AccountOK'
    BY <2>1, <2>2 DEF AccountOK
  <2> QED BY <2>1, <2>2, <2>3
<1>3. CASE ConfigureFails \/ Restart
  BY <1>0, <1>3 DEF ConfigureFails, Restart, durable, AccountOK
<1>4. CASE Tick
  <2>1. changed' \in 0..CacheTime /\ UNCHANGED <<rows, account, configuring>>
    BY <1>0, <1>4 DEF Tick
  <2> QED BY <1>0, <1>4, <2>1 DEF AccountOK
<1>5. CASE Inventory
  <2>1. UNCHANGED <<account, configuring, changed>>
    BY <1>5 DEF Inventory, AddRow, HideRow, ShowRow, memory
  <2>2. \A i \in Ids : rows[i].state # "new" => rows'[i].state # "new"
    <3>1. \E i \in Ids :
            \/ \E e \in Emails : rows' = [rows EXCEPT ![i] = [state |-> "listed", email |-> e]]
            \/ \E to \in {"listed", "hidden"} : rows' = [rows EXCEPT ![i].state = to]
      BY <1>5 DEF Inventory, AddRow, HideRow, ShowRow
    <3> QED BY <3>1 DEF GrantInv, GrantTypeOK, Rows
  <2> QED BY <1>0, <2>1, <2>2 DEF AccountOK
<1>6. CASE Sharing \/ Fetch \/ (\E r \in Requests : Request(r))
            \/ (\E s \in sessions : DropSession(s)) \/ (\E k \in Keys : Evict(k))
            \/ UNCHANGED vars
  <2>1. UNCHANGED <<rows, account, configuring, changed>>
    BY <1>6
    DEF Sharing, Fetch, Request, DropSession, Evict, vars, durable, memory, AtRest,
        DistributeRead, Distribute, DistributeRefused, Revoke, Reset, UpdateGrant, Change,
        FetchConfig, FetchDone, FetchFails,
        Login, Messages, AdminMessages, ReadGrant, ReadInventory, ReadGrantAgain,
        ReadAccount, ReadRow, Receive, Send, Refuse, End
  <2> QED BY <1>0, <2>1 DEF AccountOK
<1>7. account'.forward \in Nat
  <2>1. AccountOK'
    BY <1>1, <1>2, <1>3, <1>4, <1>5, <1>6 DEF Next, Settings
  <2> QED BY <2>1 DEF AccountOK, Accounts
<1> QED BY <1>0, <1>1, <1>2, <1>3, <1>4, <1>5, <1>6, <1>7 DEF Next, Settings

(* ... and a fetch that somebody waits for.                                 *)
FetchLives(f) ==
    fetches[f].status # "free" =>
        /\ fetches'[f].row = fetches[f].row /\ fetches'[f].since = fetches[f].since
        /\ fetches'[f].status # "free"
        /\ fetches[f].status = "done" => fetches'[f].status = "done"
        /\ Read(f) => Read(f)' /\ fetches'[f].forward = fetches[f].forward
        /\ ~Read(f) /\ Read(f)' => fetches'[f].forward = account.forward

LEMMA AwaitedLive ==
    ASSUME AccessInv, FetchesStillAwaited
    PROVE  /\ fetches' \in [Fetches -> FetchRecords] /\ \A f \in Fetches : FetchOK(f)'
           /\ \A f \in Fetches : Busy(f)' => FetchLives(f)
<1>1. \A f \in Fetches : fetches'[f] = IF Busy(f)' THEN fetches[f] ELSE FreeFetch
  BY DEF FetchesStillAwaited
<1>2. \A f \in Fetches : FetchOK(f)'
  BY <1>1 DEF AccessInv, FetchOK, Read, FreeFetch
<1>3. fetches' \in [Fetches -> FetchRecords]
  BY <1>1, IdleIsTyped DEF FetchesStillAwaited, AccessInv, AccessTypeOK, RequestsOK
<1>4. \A f \in Fetches : Busy(f)' => FetchLives(f)
  BY <1>1 DEF FetchLives, Read
<1> QED BY <1>2, <1>3, <1>4

LEMMA FetchesMove ==
    ASSUME AccessInv, [Next]_vars
    PROVE  /\ fetches' \in [Fetches -> FetchRecords] /\ \A f \in Fetches : FetchOK(f)'
           /\ \A f \in Fetches : Busy(f)' => FetchLives(f)
<1> USE DEF AccessInv
<1>1. CASE FetchesStillAwaited
  BY <1>1, AwaitedLive
<1>2. CASE UNCHANGED fetches
  BY <1>2 DEF AccessTypeOK, RequestsOK, FetchOK, Read, FetchLives
<1>3. CASE Restart
  <2>1. \A f \in Fetches : fetches'[f] = FreeFetch /\ ~Busy(f)'
    BY <1>3, IdleIsTyped, AccessAssumption DEF Restart, Busy, NoEntry
  <2>2. fetches' \in [Fetches -> FetchRecords]
    BY <1>3, IdleIsTyped DEF Restart
  <2> QED BY <2>1, <2>2 DEF FetchOK, Read, FreeFetch
<1>4. ASSUME NEW f \in Fetches, FetchConfig(f)
      PROVE  /\ fetches' \in [Fetches -> FetchRecords] /\ \A g \in Fetches : FetchOK(g)'
             /\ \A g \in Fetches : FetchLives(g)
  <2>1. /\ fetches[f].status = "started"
        /\ fetches' = [fetches EXCEPT ![f].status = "reading", ![f].forward = account.forward]
    BY <1>4 DEF FetchConfig
  <2>2. account.forward \in 0..MaxForward
    BY DEF AccountOK, Accounts
  <2>3. /\ fetches'[f].row = fetches[f].row /\ fetches'[f].since = fetches[f].since
        /\ fetches'[f].status = "reading" /\ fetches'[f].forward = account.forward
        /\ \A g \in Fetches \ {f} : fetches'[g] = fetches[g]
        /\ fetches' \in [Fetches -> FetchRecords]
    BY <2>1, <2>2 DEF AccessTypeOK, RequestsOK, FetchRecords
  <2> QED BY <2>1, <2>2, <2>3 DEF FetchOK, Read, FetchLives
<1>5. ASSUME NEW f \in Fetches, FetchDone(f)
      PROVE  /\ fetches' \in [Fetches -> FetchRecords] /\ \A g \in Fetches : FetchOK(g)'
             /\ \A g \in Fetches : FetchLives(g)
  <2>1. /\ fetches[f].status = "reading"
        /\ fetches' = [fetches EXCEPT ![f].status = "done"]
    BY <1>5 DEF FetchDone
  <2>2. /\ fetches'[f].row = fetches[f].row /\ fetches'[f].since = fetches[f].since
        /\ fetches'[f].status = "done" /\ fetches'[f].forward = fetches[f].forward
        /\ \A g \in Fetches \ {f} : fetches'[g] = fetches[g]
        /\ fetches' \in [Fetches -> FetchRecords]
    BY <2>1 DEF AccessTypeOK, RequestsOK, FetchRecords
  <2> QED BY <2>1, <2>2 DEF FetchOK, Read, FetchLives
<1>6. ASSUME NEW r \in Requests, ReadRow(r)
      PROVE  /\ fetches' \in [Fetches -> FetchRecords] /\ \A g \in Fetches : FetchOK(g)'
             /\ \A g \in Fetches : FetchLives(g)
  <2>1. CASE UNCHANGED fetches
    BY <2>1 DEF AccessTypeOK, RequestsOK, FetchOK, Read, FetchLives
  <2>2. CASE \E f \in Fetches :
                /\ fetches[f] = FreeFetch
                /\ fetches' = [fetches EXCEPT ![f] =
                        [row |-> requests[r].row, since |-> requests[r].since,
                         forward |-> None, status |-> "started"]]
    <3>1. requests[r].row \in Ids /\ requests[r].since \in Since
      BY <1>6 DEF ReadRow, RequestOK, AccessTypeOK, RequestsOK, RequestRecords
    <3>2. PICK f \in Fetches :
                /\ fetches[f].status = "free"
                /\ fetches' = [fetches EXCEPT ![f] =
                        [row |-> requests[r].row, since |-> requests[r].since,
                         forward |-> None, status |-> "started"]]
      BY <2>2, IdleIsTyped
    <3>3. /\ fetches'[f].row = requests[r].row /\ fetches'[f].status = "started"
          /\ \A g \in Fetches \ {f} : fetches'[g] = fetches[g]
          /\ fetches' \in [Fetches -> FetchRecords]
      BY <3>1, <3>2 DEF AccessTypeOK, RequestsOK, FetchRecords
    <3> QED BY <3>1, <3>2, <3>3 DEF FetchOK, Read, FetchLives
  <2> QED BY <1>6, <2>1, <2>2 DEF ReadRow
<1>7. \/ FetchesStillAwaited \/ UNCHANGED fetches \/ Restart
      \/ \E f \in Fetches : FetchConfig(f) \/ FetchDone(f)
      \/ \E r \in Requests : ReadRow(r)
  BY DEF Next, Inventory, AddRow, HideRow, ShowRow, memory, vars, durable, AtRest,
        Sharing, DistributeRead, Distribute, DistributeRefused, Revoke, Reset, UpdateGrant,
        Change, Settings, Configure, ConfigureWrite, ConfigureFails, Fetch, FetchFails,
        Request, Login, Messages, AdminMessages, ReadGrant, ReadInventory, ReadGrantAgain,
        ReadAccount, Receive, Send, Refuse, End, DropSession, Evict, Tick
<1> QED BY <1>1, <1>2, <1>3, <1>4, <1>5, <1>6, <1>7

(* A request that takes no part in a step stays what it was.                *)
LEMMA RequestStill ==
    ASSUME AccessInv, [Next]_vars, NEW r \in Requests, requests'[r] = requests[r]
    PROVE  RequestOK(r)' /\ (requests'[r].stage = "idle" => requests'[r] = Idle)
<1> DEFINE q == requests[r]
<1> USE DEF AccessInv
<1>1. q \in RequestRecords /\ RequestOK(r) /\ (q.stage = "idle" => q = Idle)
  BY DEF AccessTypeOK, RequestsOK
<1>2. SUFFICES ASSUME q.stage # "idle" PROVE RequestOK(r)'
  BY <1>1 DEF RequestOK
<1>3. ASSUME q.kind # "admin" PROVE ReaderOK(r)'
  <2>1. PICK g, v, n : g = q.grant /\ v = q.revision /\ n = q.token /\ Holds(g, v, n)
    BY <1>1, <1>2, <1>3 DEF RequestOK, ReaderOK
  <2>2. Holds(g, v, n)' /\ SameGrant(g)
    BY <2>1, GrantInvNext, HoldsOn
  <2>3. requests'[r] = q /\ ReaderOK(r)
    BY <1>1, <1>2, <1>3 DEF RequestOK
  <2> QED BY <2>1, <2>2, <2>3 DEF ReaderOK, Holds, SameGrant
<1>4. ASSUME q.fetch # None PROVE MailOK(r)'
  <2>1. PICK f \in Fetches : f = q.fetch /\ Answers(f, q.row, q.since)
    BY <1>1, <1>2, <1>4 DEF RequestOK, MailOK, Answers
  <2>2. Busy(f)'
    BY <2>1 DEF Busy
  <2>3. FetchLives(f)
    BY <2>2, FetchesMove
  <2>4. Answers(f, q.row, q.since)'
    BY <2>1, <2>3 DEF Answers, FetchLives
  <2>5. /\ rows'[q.row].state # "new"
        /\ q.stage # "waiting" => fetches'[f].status = "done"
    BY <1>1, <1>2, <1>4, <2>1, <2>3, RowsAndAccountMove DEF RequestOK, MailOK, FetchLives, Answers
  <2>6. q.current <= IF Read(f)' THEN fetches'[f].forward ELSE account'.forward
    <3>1. q.current <= IF Read(f) THEN fetches[f].forward ELSE account.forward
      BY <1>1, <1>2, <1>4, <2>1 DEF RequestOK, MailOK
    <3>2. q.current \in Nat
      BY <1>1, AccessAssumption DEF RequestRecords
    <3> QED BY <2>1, <2>3, <3>1, <3>2, RowsAndAccountMove DEF FetchLives, Answers
  <2> QED BY <2>1, <2>4, <2>5, <2>6 DEF MailOK, Answers
<1> QED BY <1>1, <1>2, <1>3, <1>4 DEF RequestOK

LEMMA GotoKeeps ==
    ASSUME AccessInv, [Next]_vars, NEW r \in Requests, NEW q \in RequestRecords,
           Goto(r, q), q.stage # "idle" \/ q = Idle, q.stage # "idle" => RequestOK(r)'
    PROVE  RequestsOK'
<1>1. /\ requests' \in [Requests -> RequestRecords] /\ requests'[r] = q
      /\ \A s \in Requests \ {r} : requests'[s] = requests[s]
  BY DEF Goto, AccessInv, AccessTypeOK, RequestsOK
<1>2. RequestOK(r)' /\ (requests'[r].stage = "idle" => requests'[r] = Idle)
  BY <1>1 DEF RequestOK
<1>3. \A s \in Requests \ {r} : RequestOK(s)' /\ (requests'[s].stage = "idle" => requests'[s] = Idle)
  BY <1>1, RequestStill
<1> QED BY <1>1, <1>2, <1>3 DEF RequestsOK

(* The steps of a request that only read.                                   *)
LEMMA ReadsKeep ==
    ASSUME AccessInv, [Next]_vars, NEW r \in Requests,
           ReadGrant(r) \/ ReadInventory(r) \/ ReadAccount(r)
    PROVE  RequestsOK'
<1> DEFINE q == requests[r]
<1>1. PICK stage \in {"inventory", "again", "row"} :
        /\ Goto(r, [q EXCEPT !.stage = stage])
        /\ stage = "inventory" => q.stage = "grant"
        /\ stage = "again" => q.stage = "inventory"
        /\ stage = "row" => q.stage = "account"
        /\ UNCHANGED <<grants, rows, account, fetches>>
  BY DEF ReadGrant, ReadInventory, ReadAccount, AtRest, durable
<1>2. q \in RequestRecords /\ RequestOK(r) /\ q.stage \notin {"idle", "waiting", "send"}
  BY <1>1 DEF AccessInv, AccessTypeOK, RequestsOK
<1> DEFINE p == [q EXCEPT !.stage = stage]
<1>3. /\ p \in RequestRecords /\ p.stage = stage /\ p.kind = q.kind /\ p.grant = q.grant
      /\ p.revision = q.revision /\ p.token = q.token /\ p.row = q.row /\ p.since = q.since
      /\ p.round = q.round /\ p.fetch = q.fetch /\ p.current = q.current
  BY <1>2 DEF RequestRecords, Stages
<1>4. requests'[r] = p
  BY <1>1, <1>2 DEF Goto, AccessInv, AccessTypeOK, RequestsOK
<1> HIDE DEF q, p
<1>5. ASSUME q.kind # "admin" PROVE ReaderOK(r)'
  BY <1>1, <1>2, <1>3, <1>4, <1>5 DEF RequestOK, ReaderOK, Holds, q
<1>6. ASSUME q.fetch # None PROVE MailOK(r)'
  BY <1>1, <1>2, <1>3, <1>4, <1>6 DEF RequestOK, MailOK, Answers, Read, q
<1>7. RequestOK(r)'
  BY <1>1, <1>2, <1>3, <1>4, <1>5, <1>6 DEF RequestOK, q
<1> QED BY <1>1, <1>3, <1>7, GotoKeeps DEF p

(* A login, a session's request and the administrator's begin.              *)
LEMMA BeginsKeep ==
    ASSUME AccessInv, [Next]_vars, NEW r \in Requests,
           \/ \E g \in Grants, n \in 1..MaxRevision : Login(r, g, n)
           \/ \E s \in sessions : Messages(r, s)
           \/ \E i \in Ids : AdminMessages(r, i)
    PROVE  RequestsOK'
<1> USE AccessAssumption DEF AccessInv
<1>0. 0 \in 0..MaxRevision /\ 0 \in 0..3 /\ 1 \in 0..3 /\ 0 \in 0..MaxForward
  OBVIOUS
<1>1. CASE \E i \in Ids : AdminMessages(r, i)
  <2>1. PICK i \in Ids : AdminMessages(r, i)
    BY <1>1
  <2> DEFINE p == [Idle EXCEPT !.stage = "account", !.kind = "admin", !.row = i]
  <2>2. Goto(r, p)
    BY <2>1 DEF AdminMessages
  <2>3. /\ p \in RequestRecords /\ p.stage = "account" /\ p.kind = "admin" /\ p.row = i
        /\ p.round = 0 /\ p.fetch = None
    BY <1>0 DEF Idle, RequestRecords, Stages, Since
  <2> HIDE DEF p
  <2>4. requests'[r] = p
    BY <2>2 DEF Goto, AccessTypeOK, RequestsOK
  <2>5. RequestOK(r)'
    BY <2>3, <2>4 DEF RequestOK
  <2> QED BY <2>2, <2>3, <2>5, GotoKeeps
<1>2. ASSUME NEW g \in Grants, NEW v \in 1..MaxRevision, NEW n \in 1..MaxRevision,
             Holds(g, v, n), UNCHANGED grants,
             NEW p, p.stage = "grant", p.kind \in {"login", "mail"},
             p.round = IF p.kind = "mail" THEN 1 ELSE 0,
             grants[g].row \in Ids => p \in RequestRecords,
             p.grant = g, p.revision = v, p.token = n, p.row = grants[g].row,
             p.fetch = None, Goto(r, p)
      PROVE  RequestsOK'
  <2>1. grants[g] \in GrantRecords
    BY <1>2, GrantInvNext, HoldsOn
  <2>2. grants[g].row \in Ids /\ p \in RequestRecords
    BY <1>2, <2>1 DEF GrantRecords
  <2>3. requests'[r] = p
    BY <1>2 DEF Goto, AccessTypeOK, RequestsOK
  <2>4. ReaderOK(r)'
    BY <1>2, <2>3 DEF ReaderOK, Holds
  <2>5. RequestOK(r)'
    BY <1>2, <2>2, <2>3, <2>4 DEF RequestOK
  <2> QED BY <1>2, <2>2, <2>5, GotoKeeps
<1>3. CASE \E g \in Grants, n \in 1..MaxRevision : Login(r, g, n)
  <2>1. PICK g \in Grants, n \in 1..MaxRevision : Login(r, g, n)
    BY <1>3
  <2>2. grants[g].status = "active" /\ grants[g].token = n /\ UNCHANGED grants
    BY <2>1 DEF Login, AtRest, durable
  <2>3. grants[g].revision \in 1..MaxRevision
    BY <2>2 DEF GrantInv, GrantTypeOK, GrantRecords, NoGrant
  <2>4. PICK v \in 1..MaxRevision : v = grants[g].revision
    BY <2>3
  <2>5. Holds(g, v, n)
    BY <2>2, <2>4 DEF Holds
  <2> DEFINE p == [Idle EXCEPT !.stage = "grant", !.kind = "login", !.grant = g,
                               !.revision = v, !.token = n, !.row = grants[g].row]
  <2>6. Goto(r, p)
    BY <2>1, <2>4 DEF Login
  <2>7. /\ p.stage = "grant" /\ p.kind = "login" /\ p.grant = g /\ p.revision = v
        /\ p.token = n /\ p.row = grants[g].row /\ p.round = 0 /\ p.fetch = None
    BY DEF Idle
  <2>8. ASSUME grants[g].row \in Ids PROVE p \in RequestRecords
    <3>1. v \in 0..MaxRevision /\ n \in 0..MaxRevision
      OBVIOUS
    <3> QED BY <1>0, <2>8, <3>1 DEF Idle, RequestRecords, Stages, Since
  <2> HIDE DEF p
  <2> QED BY <1>2, <2>2, <2>5, <2>6, <2>7, <2>8
<1>4. CASE \E s \in sessions : Messages(r, s)
  <2>1. PICK s \in sessions : Messages(r, s)
    BY <1>4
  <2>2. s \in Sessions /\ Holds(s.grant, s.revision, s.token)
    BY DEF AccessTypeOK, RequestsOK
  <2>3. PICK g \in Grants, v \in 1..MaxRevision, n \in 1..MaxRevision :
            g = s.grant /\ v = s.revision /\ n = s.token
    BY <2>2 DEF Sessions
  <2>4. Holds(g, v, n) /\ UNCHANGED grants
    BY <2>1, <2>2, <2>3 DEF Messages, AtRest, durable
  <2> DEFINE p == [Idle EXCEPT !.stage = "grant", !.kind = "mail", !.grant = g,
                               !.revision = v, !.token = n, !.row = grants[g].row,
                               !.round = 1]
  <2>5. Goto(r, p)
    BY <2>1, <2>3 DEF Messages
  <2>6. /\ p.stage = "grant" /\ p.kind = "mail" /\ p.grant = g /\ p.revision = v
        /\ p.token = n /\ p.row = grants[g].row /\ p.round = 1 /\ p.fetch = None
    BY DEF Idle
  <2>7. ASSUME grants[g].row \in Ids PROVE p \in RequestRecords
    <3>1. v \in 0..MaxRevision /\ n \in 0..MaxRevision
      OBVIOUS
    <3> QED BY <1>0, <2>7, <3>1 DEF Idle, RequestRecords, Stages, Since
  <2> HIDE DEF p
  <2> QED BY <1>2, <2>4, <2>5, <2>6, <2>7
<1> QED BY <1>1, <1>3, <1>4

(* The second look at the grant, where a login ends and a request goes on.  *)
LEMMA SecondLookKeeps ==
    ASSUME AccessInv, [Next]_vars, NEW r \in Requests, ReadGrantAgain(r)
    PROVE  RequestsOK'
<1> DEFINE q == requests[r]
<1>1. q.stage = "again" /\ UNCHANGED <<grants, rows, account, fetches>>
  BY DEF ReadGrantAgain, AtRest, durable
<1>2. q \in RequestRecords /\ RequestOK(r) /\ q.kind # "admin" /\ ReaderOK(r)
  BY <1>1 DEF AccessInv, AccessTypeOK, RequestsOK, RequestOK
<1>3. CASE Goto(r, Idle)
  BY <1>3, IdleIsTyped, GotoKeeps
<1>4. ASSUME NEW p \in RequestRecords, Goto(r, p), q.kind = "mail",
             p.stage \in {"account", "grant", "send"},
             p.stage = "account" => p.round = 1 /\ q.round = 1,
             p.stage = "grant" => p.round = 3 /\ q.round = 2,
             p.stage = "send" => p.round = 3 /\ q.round = 3,
             p.since = grants[q.grant].since,
             q.round > 1 => p.since = q.since,
             p.kind = q.kind, p.grant = q.grant, p.revision = q.revision, p.token = q.token,
             p.row = q.row, p.fetch = q.fetch, p.current = q.current
      PROVE  RequestsOK'
  <2>1. requests'[r] = p
    BY <1>4 DEF Goto, AccessInv, AccessTypeOK, RequestsOK
  <2> HIDE DEF q
  <2>2. ReaderOK(r)'
    BY <1>1, <1>2, <1>4, <2>1 DEF ReaderOK, Holds, q
  <2>3. ASSUME q.fetch # None PROVE MailOK(r)'
    BY <1>1, <1>2, <1>4, <2>1, <2>3 DEF RequestOK, ReaderOK, MailOK, Answers, Read, q
  <2>4. RequestOK(r)'
    BY <1>1, <1>2, <1>4, <2>1, <2>2, <2>3 DEF RequestOK, q
  <2> QED BY <1>4, <2>4, GotoKeeps
<1>5. CASE q.kind = "mail"
  <2>1. /\ q.round \in 1..3 /\ grants[q.grant].since \in Since
        /\ q.round > 1 => q.since = grants[q.grant].since
    <3>1. PICK g, v, n : g = q.grant /\ Holds(g, v, n)
      BY <1>2 DEF ReaderOK
    <3>2. grants[g] \in GrantRecords
      BY <3>1, GrantInvNext, HoldsOn DEF AccessInv
    <3> QED BY <1>2, <1>5, <3>1, <3>2 DEF ReaderOK, GrantRecords
  <2>2. CASE q.round = 1
    <3> DEFINE p == [q EXCEPT !.stage = "account", !.since = grants[q.grant].since]
    <3>1. Goto(r, p)
      BY <1>5, <2>2 DEF ReadGrantAgain
    <3>2. /\ p \in RequestRecords /\ p.stage = "account" /\ p.round = q.round
          /\ p.since = grants[q.grant].since /\ p.kind = q.kind /\ p.grant = q.grant
          /\ p.revision = q.revision /\ p.token = q.token
          /\ p.row = q.row /\ p.fetch = q.fetch /\ p.current = q.current
      BY <1>2, <2>1 DEF RequestRecords, Stages
    <3> HIDE DEF p
    <3> QED BY <1>4, <1>5, <2>1, <2>2, <3>1, <3>2
  <2>3. CASE q.round = 2
    <3> DEFINE p == [q EXCEPT !.stage = "grant", !.round = 3]
    <3>1. Goto(r, p)
      BY <1>5, <2>3 DEF ReadGrantAgain
    <3>2. /\ p \in RequestRecords /\ p.stage = "grant" /\ p.round = 3
          /\ p.since = q.since /\ p.kind = q.kind /\ p.grant = q.grant
          /\ p.revision = q.revision /\ p.token = q.token
          /\ p.row = q.row /\ p.fetch = q.fetch /\ p.current = q.current
      <4>1. 3 \in 0..3
        OBVIOUS
      <4> QED BY <1>2, <4>1 DEF RequestRecords, Stages
    <3> HIDE DEF p
    <3> QED BY <1>4, <1>5, <2>1, <2>3, <3>1, <3>2
  <2>4. CASE q.round = 3
    <3> DEFINE p == [q EXCEPT !.stage = "send"]
    <3>1. Goto(r, p)
      BY <1>5, <2>4 DEF ReadGrantAgain
    <3>2. /\ p \in RequestRecords /\ p.stage = "send" /\ p.round = q.round
          /\ p.since = q.since /\ p.kind = q.kind /\ p.grant = q.grant
          /\ p.revision = q.revision /\ p.token = q.token
          /\ p.row = q.row /\ p.fetch = q.fetch /\ p.current = q.current
      BY <1>2 DEF RequestRecords, Stages
    <3> HIDE DEF p
    <3> QED BY <1>4, <1>5, <2>1, <2>4, <3>1, <3>2
  <2> QED BY <2>1, <2>2, <2>3, <2>4
<1>6. CASE q.kind = "login"
  BY <1>3, <1>6 DEF ReadGrantAgain
<1> QED BY <1>2, <1>5, <1>6 DEF RequestRecords

(* The cached fetch that answers a request, or a new one.                   *)
LEMMA ReadRowKeeps ==
    ASSUME AccessInv, [Next]_vars, NEW r \in Requests, ReadRow(r)
    PROVE  RequestsOK'
<1> DEFINE q == requests[r]
<1> DEFINE k == <<q.row, q.since>>
<1>1. q.stage = "row" /\ Kept(q.row) /\ UNCHANGED <<grants, rows, account, changed>>
  BY DEF ReadRow, AtRest, durable
<1>2. /\ q \in RequestRecords /\ RequestOK(r) /\ q.row \in Ids
      /\ q.kind = "admin" \/ ReaderOK(r)
  BY <1>1 DEF AccessInv, AccessTypeOK, RequestsOK, RequestOK
<1>3. k \in Keys /\ k[1] = q.row /\ k[2] = q.since
  BY <1>2 DEF RequestRecords, Keys
<1>4. SettledForward \in 0..MaxForward /\ account.forward \in Nat
  BY AccessAssumption DEF SettledForward, AccessInv, AccountOK, Accounts
<1>5. ASSUME NEW f \in Fetches,
             Goto(r, [q EXCEPT !.stage = "waiting", !.fetch = f, !.current = SettledForward]),
             fetches'[f].status # "free", fetches'[f].row = q.row, fetches'[f].since = q.since,
             SettledForward <= IF Read(f)' THEN fetches'[f].forward ELSE account.forward
      PROVE  RequestsOK'
  <2> DEFINE p == [q EXCEPT !.stage = "waiting", !.fetch = f, !.current = SettledForward]
  <2>1. /\ p \in RequestRecords /\ p.stage = "waiting" /\ p.kind = q.kind /\ p.grant = q.grant
        /\ p.revision = q.revision /\ p.token = q.token /\ p.row = q.row /\ p.since = q.since
        /\ p.round = q.round /\ p.fetch = f /\ p.current = SettledForward
    BY <1>2, <1>4 DEF RequestRecords, Stages
  <2>2. Goto(r, p)
    BY <1>5
  <2> HIDE DEF p
  <2>3. requests'[r] = p
    BY <2>2 DEF Goto, AccessInv, AccessTypeOK, RequestsOK
  <2>4. f # None
    BY AccessAssumption
  <2> HIDE DEF q
  <2>5. MailOK(r)'
    BY <1>1, <1>5, <2>1, <2>3 DEF MailOK, Answers, Read, Kept
  <2>6. ASSUME q.kind # "admin" PROVE ReaderOK(r)'
    BY <1>1, <1>2, <2>1, <2>3, <2>6 DEF ReaderOK, Holds, q
  <2>7. RequestOK(r)'
    BY <1>1, <1>2, <2>1, <2>3, <2>4, <2>5, <2>6 DEF RequestOK, q
  <2> QED BY <2>1, <2>2, <2>7, GotoKeeps
<1>6. CASE /\ cache[k] # NoEntry
           /\ Goto(r, [q EXCEPT !.stage = "waiting", !.fetch = cache[k].fetch,
                                !.current = SettledForward])
           /\ UNCHANGED <<cache, fetches>>
  <2>1. CacheOK(k) /\ cache[k] \in CacheEntries
    BY <1>3 DEF AccessInv, AccessTypeOK, RequestsOK
  <2>2. PICK f \in Fetches : f = cache[k].fetch /\ Answers(f, q.row, q.since)
    BY <1>3, <1>6, <2>1 DEF CacheOK, Answers
  <2>3. SettledForward <= IF Read(f) THEN fetches[f].forward ELSE account.forward
    <3>1. /\ cache[k].ttl > 0 /\ cache[k].ttl \in Nat
          /\ Read(f) /\ fetches[f].forward < account.forward => cache[k].ttl + changed <= CacheTime
      BY <1>6, <2>1, <2>2 DEF CacheOK, CacheEntries
    <3>2. Read(f) => fetches[f].forward \in Nat
      BY AccessAssumption DEF AccessInv, FetchOK
    <3>3. changed \in Nat /\ CacheTime \in Nat
      BY AccessAssumption DEF AccessInv, AccountOK
    <3> QED BY <1>4, <3>1, <3>2, <3>3 DEF SettledForward
  <2> QED BY <1>1, <1>5, <1>6, <2>2, <2>3 DEF Answers, Read
<1>7. CASE \E f \in Fetches :
             /\ fetches[f] = FreeFetch
             /\ fetches' = [fetches EXCEPT ![f] =
                     [row |-> q.row, since |-> q.since, forward |-> None, status |-> "started"]]
             /\ Goto(r, [q EXCEPT !.stage = "waiting", !.fetch = f, !.current = SettledForward])
  <2>1. PICK f \in Fetches :
             /\ fetches' = [fetches EXCEPT ![f] =
                     [row |-> q.row, since |-> q.since, forward |-> None, status |-> "started"]]
             /\ Goto(r, [q EXCEPT !.stage = "waiting", !.fetch = f, !.current = SettledForward])
    BY <1>7
  <2>2. /\ fetches'[f].row = q.row /\ fetches'[f].since = q.since
        /\ fetches'[f].status = "started"
    BY <2>1 DEF AccessInv, AccessTypeOK, RequestsOK
  <2>3. SettledForward <= account.forward
    BY <1>4 DEF SettledForward
  <2> QED BY <1>5, <2>1, <2>2, <2>3 DEF Answers, Read
<1> QED BY <1>6, <1>7 DEF ReadRow, CacheKey

(* The mail is there.                                                       *)
LEMMA ReceiveKeeps ==
    ASSUME AccessInv, [Next]_vars, NEW r \in Requests, Receive(r)
    PROVE  RequestsOK'
<1> DEFINE q == requests[r]
<1>1. /\ q.stage = "waiting" /\ fetches[q.fetch].status = "done"
      /\ UNCHANGED <<grants, rows, account, fetches>>
  BY DEF Receive, AtRest, durable
<1>2. /\ q \in RequestRecords /\ RequestOK(r) /\ q.fetch # None /\ MailOK(r)
      /\ q.kind = "admin" \/ ReaderOK(r)
  BY <1>1 DEF AccessInv, AccessTypeOK, RequestsOK, RequestOK
<1>3. ASSUME NEW p \in RequestRecords, Goto(r, p),
             IF q.kind = "admin" THEN p.stage = "send" /\ p.round = q.round
                                 ELSE p.stage = "grant" /\ p.round = 2,
             p.kind = q.kind, p.grant = q.grant, p.revision = q.revision, p.token = q.token,
             p.row = q.row, p.since = q.since, p.fetch = q.fetch, p.current = q.current
      PROVE  RequestsOK'
  <2>1. requests'[r] = p
    BY <1>3 DEF Goto, AccessInv, AccessTypeOK, RequestsOK
  <2> HIDE DEF q
  <2>2. MailOK(r)'
    BY <1>1, <1>2, <1>3, <2>1 DEF MailOK, Answers, Read, q
  <2>3. ASSUME q.kind # "admin" PROVE ReaderOK(r)'
    BY <1>1, <1>2, <1>3, <2>1, <2>3 DEF ReaderOK, Holds, q
  <2>4. RequestOK(r)'
    BY <1>1, <1>2, <1>3, <2>1, <2>2, <2>3 DEF RequestOK, q
  <2> QED BY <1>3, <2>4, GotoKeeps
<1>4. CASE q.kind = "admin"
  <2> DEFINE p == [q EXCEPT !.stage = "send"]
  <2>1. Goto(r, p)
    BY <1>4 DEF Receive
  <2>2. /\ p \in RequestRecords /\ p.stage = "send" /\ p.round = q.round
        /\ p.kind = q.kind /\ p.grant = q.grant /\ p.revision = q.revision
        /\ p.token = q.token /\ p.row = q.row /\ p.since = q.since
        /\ p.fetch = q.fetch /\ p.current = q.current
    BY <1>2 DEF RequestRecords, Stages
  <2> HIDE DEF p
  <2> QED BY <1>3, <1>4, <2>1, <2>2
<1>5. CASE q.kind # "admin"
  <2> DEFINE p == [q EXCEPT !.stage = "grant", !.round = 2]
  <2>1. Goto(r, p)
    BY <1>5 DEF Receive
  <2>2. /\ p \in RequestRecords /\ p.stage = "grant" /\ p.round = 2
        /\ p.kind = q.kind /\ p.grant = q.grant /\ p.revision = q.revision
        /\ p.token = q.token /\ p.row = q.row /\ p.since = q.since
        /\ p.fetch = q.fetch /\ p.current = q.current
    <3>1. 2 \in 0..3
      OBVIOUS
    <3> QED BY <1>2, <3>1 DEF RequestRecords, Stages
  <2> HIDE DEF p
  <2> QED BY <1>3, <1>5, <2>1, <2>2
<1> QED BY <1>4, <1>5

(* No step breaks what holds of the requests.                               *)
LEMMA RequestsKept ==
    ASSUME AccessInv, [Next]_vars
    PROVE  RequestsOK'
<1>1. CASE UNCHANGED requests
  BY <1>1, RequestStill DEF AccessInv, AccessTypeOK, RequestsOK
<1>2. CASE \E f \in Fetches :
            requests' = [r \in Requests |-> IF requests[r].fetch = f THEN Idle ELSE requests[r]]
  <2>1. requests' \in [Requests -> RequestRecords]
        /\ \A s \in Requests : requests'[s] = Idle \/ requests'[s] = requests[s]
    BY <1>2, IdleIsTyped DEF AccessInv, AccessTypeOK, RequestsOK
  <2>2. \A s \in Requests : requests'[s] = Idle => RequestOK(s)'
    BY IdleIsTyped DEF RequestOK
  <2> QED BY <2>1, <2>2, RequestStill DEF RequestsOK
<1>3. CASE requests' = [r \in Requests |-> Idle]
  BY <1>3, IdleIsTyped DEF RequestOK, RequestsOK
<1>4. ASSUME NEW r \in Requests, Goto(r, Idle) PROVE RequestsOK'
  BY <1>4, IdleIsTyped, GotoKeeps
<1>5. ASSUME NEW r \in Requests, Request(r) PROVE RequestsOK'
  <2>1. CASE Send(r) \/ Refuse(r)
    BY <1>4, <2>1 DEF Send, Refuse, End
  <2> QED BY <1>5, <2>1, BeginsKeep, ReadsKeep, SecondLookKeeps, ReadRowKeeps, ReceiveKeeps DEF Request
<1>6. \/ UNCHANGED requests
      \/ \E f \in Fetches :
            requests' = [r \in Requests |-> IF requests[r].fetch = f THEN Idle ELSE requests[r]]
      \/ requests' = [r \in Requests |-> Idle]
      \/ \E r \in Requests : Request(r)
  BY DEF Next, Inventory, AddRow, HideRow, ShowRow, memory, vars, durable, AtRest,
        Sharing, DistributeRead, Distribute, DistributeRefused, Revoke, Reset, UpdateGrant,
        Change, Settings, Configure, ConfigureWrite, ConfigureFails, Fetch, FetchConfig,
        FetchDone, FetchFails, DropSession, Evict, Tick, Restart
<1> QED BY <1>1, <1>2, <1>3, <1>5, <1>6

(* A cache entry grows older, is replaced or goes.                          *)
LEMMA EntryStill ==
    ASSUME AccessInv, [Next]_vars, ~Tick, NEW k \in Keys, cache'[k] = cache[k]
    PROVE  CacheOK(k)'
<1> SUFFICES ASSUME cache[k] # NoEntry PROVE CacheOK(k)'
  BY DEF CacheOK
<1>1. /\ CacheOK(k) /\ k[1] \in Ids
      /\ cache[k].ttl \in 0..CacheTime /\ CacheTime \in Nat /\ changed \in Nat
  BY AccessAssumption DEF AccessInv, AccessTypeOK, RequestsOK, CacheEntries, Keys, AccountOK
<1>2. PICK f \in Fetches : f = cache[k].fetch /\ Answers(f, k[1], k[2])
  BY <1>1 DEF CacheOK, Answers
<1>3. FetchLives(f) /\ fetches[f].status # "free"
  <2>1. Busy(f)'
    BY <1>2 DEF Busy
  <2> QED BY <1>2, <2>1, FetchesMove DEF Answers
<1>4. Answers(f, k[1], k[2])'
  BY <1>2, <1>3 DEF Answers, FetchLives
<1>5. rows'[k[1]].state # "new"
  BY <1>1, RowsAndAccountMove DEF CacheOK
<1>6. Read(f)' /\ fetches'[f].forward < account'.forward => cache[k].ttl + changed' <= CacheTime
  <2>1. Read(f) /\ fetches[f].forward < account.forward => cache[k].ttl + changed <= CacheTime
    BY <1>1, <1>2 DEF CacheOK
  <2>2. account'.forward = account.forward \/ changed' = 0
    BY RowsAndAccountMove
  <2>3. CASE changed' = 0
    BY <1>1, <2>3
  <2>4. CASE account'.forward = account.forward /\ changed' = changed
    BY <1>3, <2>1, <2>4, RowsAndAccountMove DEF FetchLives
  <2> QED BY <2>2, <2>3, <2>4, RowsAndAccountMove
<1> QED BY <1>1, <1>2, <1>4, <1>5, <1>6 DEF CacheOK, Answers, Read

LEMMA EntryAges ==
    ASSUME AccessInv, [Next]_vars, Tick, NEW k \in Keys
    PROVE  cache'[k] \in CacheEntries /\ CacheOK(k)'
<1>1. /\ CacheOK(k) /\ k[1] \in Ids /\ cache[k] \in CacheEntries
      /\ cache[k].ttl \in 0..CacheTime /\ CacheTime \in Nat /\ changed \in 0..CacheTime
      /\ NoEntry \in CacheEntries
  BY AccessAssumption, IdleIsTyped DEF AccessInv, AccessTypeOK, RequestsOK, CacheEntries, Keys, AccountOK
<1>2. /\ cache'[k] = IF cache[k].ttl <= 1 THEN NoEntry ELSE [cache[k] EXCEPT !.ttl = @ - 1]
      /\ changed' = IF changed = CacheTime THEN changed ELSE changed + 1
      /\ UNCHANGED <<rows, account>>
  BY DEF Tick, CacheAges
<1>3. CASE cache[k].ttl <= 1
  BY <1>1, <1>2, <1>3 DEF CacheOK
<1>4. CASE cache[k].ttl > 1
  <2>1. /\ cache'[k] \in CacheEntries /\ cache'[k].fetch = cache[k].fetch
        /\ cache'[k].ttl = cache[k].ttl - 1
    <3>1. cache[k].ttl - 1 \in 0..CacheTime
      BY <1>1, <1>4
    <3>2. ~(cache[k].ttl <= 1)
      BY <1>1, <1>4
    <3> QED BY <1>1, <1>2, <3>1, <3>2 DEF CacheEntries
  <2>2. cache[k] # NoEntry
    BY <1>4 DEF NoEntry
  <2>3. PICK f \in Fetches : f = cache[k].fetch /\ Answers(f, k[1], k[2])
    BY <1>1, <2>2 DEF CacheOK, Answers
  <2>4. FetchLives(f) /\ fetches[f].status # "free"
    <3>1. Busy(f)'
      BY <2>1, <2>3 DEF Busy
    <3> QED BY <2>3, <3>1, FetchesMove DEF Answers
  <2>5. Read(f) /\ fetches[f].forward < account.forward => cache[k].ttl + changed <= CacheTime
    BY <1>1, <2>2, <2>3 DEF CacheOK
  <2>6. Read(f)' /\ fetches'[f].forward < account'.forward => cache'[k].ttl + changed' <= CacheTime
    <3>1. ASSUME Read(f)', fetches'[f].forward < account'.forward
          PROVE  cache[k].ttl + changed <= CacheTime
      BY <1>2, <2>4, <2>5, <3>1, RowsAndAccountMove DEF FetchLives
    <3> QED BY <1>1, <1>2, <1>4, <2>1, <3>1
  <2>7. Answers(f, k[1], k[2])'
    BY <2>3, <2>4 DEF Answers, FetchLives
  <2>8. cache'[k].ttl > 0 /\ rows'[k[1]].state # "new"
    BY <1>1, <1>2, <1>4, <2>1, <2>2 DEF CacheOK
  <2>9. cache'[k].fetch = f
    BY <2>1, <2>3
  <2> QED BY <2>1, <2>6, <2>7, <2>8, <2>9 DEF CacheOK, Answers, Read
<1> QED BY <1>1, <1>3, <1>4

LEMMA CacheKept ==
    ASSUME AccessInv, [Next]_vars
    PROVE  cache' \in [Keys -> CacheEntries] /\ \A k \in Keys : CacheOK(k)'
<1> USE DEF AccessInv, AccessTypeOK, RequestsOK
<1>1. CASE Tick
  <2>1. cache' = [k \in Keys |-> cache'[k]]
    BY <1>1 DEF Tick, CacheAges
  <2> QED BY <1>1, <2>1, EntryAges
<1>2. ASSUME ~Tick, cache' \in [Keys -> CacheEntries],
             \A k \in Keys : cache'[k] \in {cache[k], NoEntry}
      PROVE  \A k \in Keys : CacheOK(k)'
  <2>1. \A k \in Keys : cache'[k] = NoEntry => CacheOK(k)'
    BY DEF CacheOK
  <2> QED BY <1>2, <2>1, EntryStill
<1>3. CASE ~Tick /\ \/ UNCHANGED cache
                    \/ cache' = [k \in Keys |-> NoEntry]
                    \/ \E k : cache' = [cache EXCEPT ![k] = NoEntry]
  BY <1>2, <1>3, IdleIsTyped
<1>4. ASSUME ~Tick, NEW r \in Requests, ReadRow(r)
      PROVE  cache' \in [Keys -> CacheEntries] /\ \A k \in Keys : CacheOK(k)'
  <2> DEFINE q == requests[r]
  <2> DEFINE c == <<q.row, q.since>>
  <2>1. CASE UNCHANGED cache
    BY <1>3, <1>4, <2>1
  <2>2. CASE \E f \in Fetches :
             /\ fetches' = [fetches EXCEPT ![f] =
                     [row |-> q.row, since |-> q.since, forward |-> None, status |-> "started"]]
             /\ cache' = [cache EXCEPT ![c] = [fetch |-> f, ttl |-> CacheTime]]
    <3>1. PICK f \in Fetches :
             /\ fetches' = [fetches EXCEPT ![f] =
                     [row |-> q.row, since |-> q.since, forward |-> None, status |-> "started"]]
             /\ cache' = [cache EXCEPT ![c] = [fetch |-> f, ttl |-> CacheTime]]
      BY <2>2
    <3>2. PICK k \in Keys : k = c /\ k[1] = q.row /\ k[2] = q.since
      <4>1. q.row \in Ids /\ q.since \in Since
        BY <1>4 DEF ReadRow, RequestOK, RequestRecords
      <4>2. c \in Keys /\ c[1] = q.row /\ c[2] = q.since
        BY <4>1 DEF Keys
      <4> HIDE DEF c
      <4> QED BY <4>2
    <3>3. /\ fetches'[f].row = q.row /\ fetches'[f].since = q.since
          /\ fetches'[f].status = "started"
      BY <3>1
    <3>4. CacheTime \in 0..CacheTime /\ CacheTime > 0
      BY AccessAssumption
    <3>5. /\ cache' \in [Keys -> CacheEntries] /\ cache'[k].fetch = f /\ cache'[k].ttl = CacheTime
          /\ \A l \in Keys \ {k} : cache'[l] = cache[l]
      BY <3>1, <3>2, <3>4 DEF CacheEntries
    <3>6. rows'[q.row].state # "new"
      BY <1>4 DEF ReadRow, Kept, AtRest, durable
    <3> HIDE DEF q, c
    <3>7. CacheOK(k)'
      BY <3>2, <3>3, <3>4, <3>5, <3>6 DEF CacheOK, Answers, Read
    <3> QED BY <1>4, <3>5, <3>7, EntryStill
  <2> QED BY <1>4, <2>1, <2>2 DEF ReadRow, CacheKey
<1>5. \/ Tick \/ UNCHANGED cache
      \/ cache' = [k \in Keys |-> NoEntry] \/ \E k : cache' = [cache EXCEPT ![k] = NoEntry]
      \/ \E r \in Requests : ReadRow(r)
  BY DEF Next, Inventory, AddRow, HideRow, ShowRow, memory, vars, durable, AtRest,
        Sharing, DistributeRead, Distribute, DistributeRefused, Revoke, Reset, UpdateGrant,
        Change, Settings, Configure, ConfigureWrite, ConfigureFails, Fetch, FetchConfig,
        FetchDone, FetchFails, DropSession, Evict, Restart, Request, Login, Messages,
        AdminMessages, ReadGrant, ReadInventory, ReadGrantAgain, ReadAccount, Receive, Send,
        Refuse, End
<1> QED BY <1>1, <1>3, <1>4, <1>5

(* Sessions come from logins only.                                          *)
LEMMA SessionsKept ==
    ASSUME AccessInv, [Next]_vars
    PROVE  sessions' \subseteq Sessions /\ \A s \in sessions' : Holds(s.grant, s.revision, s.token)'
<1>1. ASSUME NEW s \in sessions
      PROVE  s \in Sessions /\ Holds(s.grant, s.revision, s.token)'
  <2>1. PICK g, v, n : g = s.grant /\ v = s.revision /\ n = s.token /\ Holds(g, v, n)
    BY DEF AccessInv
  <2>2. Holds(g, v, n)'
    BY <2>1, GrantInvNext, HoldsOn DEF AccessInv
  <2> QED BY <2>1, <2>2 DEF AccessInv, AccessTypeOK, RequestsOK
<1>2. ASSUME NEW r \in Requests, ReadGrantAgain(r), sessions' # sessions
      PROVE  /\ sessions' \subseteq Sessions
             /\ \A s \in sessions' : Holds(s.grant, s.revision, s.token)'
  <2> DEFINE q == requests[r]
  <2>1. /\ q.stage = "again" /\ q.kind = "login"
        /\ sessions' = sessions \cup
              {[grant |-> q.grant, revision |-> q.revision, token |-> q.token]}
    BY <1>2 DEF ReadGrantAgain
  <2>2. PICK g, v, n : g = q.grant /\ v = q.revision /\ n = q.token /\ Holds(g, v, n)
    BY <2>1 DEF AccessInv, RequestsOK, RequestOK, ReaderOK
  <2>3. Holds(g, v, n)'
    BY <2>2, GrantInvNext, HoldsOn DEF AccessInv
  <2>4. PICK new : new = [grant |-> g, revision |-> v, token |-> n]
    OBVIOUS
  <2>5. new \in Sessions /\ Holds(new.grant, new.revision, new.token)'
    BY <2>2, <2>3, <2>4 DEF Holds, Sessions
  <2>6. sessions' = sessions \cup {new}
    BY <2>1, <2>2, <2>4
  <2> QED BY <1>1, <2>5, <2>6
<1>3. \/ sessions' \subseteq sessions
      \/ \E r \in Requests : ReadGrantAgain(r) /\ sessions' # sessions
  BY DEF Next, Inventory, AddRow, HideRow, ShowRow, memory, vars, durable, AtRest,
        Sharing, DistributeRead, Distribute, DistributeRefused, Revoke, Reset, UpdateGrant,
        Change, Settings, Configure, ConfigureWrite, ConfigureFails, Fetch, FetchConfig,
        FetchDone, FetchFails, DropSession, Evict, Tick, Restart, Request, Login, Messages,
        AdminMessages, ReadGrant, ReadInventory, ReadAccount, ReadRow, Receive, Send,
        Refuse, End
<1> QED BY <1>1, <1>2, <1>3

(* The mail of a row that is not listed waits, and is never sent.           *)
LEMMA UnlistedKept ==
    ASSUME AccessInv, [Next]_vars
    PROVE  unlisted' \subseteq Requests /\ \A r \in unlisted' : UnlistedOK(r)'
<1> USE DEF AccessInv, AccessTypeOK, RequestsOK
<1>0. ASSUME NEW r \in unlisted
      PROVE  /\ r \in Requests /\ requests[r].row \in Ids
             /\ requests[r].stage \in {"grant", "inventory", "send"}
             /\ requests[r].fetch \in Fetches
             /\ fetches[requests[r].fetch].status = "done"
             /\ rows[requests[r].row].state = "hidden"
  BY DEF UnlistedOK, RequestOK, MailOK, Answers
<1>1. CASE Inventory
  <2>1. /\ UNCHANGED requests
        /\ \A r \in unlisted' : r \in unlisted /\ rows'[requests[r].row].state = "hidden"
    <3>1. ASSUME NEW i \in Ids, NEW e \in Emails, AddRow(i, e)
          PROVE  /\ UNCHANGED requests
                 /\ \A r \in unlisted' :
                        r \in unlisted /\ rows'[requests[r].row].state = "hidden"
      BY <1>0, <3>1 DEF AddRow, memory, GrantInv, GrantTypeOK
    <3>2. ASSUME NEW i \in Ids, HideRow(i) \/ ShowRow(i)
          PROVE  /\ UNCHANGED requests
                 /\ \A r \in unlisted' :
                        r \in unlisted /\ rows'[requests[r].row].state = "hidden"
      BY <1>0, <3>2 DEF HideRow, ShowRow, Listed, memory, GrantInv, GrantTypeOK, Rows
    <3> QED BY <1>1, <3>1, <3>2 DEF Inventory
  <2> QED BY <2>1 DEF UnlistedOK
<1>2. CASE UNCHANGED <<rows, requests, unlisted>>
  BY <1>2 DEF UnlistedOK
<1>3. CASE Restart
  BY <1>3 DEF Restart
<1>4. ASSUME NEW f \in Fetches, FetchFails(f)
      PROVE  unlisted' \subseteq Requests /\ \A r \in unlisted' : UnlistedOK(r)'
  <2>1. /\ fetches[f].status # "done" /\ UNCHANGED <<rows, unlisted>>
        /\ \A r \in Requests : requests[r].fetch # f => requests'[r] = requests[r]
    BY <1>4 DEF FetchFails, durable
  <2>2. \A r \in unlisted : requests'[r] = requests[r]
    BY <1>0, <2>1
  <2> QED BY <2>1, <2>2 DEF UnlistedOK
<1>5. ASSUME NEW r \in Requests, Request(r)
      PROVE  unlisted' \subseteq Requests /\ \A s \in unlisted' : UnlistedOK(s)'
  <2>1. /\ UNCHANGED rows /\ unlisted' \subseteq unlisted \cup {r}
        /\ \A s \in Requests \ {r} : requests'[s] = requests[s]
    BY <1>5
    DEF Request, Login, Messages, AdminMessages, ReadGrant, ReadInventory, ReadGrantAgain,
        ReadAccount, ReadRow, Receive, Send, Refuse, End, Goto, AtRest, durable
  <2>2. ASSUME r \in unlisted' PROVE UnlistedOK(r)'
    <3>1. CASE Receive(r)
      <4> DEFINE q == requests[r]
      <4>1. /\ q \in RequestRecords /\ q.stage = "waiting" /\ q.fetch # None
            /\ q.row \in Ids /\ rows[q.row].state # "new"
        BY <3>1 DEF Receive, RequestOK, MailOK
      <4>2. r \notin unlisted /\ ~Listed(q.row)
        BY <1>0, <2>2, <3>1, <4>1 DEF Receive
      <4>3. rows[q.row].state = "hidden"
        BY <4>1, <4>2 DEF Listed, GrantInv, GrantTypeOK, Rows
      <4>4. /\ requests'[r].stage \in {"grant", "send"} /\ requests'[r].fetch = q.fetch
            /\ requests'[r].row = q.row
        BY <3>1, <4>1 DEF Receive, Goto, RequestRecords
      <4> QED BY <2>1, <4>1, <4>3, <4>4 DEF UnlistedOK
    <3>2. CASE ReadGrant(r)
      <4>1. r \in unlisted /\ UNCHANGED rows
        BY <2>2, <3>2 DEF ReadGrant, AtRest, durable
      <4>2. /\ requests'[r].stage = "inventory" /\ requests'[r].fetch = requests[r].fetch
            /\ requests'[r].row = requests[r].row
        BY <3>2 DEF ReadGrant, Goto, RequestRecords
      <4> QED BY <4>1, <4>2 DEF UnlistedOK
    <3>3. CASE Send(r) \/ Refuse(r)
      BY <2>2, <3>3 DEF Send, Refuse, End
    <3>4. CASE \/ \E g \in Grants, n \in 1..MaxRevision : Login(r, g, n)
               \/ \E s \in sessions : Messages(r, s)
               \/ \E i \in Ids : AdminMessages(r, i)
               \/ ReadInventory(r) \/ ReadGrantAgain(r) \/ ReadAccount(r) \/ ReadRow(r)
      <4>1. unlisted' = unlisted /\ \/ requests[r].stage \in {"idle", "again", "account", "row"}
                                    \/ rows[requests[r].row].state = "listed"
        BY <3>4
        DEF Login, Messages, AdminMessages, ReadInventory, ReadGrantAgain, ReadAccount,
            ReadRow, Listed
      <4> QED BY <1>0, <2>2, <4>1
    <3> QED BY <1>5, <3>1, <3>2, <3>3, <3>4 DEF Request
  <2>3. ASSUME NEW s \in unlisted', s # r PROVE UnlistedOK(s)'
    BY <2>1, <2>3 DEF UnlistedOK
  <2> QED BY <2>1, <2>2, <2>3
<1>6. \/ Inventory \/ Restart \/ UNCHANGED <<rows, requests, unlisted>>
      \/ \E f \in Fetches : FetchFails(f)
      \/ \E r \in Requests : Request(r)
  BY DEF Next, memory, vars, durable,
        Sharing, DistributeRead, Distribute, DistributeRefused, Revoke, Reset, UpdateGrant,
        Change, Settings, Configure, ConfigureWrite, ConfigureFails, Fetch, FetchConfig,
        FetchDone, DropSession, Evict, Tick
<1> QED BY <1>1, <1>2, <1>3, <1>4, <1>5, <1>6

LEMMA AccessInvariant == Spec => []AccessInv
<1>1. ASSUME AccessInv, [Next]_vars PROVE AccessInv'
  <2>1. GrantInv'
    BY <1>1, GrantInvNext DEF AccessInv
  <2>2. AccountOK'
    BY <1>1, RowsAndAccountMove
  <2>3. fetches' \in [Fetches -> FetchRecords] /\ \A f \in Fetches : FetchOK(f)'
    BY <1>1, FetchesMove
  <2>4. RequestsOK'
    BY <1>1, RequestsKept
  <2>5. cache' \in [Keys -> CacheEntries] /\ \A k \in Keys : CacheOK(k)'
    BY <1>1, CacheKept
  <2>6. sessions' \subseteq Sessions /\ \A s \in sessions' : Holds(s.grant, s.revision, s.token)'
    BY <1>1, SessionsKept
  <2>7. unlisted' \subseteq Requests /\ \A r \in unlisted' : UnlistedOK(r)'
    BY <1>1, UnlistedKept
  <2> QED BY <2>1, <2>2, <2>3, <2>4, <2>5, <2>6, <2>7
         DEF AccessInv, AccessTypeOK, RequestsOK
<1> QED BY AccessInvInit, <1>1, PTL DEF Spec

-----------------------------------------------------------------------------
(* The type invariant: a grant has a token exactly while it is active, and  *)
(* grants, sessions, cache, fetches and requests keep their shape through   *)
(* every overlap of edits, requests and restarts (state.mjs, platform.mjs). *)
THEOREM AccessTypes == Spec => []TypeOK
<1>1. AccessInv => TypeOK
  BY DEF AccessInv, GrantInv, GrantTypeOK, AccountOK, AccessTypeOK, RequestsOK, TypeOK
<1> QED BY <1>1, AccessInvariant, PTL

(* A session that a check can still accept was exchanged for the token in   *)
(* force, whatever login overlapped a revocation or a reset                 *)
(* (authorizeGrant, checkGrant, changeGrant).                               *)
THEOREM SessionsAlwaysHoldTheToken == Spec => []SessionsHoldTheToken
<1>1. AccessInv => SessionsHoldTheToken
  BY DEF AccessInv, Holds, SessionsHoldTheToken
<1> QED BY <1>1, AccessInvariant, PTL

(* Mail is released in two places: to the administrator when the fetch is   *)
(* done, to a reader by the third check of the grant.                       *)
LEMMA ReleaseSteps ==
    ASSUME AccessInv, [Next]_vars, NEW r \in Requests, Releases(r)
    PROVE  /\ \/ Receive(r) /\ requests[r].kind = "admin"
              \/ ReadGrantAgain(r) /\ requests[r].kind = "mail" /\ requests[r].round = 3
           /\ requests[r].fetch \in Fetches /\ MailOK(r)
           /\ fetches[requests[r].fetch].status = "done"
           /\ requests[r].kind = "mail" => ReaderOK(r)
<1> DEFINE q == requests[r]
<1>1. /\ q \in RequestRecords /\ RequestOK(r) /\ q.stage # "send" /\ requests'[r].stage = "send"
      /\ requests' # requests
  BY DEF AccessInv, AccessTypeOK, RequestsOK, Releases
<1>2. ASSUME NEW s \in Requests, Request(s) PROVE s = r
  <2>1. \A t \in Requests \ {s} : requests'[t] = requests[t]
    BY <1>2
    DEF Request, Login, Messages, AdminMessages, ReadGrant, ReadInventory, ReadGrantAgain,
        ReadAccount, ReadRow, Receive, Send, Refuse, End, Goto, AccessInv, AccessTypeOK, RequestsOK
  <2> QED BY <1>1, <2>1
<1>3. Request(r)
  <2>1. \/ UNCHANGED requests
        \/ \E f \in Fetches :
                requests' = [s \in Requests |-> IF requests[s].fetch = f THEN Idle ELSE requests[s]]
        \/ requests' = [s \in Requests |-> Idle]
        \/ \E s \in Requests : Request(s)
    BY DEF Next, Inventory, AddRow, HideRow, ShowRow, memory, vars, durable, AtRest,
        Sharing, DistributeRead, Distribute, DistributeRefused, Revoke, Reset, UpdateGrant,
        Change, Settings, Configure, ConfigureWrite, ConfigureFails, Fetch, FetchConfig,
        FetchDone, FetchFails, DropSession, Evict, Tick, Restart
  <2> QED BY <1>1, <1>2, <2>1, IdleIsTyped
<1>4. \/ Receive(r) /\ q.kind = "admin"
      \/ ReadGrantAgain(r) /\ q.kind = "mail" /\ q.round = 3
  <2>1. CASE ReadGrantAgain(r)
    <3>1. q.stage = "again" /\ q.kind # "admin" /\ ReaderOK(r)
      BY <1>1, <2>1 DEF ReadGrantAgain, RequestOK
    <3>2. q.kind = "mail" /\ q.round \in 1..3
      BY <1>1, <2>1, <3>1, IdleIsTyped
      DEF ReadGrantAgain, Goto, AccessInv, AccessTypeOK, RequestsOK, ReaderOK, RequestRecords
    <3>3. ASSUME q.round = 1 PROVE FALSE
      <4>1. requests' = [requests EXCEPT ![r] = [q EXCEPT !.stage = "account",
                                                         !.since = grants[q.grant].since]]
        BY <2>1, <3>2, <3>3 DEF ReadGrantAgain, Goto
      <4>2. requests'[r].stage = "account"
        BY <1>1, <4>1 DEF AccessInv, AccessTypeOK, RequestsOK, RequestRecords
      <4> QED BY <1>1, <4>2
    <3>4. ASSUME q.round = 2 PROVE FALSE
      <4>1. requests' = [requests EXCEPT ![r] = [q EXCEPT !.stage = "grant", !.round = 3]]
        BY <2>1, <3>2, <3>4 DEF ReadGrantAgain, Goto
      <4>2. requests'[r].stage = "grant"
        BY <1>1, <4>1 DEF AccessInv, AccessTypeOK, RequestsOK, RequestRecords
      <4> QED BY <1>1, <4>2
    <3>5. q.round = 3
      BY <3>2, <3>3, <3>4
    <3> QED BY <2>1, <3>2, <3>5
  <2>2. CASE Receive(r)
    BY <1>1, <2>2 DEF Receive, Goto, AccessInv, AccessTypeOK, RequestsOK, RequestRecords
  <2>3. CASE \/ \E g \in Grants, n \in 1..MaxRevision : Login(r, g, n)
             \/ \E s \in sessions : Messages(r, s)
             \/ \E i \in Ids : AdminMessages(r, i)
    <3>1. ASSUME NEW p, Goto(r, p), p.stage # "send" PROVE FALSE
      BY <1>1, <3>1 DEF Goto, AccessInv, AccessTypeOK, RequestsOK
    <3>2. ASSUME NEW g \in Grants, NEW n \in 1..MaxRevision, Login(r, g, n) PROVE FALSE
      BY <3>1, <3>2 DEF Login, Idle
    <3>3. ASSUME NEW s \in sessions, Messages(r, s) PROVE FALSE
      BY <3>1, <3>3 DEF Messages, Idle
    <3>4. ASSUME NEW i \in Ids, AdminMessages(r, i) PROVE FALSE
      BY <3>1, <3>4 DEF AdminMessages, Idle
    <3> QED BY <2>3, <3>2, <3>3, <3>4
  <2>4. CASE ReadGrant(r) \/ ReadInventory(r) \/ ReadAccount(r)
    <3>1. PICK stage \in {"inventory", "again", "row"} :
            requests' = [requests EXCEPT ![r] = [q EXCEPT !.stage = stage]]
      BY <2>4 DEF ReadGrant, ReadInventory, ReadAccount, Goto
    <3>2. requests'[r].stage = stage
      BY <1>1, <3>1 DEF AccessInv, AccessTypeOK, RequestsOK, RequestRecords
    <3> QED BY <1>1, <3>2
  <2>5. CASE ReadRow(r)
    <3>1. PICK f : requests' = [requests EXCEPT ![r] =
                        [q EXCEPT !.stage = "waiting", !.fetch = f, !.current = SettledForward]]
      BY <2>5 DEF ReadRow, Goto
    <3>2. requests'[r].stage = "waiting"
      BY <1>1, <3>1 DEF AccessInv, AccessTypeOK, RequestsOK, RequestRecords
    <3> QED BY <1>1, <3>2
  <2>6. CASE Send(r) \/ Refuse(r)
    BY <1>1, <2>6, IdleIsTyped DEF Send, Refuse, End, Goto, AccessInv, AccessTypeOK, RequestsOK
  <2> QED BY <1>3, <2>1, <2>2, <2>3, <2>4, <2>5, <2>6 DEF Request
<1>5. q.fetch # None /\ q.stage \in {"again", "waiting"}
  BY <1>1, <1>4 DEF Receive, ReadGrantAgain, RequestOK
<1>6. /\ MailOK(r) /\ q.fetch \in Fetches
      /\ q.kind = "mail" => ReaderOK(r)
      /\ q.stage = "again" => fetches[q.fetch].status = "done"
  BY <1>1, <1>5 DEF RequestOK, MailOK, Answers
<1>7. fetches[q.fetch].status = "done"
  BY <1>4, <1>6 DEF Receive, ReadGrantAgain
<1> QED BY <1>4, <1>6, <1>7

(* A revocation, a reset, a deadline, a pause or a deactivation in a slow   *)
(* fetch is effective: mail goes to a reader only by a step that sees the   *)
(* grant in force, and its row listed at some time since the mail came back *)
(* (checkGrant before and after messages).                                  *)
THEOREM ReleasesAreAllowed == Spec => ReleasedOnlyWhileAllowed
<1>1. ASSUME AccessInv, [Next]_vars, NEW r \in Requests, ReleasedTo("mail", r)
      PROVE  Allowed(requests[r].grant, requests[r].revision) /\ r \notin unlisted'
  <2>1. ReadGrantAgain(r)
    BY <1>1, ReleaseSteps DEF ReleasedTo
  <2>2. requests[r].stage = "again" /\ unlisted' = unlisted
    BY <2>1 DEF ReadGrantAgain
  <2> QED BY <1>1, <2>1, <2>2 DEF ReadGrantAgain, AccessInv, UnlistedOK
<1>2. AccessInv /\ [Next]_vars =>
        [\A r \in Requests : ReleasedTo("mail", r) =>
            /\ Allowed(requests[r].grant, requests[r].revision)
            /\ r \notin unlisted']_vars
  BY <1>1
<1> QED BY AccessInvariant, <1>2, PTL DEF Spec, ReleasedOnlyWhileAllowed

(* A reader gets the mail of the granted row from the time the grant allows *)
(* on, whoever's fetch is in the cache and however often the grant was      *)
(* changed (the cache key of messages).                                     *)
THEOREM OnlyGrantedMailIsReleased == Spec => OnlyGrantedMail
<1>1. ASSUME AccessInv, [Next]_vars, NEW r \in Requests, ReleasedTo("mail", r)
      PROVE  /\ fetches[requests[r].fetch].row = grants[requests[r].grant].row
             /\ fetches[requests[r].fetch].since = grants[requests[r].grant].since
  <2>1. /\ requests[r].kind = "mail" /\ requests[r].round = 3
        /\ MailOK(r) /\ ReaderOK(r)
    BY <1>1, ReleaseSteps DEF ReleasedTo, Receive
  <2> QED BY <2>1 DEF MailOK, ReaderOK, Answers
<1>2. AccessInv /\ [Next]_vars =>
        [\A r \in Requests : ReleasedTo("mail", r) =>
            LET f == fetches[requests[r].fetch]
                g == grants[requests[r].grant]
            IN  f.row = g.row /\ f.since = g.since]_vars
  BY <1>1
<1> QED BY AccessInvariant, <1>2, PTL DEF Spec, OnlyGrantedMail

(* Once a new forwarding mailbox has been in place for the lifetime of a    *)
(* cache entry, nothing is answered from the old one, however the update    *)
(* and the fetches overlapped (updateAccount, messages).                    *)
THEOREM MailIsFromCurrentMailbox == Spec => MailFromCurrentMailbox
<1>1. ASSUME AccessInv, [Next]_vars, NEW r \in Requests, Releases(r)
      PROVE  fetches[requests[r].fetch].forward >= requests[r].current
  <2>1. /\ requests[r].fetch \in Fetches /\ MailOK(r)
        /\ fetches[requests[r].fetch].status = "done"
    BY <1>1, ReleaseSteps
  <2>2. requests[r].current <= fetches[requests[r].fetch].forward
    BY <2>1 DEF MailOK, Read
  <2>3. requests[r].current \in Nat /\ fetches[requests[r].fetch].forward \in Nat
    BY <1>1, <2>1, AccessAssumption
    DEF AccessInv, AccessTypeOK, RequestsOK, RequestRecords, FetchOK, Read
  <2> QED BY <2>2, <2>3
<1>2. AccessInv /\ [Next]_vars =>
        [\A r \in Requests : Releases(r) =>
            fetches[requests[r].fetch].forward >= requests[r].current]_vars
  BY <1>1
<1> QED BY AccessInvariant, <1>2, PTL DEF Spec, MailFromCurrentMailbox

=============================================================================
