----------------------------- MODULE MailAccess -----------------------------
(***************************************************************************)
(* How the hosted edition lets other people read the mail of single hidden *)
(* addresses: the grants of HostedPlatform (lib/hosted/platform.mjs), the  *)
(* mailbox sessions of hosted.mjs, and the path of a request from its      *)
(* session to the forwarding mailbox and back.                             *)
(*                                                                         *)
(* The platform state and the inventory are two files, a request awaits    *)
(* one read of either after another and an IMAP fetch between them, and    *)
(* anything can change while it waits.  So each await is a step here.      *)
(* Mutations of the platform state run one at a time and commit with their *)
(* rename; only the one that changes the account touches anything before   *)
(* that (the mail cache), and is opened up.                                *)
(*                                                                         *)
(* One account is modelled: its id is a prefix of the cache key and the    *)
(* choice of the mailbox reader.  Times are what is left of them, in units *)
(* of the cache's ten seconds.                                             *)
(***************************************************************************)
EXTENDS Naturals, FiniteSets, Functions

CONSTANTS
    Ids,            \* ids of inventory rows (random UUIDs)
    Emails,         \* hidden addresses
    Grants,         \* ids of grants
    Admins,         \* distributions that may be under way at once
    Requests,       \* requests that may be under way at once
    Fetches,        \* IMAP fetches that may be under way or cached at once
    None,
    Durations,      \* for how long a grant is given
    CacheTime,      \* how long a fetch is reused
    MaxRevision,    \* bound on the changes of a grant
    MaxForward      \* bound on the changes of the forwarding mailbox

ASSUME AccessAssumption ==
    /\ Durations \subseteq Nat \ {0}
    /\ CacheTime \in Nat \ {0}
    /\ MaxRevision \in Nat \ {0} /\ MaxForward \in Nat
    /\ None \notin Ids \cup Emails \cup Grants \cup Fetches
    /\ None \notin Nat

VARIABLES
    rows,       \* the account's inventory
    account,    \* its switch and its forwarding mailbox
    configuring,\* an update of it that is about to be written
    grants,
    offers,     \* rows that a distribution has read and not yet granted
    sessions,   \* mailbox sessions, in memory
    cache,      \* the mail cache: the fetch that answers a key, while it lasts
    fetches,
    requests,
    changed,    \* history: how long ago the forwarding mailbox changed
    unlisted    \* history: requests that hold mail of a row unlisted ever since

durable == <<rows, account, grants>>
memory == <<configuring, offers, sessions, cache, fetches, requests>>
vars == <<durable, memory, changed, unlisted>>

(* A row is listed, or hidden: Apple lists its address as inactive.  The    *)
(* hosted edition neither moves nor deletes rows.                           *)
Rows == [state : {"new", "listed", "hidden"}, email : Emails \cup {None}]
NewRow == [state |-> "new", email |-> None]

Accounts == [paused : BOOLEAN, forward : 0..MaxForward]

(* since is "all" for a grant that includes history, else its creation.     *)
(* left is None for a permanent grant.  A token is told apart by the        *)
(* revision it was issued at; a revoked grant has token 0.                  *)
Since == {"all", "creation"}
Times == {None} \cup UNION {0..d : d \in Durations}
GrantRecords ==
    [row : Ids, email : Emails, status : {"active", "revoked"}, since : Since,
     left : Times, revision : 1..MaxRevision, token : 0..MaxRevision]
NoGrant == [row |-> None, email |-> None, status |-> "none", since |-> "all",
            left |-> None, revision |-> 0, token |-> 0]

(* The third field is history: the token that was exchanged for it.         *)
Sessions == [grant : Grants, revision : 1..MaxRevision, token : 1..MaxRevision]

Keys == Ids \X Since
FetchRecords ==
    [row : Ids \cup {None}, since : Since, forward : (0..MaxForward) \cup {None},
     status : {"free", "started", "reading", "done"}]
FreeFetch == [row |-> None, since |-> "all", forward |-> None, status |-> "free"]
CacheEntries == [fetch : Fetches \cup {None}, ttl : 0..CacheTime]
NoEntry == [fetch |-> None, ttl |-> 0]

(* A request is at one of its awaits.  round counts its grant checks: 0 for *)
(* a login, 1 before the fetch, 2 and 3 after it.  current is history: the  *)
(* mailbox its mail must come from.                                         *)
Stages == {"idle", "grant", "inventory", "again", "account", "row", "waiting", "send"}
RequestRecords ==
    [stage : Stages, kind : {"login", "mail", "admin"}, grant : Grants \cup {None},
     revision : 0..MaxRevision, token : 0..MaxRevision, row : Ids \cup {None},
     since : Since, round : 0..3, fetch : Fetches \cup {None}, current : 0..MaxForward]
Idle == [stage |-> "idle", kind |-> "mail", grant |-> None, revision |-> 0,
         token |-> 0, row |-> None, since |-> "all", round |-> 0,
         fetch |-> None, current |-> 0]

(* Grants, sessions, cache and requests keep their shape, and a grant has a *)
(* token exactly as long as it is active, whatever edits came in between.   *)
TypeOK ==
    /\ rows \in [Ids -> Rows]
    /\ account \in Accounts
    /\ configuring \in Accounts \cup {None}
    /\ grants \in [Grants -> GrantRecords \cup {NoGrant}]
    /\ \A g \in Grants : grants[g].status = "active" <=> grants[g].token # 0
    /\ offers \in [Admins -> SUBSET Ids]
    /\ sessions \subseteq Sessions
    /\ cache \in [Keys -> CacheEntries]
    /\ fetches \in [Fetches -> FetchRecords]
    /\ requests \in [Requests -> RequestRecords]
    /\ changed \in 0..CacheTime
    /\ unlisted \subseteq Requests

Init ==
    /\ rows = [i \in Ids |-> NewRow]
    /\ account = [paused |-> TRUE, forward |-> 0]
    /\ configuring = None
    /\ grants = [g \in Grants |-> NoGrant]
    /\ offers = [a \in Admins |-> {}]
    /\ sessions = {}
    /\ cache = [k \in Keys |-> NoEntry]
    /\ fetches = [f \in Fetches |-> FreeFetch]
    /\ requests = [r \in Requests |-> Idle]
    /\ changed = 0
    /\ unlisted = {}

(* A fetch that nobody waits for and no entry holds answers nobody.         *)
Busy(f) == \/ \E r \in Requests : requests[r].fetch = f
           \/ \E k \in Keys : cache[k].fetch = f

FetchesStillAwaited ==
    fetches' = [f \in Fetches |-> IF Busy(f)' THEN fetches[f] ELSE FreeFetch]

Listed(i) == rows[i].state = "listed"
Kept(i) == rows[i].state \in {"listed", "hidden"}

-----------------------------------------------------------------------------
(* The inventory, by its own mutations (InventoryState.tla): an address has *)
(* at most one row, and an id is never used again.                          *)

AddRow(i, e) ==
    /\ rows[i].state = "new"
    /\ \A j \in Ids : Kept(j) => rows[j].email # e
    /\ rows' = [rows EXCEPT ![i] = [state |-> "listed", email |-> e]]
    /\ UNCHANGED <<account, grants, memory, changed, unlisted>>

HideRow(i) ==
    /\ Listed(i)
    /\ rows' = [rows EXCEPT ![i].state = "hidden"]
    /\ UNCHANGED <<account, grants, memory, changed, unlisted>>

ShowRow(i) ==
    /\ rows[i].state = "hidden"
    /\ rows' = [rows EXCEPT ![i].state = "listed"]
    /\ unlisted' = {r \in unlisted : requests[r].row # i}
    /\ UNCHANGED <<account, grants, memory, changed>>

-----------------------------------------------------------------------------
(* Grants.                                                                  *)

QueueFree == configuring = None

Distributed(i) == \E g \in Grants : grants[g].row = i

(* distribute reads the rows before its mutation ...                        *)
DistributeRead(a) ==
    /\ offers[a] = {}
    /\ \E S \in SUBSET {i \in Ids : Listed(i)} \ {{}} :
            offers' = [offers EXCEPT ![a] = S]
    /\ UNCHANGED <<durable, configuring, sessions, cache, fetches, requests, changed, unlisted>>

(* ... and makes a grant for each of them in it, or for none.               *)
Distribute_NoSecondLook(a) ==       \* mutant
    /\ offers[a] # {} /\ QueueFree
    /\ \E f \in Injection(offers[a], {g \in Grants : grants[g] = NoGrant}),
          since \in Since, d \in Durations \cup {None} :
        grants' = [g \in Grants |->
            IF \E i \in offers[a] : f[i] = g
            THEN LET i == CHOOSE j \in offers[a] : f[j] = g
                 IN  [row |-> i, email |-> rows[i].email, status |-> "active",
                      since |-> since, left |-> d, revision |-> 1, token |-> 1]
            ELSE grants[g]]
    /\ offers' = [offers EXCEPT ![a] = {}]
    /\ UNCHANGED <<rows, account, configuring, sessions, cache, fetches, requests, changed, unlisted>>

Distribute(a) ==
    /\ offers[a] # {} /\ QueueFree
    /\ \A i \in offers[a] : ~Distributed(i)
    /\ \E f \in Injection(offers[a], {g \in Grants : grants[g] = NoGrant}),
          since \in Since, d \in Durations \cup {None} :
        grants' = [g \in Grants |->
            IF \E i \in offers[a] : f[i] = g
            THEN LET i == CHOOSE j \in offers[a] : f[j] = g
                 IN  [row |-> i, email |-> rows[i].email, status |-> "active",
                      since |-> since, left |-> d, revision |-> 1, token |-> 1]
            ELSE grants[g]]
    /\ offers' = [offers EXCEPT ![a] = {}]
    /\ UNCHANGED <<rows, account, configuring, sessions, cache, fetches, requests, changed, unlisted>>

DistributeRefused(a) ==
    /\ offers[a] # {}
    /\ offers' = [offers EXCEPT ![a] = {}]
    /\ UNCHANGED <<durable, configuring, sessions, cache, fetches, requests, changed, unlisted>>

Change(g, record) ==
    /\ QueueFree
    /\ grants[g] # NoGrant
    /\ grants[g].revision < MaxRevision
    /\ grants' = [grants EXCEPT ![g] = record]
    /\ UNCHANGED <<rows, account, memory, changed, unlisted>>

NextRevision(g) == [grants[g] EXCEPT !.revision = @ + 1]

Revoke(g) == Change(g, [NextRevision(g) EXCEPT !.status = "revoked", !.token = 0])

(* A new token for the same address, since and expiry.                      *)
Reset_KeepsRevision(g) ==           \* mutant
    Change(g, [grants[g] EXCEPT !.status = "active", !.token = (@ % MaxRevision) + 1])

Reset(g) ==
    LET next == NextRevision(g)
    IN  Change(g, [next EXCEPT !.status = "active", !.token = next.revision])

UpdateGrant(g, d) == Change(g, [NextRevision(g) EXCEPT !.left = d])

-----------------------------------------------------------------------------
(* updateAccount.  The worker of the mutation drops the account's cached    *)
(* mail when the mailbox changes; the write comes after, and may fail.      *)

Configure(next) ==
    /\ QueueFree
    /\ next # account
    /\ next.forward \in {account.forward, account.forward + 1}
    /\ configuring' = next
    /\ cache' = IF next.forward # account.forward
                THEN [k \in Keys |-> NoEntry] ELSE cache
    /\ UNCHANGED <<durable, offers, sessions, requests, changed, unlisted>>
    /\ FetchesStillAwaited

ConfigureWrite ==
    /\ configuring # None
    /\ account' = configuring
    /\ changed' = IF configuring.forward # account.forward THEN 0 ELSE changed
    /\ configuring' = None
    /\ UNCHANGED <<rows, grants, offers, sessions, cache, fetches, requests, unlisted>>

ConfigureFails ==
    /\ configuring # None
    /\ configuring' = None
    /\ UNCHANGED <<durable, offers, sessions, cache, fetches, requests, changed, unlisted>>

-----------------------------------------------------------------------------
(* Requests.  Whenever a condition below fails the request is refused, and  *)
(* ends: Refuse.                                                            *)

Expired(g) == grants[g].left = 0

Allowed(g, revision) ==
    /\ grants[g].status = "active"
    /\ grants[g].revision = revision
    /\ ~Expired(g)
    /\ ~account.paused

Goto(r, fields) ==
    requests' = [requests EXCEPT ![r] = fields]

AtRest == <<durable, configuring, offers, changed>>

(* POST /mail-api/login with the n-th token of g: authorizeGrant.           *)
Login(r, g, n) ==
    /\ requests[r].stage = "idle"
    /\ n > 0 /\ grants[g].status = "active" /\ grants[g].token = n
    /\ ~Expired(g)
    /\ Goto(r, [Idle EXCEPT !.stage = "grant", !.kind = "login", !.grant = g,
                            !.revision = grants[g].revision, !.token = n,
                            !.row = grants[g].row])
    /\ UNCHANGED <<AtRest, sessions, cache, fetches, unlisted>>

(* GET /mail-api/messages of a session.                                     *)
Messages(r, s) ==
    /\ requests[r].stage = "idle"
    /\ s \in sessions
    /\ Goto(r, [Idle EXCEPT !.stage = "grant", !.kind = "mail", !.grant = s.grant,
                            !.revision = s.revision, !.token = s.token,
                            !.row = grants[s.grant].row, !.round = 1])
    /\ UNCHANGED <<AtRest, sessions, cache, fetches, unlisted>>

(* The same mailbox, read by the administrator.                             *)
AdminMessages(r, i) ==
    /\ requests[r].stage = "idle"
    /\ Goto(r, [Idle EXCEPT !.stage = "account", !.kind = "admin", !.row = i])
    /\ UNCHANGED <<AtRest, sessions, cache, fetches, unlisted>>

(* checkGrant: the grant, the inventory, the grant again.                   *)
ReadGrant(r) ==
    /\ requests[r].stage = "grant"
    /\ Allowed(requests[r].grant, requests[r].revision)
    /\ Goto(r, [requests[r] EXCEPT !.stage = "inventory"])
    /\ UNCHANGED <<AtRest, sessions, cache, fetches, unlisted>>

ReadInventory(r) ==
    /\ requests[r].stage = "inventory"
    /\ Listed(requests[r].row)
    /\ rows[requests[r].row].email = grants[requests[r].grant].email
    /\ Goto(r, [requests[r] EXCEPT !.stage = "again"])
    /\ UNCHANGED <<AtRest, sessions, cache, fetches, unlisted>>

(* A login becomes a session; a first check goes on to the mail; a second   *)
(* one to the note of the grant's last use and a third check; that one      *)
(* releases the mail.                                                       *)
ReadGrantAgain(r) ==
    LET q == requests[r]
    IN  /\ q.stage = "again"
        /\ Allowed(q.grant, q.revision)
        /\ \/ /\ q.kind = "login"
              /\ sessions' = sessions \cup
                    {[grant |-> q.grant, revision |-> q.revision, token |-> q.token]}
              /\ Goto(r, Idle)
           \/ /\ q.kind = "mail"
              /\ sessions' = sessions
              /\ Goto(r, CASE q.round = 1 -> [q EXCEPT !.stage = "account",
                                                       !.since = grants[q.grant].since]
                           [] q.round = 2 -> [q EXCEPT !.stage = "grant", !.round = 3]
                           [] q.round = 3 -> [q EXCEPT !.stage = "send"])
        /\ UNCHANGED <<AtRest, cache, fetches, unlisted>>

(* messages: the account, the row, then the cache or a new fetch.           *)
ReadAccount(r) ==
    /\ requests[r].stage = "account"
    /\ ~account.paused
    /\ Goto(r, [requests[r] EXCEPT !.stage = "row"])
    /\ UNCHANGED <<AtRest, sessions, cache, fetches, unlisted>>

CacheKey_RowOnly(i, since) == <<i, "all">>      \* mutant

CacheKey(i, since) == <<i, since>>

(* The mailbox a request may count on: the one configured for long enough.  *)
SettledForward == IF changed = CacheTime THEN account.forward ELSE 0

ReadRow(r) ==
    LET q == requests[r]
        k == CacheKey(q.row, q.since)
    IN  /\ q.stage = "row"
        /\ Kept(q.row)
        /\ \/ /\ cache[k] # NoEntry
              /\ Goto(r, [q EXCEPT !.stage = "waiting", !.fetch = cache[k].fetch,
                                   !.current = SettledForward])
              /\ UNCHANGED <<cache, fetches>>
           \/ /\ cache[k] = NoEntry
              /\ \E f \in Fetches :
                    /\ fetches[f] = FreeFetch
                    /\ fetches' = [fetches EXCEPT ![f] =
                            [row |-> q.row, since |-> q.since, forward |-> None,
                             status |-> "started"]]
                    /\ cache' = [cache EXCEPT ![k] = [fetch |-> f, ttl |-> CacheTime]]
                    /\ Goto(r, [q EXCEPT !.stage = "waiting", !.fetch = f,
                                         !.current = SettledForward])
        /\ UNCHANGED <<AtRest, sessions, unlisted>>

(* listForAlias reads the configuration, then the mailbox it names.         *)
FetchConfig(f) ==
    /\ fetches[f].status = "started"
    /\ fetches' = [fetches EXCEPT ![f].status = "reading", ![f].forward = account.forward]
    /\ UNCHANGED <<durable, configuring, offers, sessions, cache, requests, changed, unlisted>>

FetchDone(f) ==
    /\ fetches[f].status = "reading" /\ fetches[f].forward # 0
    /\ fetches' = [fetches EXCEPT ![f].status = "done"]
    /\ UNCHANGED <<durable, configuring, offers, sessions, cache, requests, changed, unlisted>>

(* A failure clears its key, whoever's entry is there by now, and fails the *)
(* requests that wait for it.                                               *)
FetchFails(f) ==
    /\ fetches[f].status \in {"started", "reading"}
    /\ cache' = [cache EXCEPT ![CacheKey(fetches[f].row, fetches[f].since)] = NoEntry]
    /\ requests' = [r \in Requests |-> IF requests[r].fetch = f THEN Idle ELSE requests[r]]
    /\ UNCHANGED <<durable, configuring, offers, sessions, changed, unlisted>>
    /\ FetchesStillAwaited

Receive_NoRecheck(r) ==             \* mutant
    LET q == requests[r]
    IN  /\ q.stage = "waiting" /\ fetches[q.fetch].status = "done"
        /\ Goto(r, [q EXCEPT !.stage = "send"])
        /\ unlisted' = IF Listed(q.row) THEN unlisted ELSE unlisted \cup {r}
        /\ UNCHANGED <<AtRest, sessions, cache, fetches>>

Receive(r) ==
    LET q == requests[r]
    IN  /\ q.stage = "waiting" /\ fetches[q.fetch].status = "done"
        /\ Goto(r, IF q.kind = "admin" THEN [q EXCEPT !.stage = "send"]
                   ELSE [q EXCEPT !.stage = "grant", !.round = 2])
        /\ unlisted' = IF Listed(q.row) THEN unlisted ELSE unlisted \cup {r}
        /\ UNCHANGED <<AtRest, sessions, cache, fetches>>

(* The answer goes out, or the request is refused, fails or is dropped.     *)
End(r) ==
    /\ Goto(r, Idle)
    /\ unlisted' = unlisted \ {r}
    /\ UNCHANGED <<AtRest, sessions, cache>>
    /\ FetchesStillAwaited

Send(r) == requests[r].stage = "send" /\ End(r)

Refuse(r) == requests[r].stage \notin {"idle", "send"} /\ End(r)

(* A logout, another login in the same browser, the end of its twelve hours.*)
DropSession(s) ==
    /\ s \in sessions
    /\ sessions' = sessions \ {s}
    /\ UNCHANGED <<durable, configuring, offers, cache, fetches, requests, changed, unlisted>>

(* Past a thousand entries the oldest makes room.                           *)
Evict(k) ==
    /\ cache[k] # NoEntry
    /\ cache' = [cache EXCEPT ![k] = NoEntry]
    /\ UNCHANGED <<durable, configuring, offers, sessions, requests, changed, unlisted>>
    /\ FetchesStillAwaited

-----------------------------------------------------------------------------
Restart ==
    /\ configuring' = None
    /\ offers' = [a \in Admins |-> {}]
    /\ sessions' = {}
    /\ cache' = [k \in Keys |-> NoEntry]
    /\ fetches' = [f \in Fetches |-> FreeFetch]
    /\ requests' = [r \in Requests |-> Idle]
    /\ unlisted' = {}
    /\ UNCHANGED <<durable, changed>>

Less(n) == IF n \in {None, 0} THEN n ELSE n - 1

CacheAges_Forever == cache          \* mutant

CacheAges == [k \in Keys |->
    IF cache[k].ttl <= 1 THEN NoEntry ELSE [cache[k] EXCEPT !.ttl = @ - 1]]

Tick ==
    /\ grants' = [g \in Grants |-> [grants[g] EXCEPT !.left = Less(@)]]
    /\ cache' = CacheAges
    /\ changed' = IF changed = CacheTime THEN changed ELSE changed + 1
    /\ UNCHANGED <<rows, account, configuring, offers, sessions, requests, unlisted>>
    /\ FetchesStillAwaited

Inventory == \E i \in Ids :
    (\E e \in Emails : AddRow(i, e)) \/ HideRow(i) \/ ShowRow(i)

Sharing ==
    \/ \E a \in Admins : DistributeRead(a) \/ Distribute(a) \/ DistributeRefused(a)
    \/ \E g \in Grants : Revoke(g) \/ Reset(g)
    \/ \E g \in Grants, d \in Durations \cup {None} : UpdateGrant(g, d)

Settings == (\E next \in Accounts : Configure(next)) \/ ConfigureWrite \/ ConfigureFails

Request(r) ==
    \/ \E g \in Grants, n \in 1..MaxRevision : Login(r, g, n)
    \/ \E s \in sessions : Messages(r, s)
    \/ \E i \in Ids : AdminMessages(r, i)
    \/ ReadGrant(r) \/ ReadInventory(r) \/ ReadGrantAgain(r)
    \/ ReadAccount(r) \/ ReadRow(r) \/ Receive(r) \/ Send(r) \/ Refuse(r)

Fetch == \E f \in Fetches : FetchConfig(f) \/ FetchDone(f) \/ FetchFails(f)

Next ==
    \/ Inventory \/ Sharing \/ Settings \/ Fetch
    \/ \E r \in Requests : Request(r)
    \/ \E s \in sessions : DropSession(s)
    \/ \E k \in Keys : Evict(k)
    \/ Restart \/ Tick

Spec == Init /\ [][Next]_vars

-----------------------------------------------------------------------------
(* What the owner of an account and a reader may rely on.                   *)

Releases(r) == requests[r].stage # "send" /\ requests'[r].stage = "send"

ReleasedTo(kind, r) == requests[r].kind = kind /\ Releases(r)

(* Mail is released to a reader by a step that sees the grant active, at    *)
(* the revision of the session, not expired, the account not paused, and    *)
(* its row has been listed at some time since the mail came back.  So a     *)
(* revocation, a reset, a deadline, a pause or an address Apple no longer   *)
(* serves is noticed during a slow fetch (checkGrant around messages).      *)
ReleasedOnlyWhileAllowed ==
    [][\A r \in Requests : ReleasedTo("mail", r) =>
            /\ Allowed(requests[r].grant, requests[r].revision)
            /\ r \notin unlisted']_vars

(* A reader gets the mail of the granted row from the time the grant allows *)
(* on, also when somebody else's fetch of that row is in the cache, and     *)
(* after any number of resets and edits (the cache key of messages).        *)
OnlyGrantedMail ==
    [][\A r \in Requests : ReleasedTo("mail", r) =>
            LET f == fetches[requests[r].fetch]
                g == grants[requests[r].grant]
            IN  f.row = g.row /\ f.since = g.since]_vars

(* Once a new forwarding mailbox has been in place for the lifetime of a    *)
(* cache entry, no request is answered from the old one, however the update *)
(* and the fetches overlapped (updateAccount, messages).                    *)
MailFromCurrentMailbox ==
    [][\A r \in Requests : Releases(r) =>
            fetches[requests[r].fetch].forward >= requests[r].current]_vars

Usable(g) ==
    /\ grants[g].status = "active"
    /\ Kept(grants[g].row) /\ rows[grants[g].row].email = grants[g].email

(* "Never distributed a second time by itself" (docs/server-deployment.md): *)
(* an address is readable through one grant at most, even when two          *)
(* distributions have read overlapping selections at once, or it was        *)
(* inactive in between (distribute, changeGrant).                           *)
OneReaderPerAddress ==
    \A g, h \in Grants :
        Usable(g) /\ Usable(h) /\ grants[g].email = grants[h].email => g = h

(* A session that a check can still accept was exchanged for the token that *)
(* is in force: no login that overlapped a revocation or reset leaves a way *)
(* in (authorizeGrant, checkGrant, changeGrant).                            *)
SessionsHoldTheToken ==
    \A s \in sessions :
        grants[s.grant].status = "active" /\ grants[s.grant].revision = s.revision
            => grants[s.grant].token = s.token

=============================================================================
