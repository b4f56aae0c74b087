# Verification of mail-code-dashboard

TLA+ modules, TLC configurations and TLAPS proofs for the parts of the mail
dashboard whose correctness depends on the order in which things happen: the
inventory document with its retention sweep, the claims handed to jobs, the
background job that asks Apple for new hidden addresses and the labels it
numbers, the scans that read mail, the accounts, uploads and shared mailboxes
of the hosted edition, the browser extension and the pages, and the shutdown of
the process with its log. Source paths below are relative to `src/`.

The program runs as one Node process, so concurrency is that of `await`: code
between two awaits is atomic, and everything else in the process can run at an
await. What a crash leaves is what files held at that moment; files are
replaced by rename. The models are built at that grain.

## 1. The system

### Local edition (`server.mjs`)

| Component | State | Operations | Interacts with |
|---|---|---|---|
| `DashboardStore` (`lib/dashboard-store.mjs`) | one JSON document (rows, claims, idempotency map, settings), one archive file per day, backup files, a promise queue | `mutate` and the operations built on it: `syncAliases`, `createInventoryItems`, `initializeFromLegacy`, `updateInventoryItem(s)`, `deleteInventoryItem`; the sweep `#archiveExpired`; `waitForIdle` | everything that changes the inventory goes through `mutate` |
| `ClaimService` (`lib/claim-service.mjs`) | none of its own; claims live in the document | `claimNext`, `releaseClaim`, `getClaim` | workers given to `mutate` |
| `AutoStockService` (`lib/auto-stock-service.mjs`) | settings and markers in the document; `running`, `volatilePause`, `stopped` in memory | `configure`, `initialize`, `tick`, `manualOne`, `manualBatch`, `reconciled`, `start`, `stop` | the store; Apple through `server.mjs`; the sync endpoint |
| Apple generation (`server.mjs`) | label sequence file, with a queue | `generateHideMyEmail(Batch)`, `nextReservedHideMyEmailLabel`, `listHideMyEmailAccounts` | Apple's service, the store |
| Cookie bridge (`extensions/chrome-cookie-bridge`, `server.mjs`, `scripts/`) | debounce timer, running upload, `resync`; `cookies.txt` with its queue | `runSync`, `syncCookies`, alarms; the upload endpoint, the refresh from Edge | the browser's cookies, the server |
| Dashboard page (`assets/dashboard*.js`) | mirror of the inventory, remark under edit, cached messages | poll, operations of the operator, rendering | the HTTP interface |
| `InventoryMailService` (`lib/inventory-mail-service.mjs`) | the promises of the two running batches | `checkOne`, `checkFinished`, `checkUnused` | the mailbox reader; `updateInventoryItems` |
| `ForwardMailboxReader` (`lib/forward-mailbox.mjs`) | none; checkpoints are the caller's | `listForAlias`, `latestForAlias(es)`, `scanAllForAliases` | IMAP |
| Shutdown (`server.mjs`, `hosted.mjs`) | the shutdown promise, the deadline | `createGracefulShutdown`, the signal handlers | the server, the store, the job, the log |
| Log (`lib/lifecycle-log.mjs`) | queue, drain, files with backups | `lifecycleLog`, `schedule`, `rotateIfNeeded`, `flush`, `flushSync`, exit hooks | the file system |
| Key file (`lib/local-secret.mjs`) | one file | exclusive create | |
| HTTP layer (`lib/v1-router.mjs`, `lib/api.mjs`) | none | routing, authentication, envelopes | all services |

### Hosted edition (`hosted.mjs`, `lib/hosted/`)

| Component | State | Operations | Interacts with |
|---|---|---|---|
| `HostedState` (`state.mjs`) | one encrypted file: administrator, accounts, keys, grants, audit; a promise queue | `read`, `mutate` | every request |
| `HostedPlatform` (`platform.mjs`) | per account: a store, an auto stock job, a reader, the running scan; the mail cache; cookie queues | accounts, keys, cookies, `distribute`, `changeGrant`, `updateGrant`, `authorizeGrant`, `checkGrant`, `messages`, `scanMail`, `start`, `stop` | `HostedState`, the stores, IMAP, Apple |
| `createHostedServer` (`hosted.mjs`) | sessions, rate counters, in memory | logins, requests of readers, administrators and programs | the platform |
| `AccountICloud` (`icloud.mjs`) | label sequence in the account's document | `list`, `generate`, `generateBatch` | Apple |
| reader's page (`web/inbox.js`) | open mailbox, access version, timers | share links, login, refresh, deadlines, logout | the hosted server |

### What is hard in each, and what makes it correct

* **Store and claims.** A mutation is several steps on several files: backup,
  archive, state file. A crash, an I/O error or midnight can fall between any
  two; callers retry with their key. Correct means: rows and claims point at
  each other, a key stands for one claim, an address is held by one claim at a
  time, nothing a caller was told of is lost, nothing leaves the state file
  without being in an archive or a backup.
* **Auto stock.** Generation is not idempotent and its answer can be lost. The
  job, two manual endpoints, the switch, the sync and restarts all touch the
  same marker and cooldown. Correct means: Apple is not asked again while a
  result is unknown, never for more than is missing, at most one batch an
  hour, and the job does not stop without a visible reason.
* **Mail checks.** Rows are read, IMAP is awaited for minutes, and the findings
  are written over whatever the rows are by then. Correct means: decisions made
  meanwhile stand, read mail stays read, new mail is shown as new, and reports
  count what was done.
* **Sharing.** A reader's request awaits reads of two files and an IMAP fetch;
  grants, rows, accounts and the forwarding mailbox change meanwhile, and one
  cache answers many readers. Correct means: mail is released only while the
  grant allows it, only mail of that row from the allowed time on, only from
  the current mailbox, and one address has one reader.
* **Shutdown and log.** A deadline races a cleanup that waits for handlers,
  turns and queues which feed one another; the log's queue overflows while its
  first line is written, and the exit hooks write again what the drain has in
  flight. Correct means: a shutdown that says it is complete left nothing half
  done, every signal ends the process, and no line is lost silently.
* **Labels.** A number is read and written, and an address reserved with it, in
  different files and around requests to Apple. Correct means: no two addresses
  with one number.
* **Cookies.** Changes, timers, alarms, uploads that overtake one another, a
  worker the browser kills, a second way to write the file; in the hosted
  edition a verification of minutes, meanwhile a key is revoked, an Apple ID
  renamed, a newer upload verified. Correct means: the last change arrives, an
  account never gets cookies of another user or older ones.
* **Whole-mailbox scans.** Batches, checkpoints, cursors, new mail, renumbered
  mailboxes. Correct means: nothing below the cursor was skipped.
* **Sign-in and pages.** Passwords are verified outside the mutations they
  guard; answers arrive late and out of order while somebody types. Correct
  means: a session dies with its password, a page shows what its user opened,
  and typed text and the server's last word are not lost.

## 2. The modules

| Module | Models | Lines it corresponds to |
|---|---|---|
| `InventoryState` | the document, and each worker as an operator from document to document, with `Can...` for "does not throw" | workers of `dashboard-store.mjs`, `claim-service.mjs` |
| `DashboardStore` | `mutate` as steps: worker (with its backup), `ArchiveExpired`, `WriteAtomic`, `StorageErrorOrCrash`, clock | `dashboard-store.mjs:419-455, 838-1030` |
| `ClaimLedger` | what the claims API promises: an atomic ledger of exclusive claims | abstract specification |
| `AutoStock` | the service with Apple, the sync and restarts | `auto-stock-service.mjs`, its callers |
| `MailScan` | the three kinds of checks of the local edition and what happens around them | `inventory-mail-service.mjs` |
| `MailAccess` | grants, sessions, requests, cache, settings | `platform.mjs`, `hosted.mjs:54-117`, `state.mjs` |
| `Process`, `LifecycleLog` | handlers, store queue, job, signals and exit of a server; the logger it calls | `server.mjs:437-600`, `hosted.mjs:190-215`, `lifecycle-log.mjs`, `dashboard-store.mjs:457-466` |
| `CookieBridge` | the extension's worker, the endpoint, the refresh scripts | `background.js`, `server.mjs`, `scripts/` |
| `LabelSequence` | numbers of both editions | `server.mjs:840-960`, `icloud.mjs` |
| `MailboxScan` | `scanAllForAliases` | `forward-mailbox.mjs:560-760` |
| `DashboardPage` | mirror, poll, remark, cached messages | `assets/dashboard.js`, `dashboard-mail.js`, `dashboard-api.js`, `dashboard-state.js` |
| `AdminLogin` | administrator sessions and password changes | `hosted.mjs:54-85, 130-145` |
| `HostedAccounts` | creation of accounts, keys, uploads, verification | `platform.mjs:60-160` |
| `InboxPage` | the reader's page and the session behind it | `web/inbox.js` |
| `MC...` | symmetry sets for TLC; `MCLocal` and `MCHosted` put components that share no state into one run | |
| `..._proofs` | theorems about `DashboardStore` (two modules), `AutoStock`, `MailScan`, `MailAccess`, `Process`, the parts of `MCLocal` and those of `MCHosted` | |

The exact lines of every definition are in the `map` of `PROJECT.json`.

### DashboardStore and InventoryState

`disk` is the state file, `archive` the archive file of each day, `backups` the
backup directory. A running mutation is `phase`, its copy `mem`, its pending
answer `call`. A worker reads `disk` and leaves the new document in `mem`; the
sweep writes the archive file and trims `mem`; the rename makes `mem` the new
`disk` and only then may the answer reach the caller (`answers`, a history
variable; it may also be lost). `StorageErrorOrCrash` drops the copy between
any two steps, leaving the archive or the backup written. Workers that throw
are not steps. Row ids and claim ids are random UUIDs: never reused.

Abstracted: the order of rows (which unused row is taken first), labels,
remarks and mail fields (no guard of this module reads them), normalisation of
malformed documents. The worker and the sweep read the clock in the same turn
of the event loop, so the clock does not move between them unless the retention
is zero, where milliseconds matter and `Tick` allows it.

### AutoStock

`job` holds the durable settings, with the times as what is left of them;
`pc`/`batch` is the turn that runs in the service's queue, from the claim of
the attempt to its settlement; `sync` is a `sync-icloud` request. Each store
mutation is one step that may fail (the module above opens it up). `stop`,
`Restart`, the volatile latch and every exit of `perform` are actions.

Apple is external: it mints at once what it will ever mint for a request,
reports it or not, and lists all it has minted. An address that was generated
but not reserved counts as not minted, as it does not appear in lists. Deleting
addresses is left out. `Overlap` says whether a sync may run while a generation
does, `ByHand` which manual endpoints are used: both are assumptions that the
passing runs and the theorems name, and the violation runs lift.

### MailScan

A scan is a record: its kind, the snapshot of its rows (group and time of the
stored message), and what IMAP brought. `Applied` is `expectedGroup`,
`messagePatch` the patch with the unread decision made on the snapshot,
`CanApply` the `CLAIM_ACTIVE` guard that fails a whole batch. Batches of a
kind are joined, single checks are not. Messages are numbered by `receivedAt`.
IMAP may return an older message than the newest, because a folder that cannot
be opened is passed over. The operator's part is what the dashboard sends: moves,
deletions, marks (`MarkRead`) and the move to the trash, which marks as well
(`Trash`). The server marks whatever message is stored when such a request is
served, also one that the page has not shown yet. Patches of single fields that
only other callers of the interface could send are left out.

Two history variables: `read` is the newest message of a row marked as read, and
`crossed` the rows of a waiting scan that left their group, or got other mail
from somebody other than a batch (`Crossing`).

Every row is taken to be active, and one migration takes over group, mail and
flag of one row. Status texts and codes are left out.

Only the local edition is modelled. The hosted one has a scan of its own
(`scanMail`), one at a time per account, and no other operation of that edition
writes the mail, the flag or the group of a row: it shows the flag and never
takes it down.

### MailAccess

A request of a reader is at one of its awaits (`stage`): grant, inventory,
grant again (one `checkGrant`), account, row, the fetch it waits for, then two
more checks. The hosted edition changes rows by its sync (`AddRow`, `HideRow`,
`ShowRow`: Apple lists an address as inactive or active) and never deletes one
or moves it to the trash. `DistributeRead`/`Distribute` and `Configure`/`ConfigureWrite` are
split because something takes effect before the commit; all other mutations of
the platform state are atomic. Fetches are entities of their own, since a
refused request leaves its fetch in the cache for others. Times are what is
left of them, in units of the cache's ten seconds. A token is represented by
the revision it was issued at.

One account is modelled: its id is a prefix of every cache key and selects the
reader and the store, so accounts share nothing but the platform file.
Administrator sessions, program keys and rate limits are left out.

### Process and LifecycleLog

A handler reads, queues a mutation of the store, or asks the job for a turn; its
client waits for the answer, leaves, or stays without ever reading it. The job
claims, generates and settles through the same store queue. A signal starts the
shutdown: `ServerClosed` needs every connection gone, `cleanup` walks through
the stages of `createGracefulShutdown` (stop the job, wait for the queues, log,
flush), `Deadline` can overtake it, and `ProcessEnds` runs the exit hooks. The
hosted edition (`hosted`) has other stages and no log. `waitForIdle` is a loop
that waits again when the queue has moved on, as in the code.

`LifecycleLog` has no actions of its own but `Drain`; the state of a logger is a
record and its calls are operators `Process` applies where the code logs.
`Drain` is one file operation per step: stat, each unlink and rename of a
rotation, append; each can fail (`MaxFaults`), and the exit hook can fall
between any two. `written` and `dropped` are history.

### CookieBridge

`sync["run"]` is the serialised run of the extension's worker, `sync["direct"]`
the call of `syncCookies` the refresh script makes beside it; uploads in flight
(`posts`) are delivered in any order and may fail, and the browser may kill the
worker. The endpoint and the script's Python fallback write `cookies.txt`
through one queue.
`jar` counts versions of the browser's cookies. `MaxDisturbances` bounds
everything that goes wrong.

### LabelSequence

Locally an address is minted first and its number taken under a queue
(`labelQueue`), which is handed on in order; a caller may name the number
itself. In the hosted edition the number is taken first, in a mutation. `known`
is the largest number the inventory already has. A generation may be reserved
twice when its first answer is lost. The inventory starts without labels, so
that numbers given before the sequence file existed are covered as far as
`known` counts them and are outside `NoLabelTwice`. One prefix is modelled, since the code keeps one
entry per prefix and never compares two.

### MailboxScan

A scan holds the range it will read, newest first, and hands over a batch with
the checkpoint and cursor that follow it; the caller stores them together.
Between two batches mail comes and goes, the connection is lost, and the server
may number the mailbox anew; a failed scan is resumed or started again.
`delivered` is what the caller was given under the current `uidValidity`.

### DashboardPage

`rows` is what the server has, `mirror` what the page shows. Requests are of a
few kinds: reads of the whole inventory, operations that answer with one row or
with all. They are served at one moment and answered at a later one, in any
order; each answer renders, which moves rows and inputs. `unsaved` is history:
what the operator typed last and has not sent or cancelled.

### AdminLogin, HostedAccounts, InboxPage

A login and a password change (`call`) read the platform file, verify for as
long as scrypt takes, and act; the version compared by every request is
`admin.version`.

An account comes into being in a mutation that creates its inventory file
before its own write (`adding`). An upload reads account and key, queues at its
account, verifies at Apple, and binds in a mutation that checks both again.
Uploads carry the `number` of their arrival. Apple's side is external:
`appleIdOf` says which Apple ID a user logs in with, and `Rename` changes it.

The reader's page runs one action at a time, `action`; a link opened meanwhile
or a deadline makes it `Outdated`, and its late answer must not show mail. The
server's session behind the cookie is `cookieShare` and `live`.

## 3. What is checked

### Passing runs

| Run | Shows | Bounds |
|---|---|---|
| `store_history` | `ToldClaimsSurvive`, `SameKeySameClaim`, `ArchiveIsFinal`, `KeysArchivedWithClaims`, `ClaimsMoveForward` | 1 row, 2 claims, 2 keys, 4 instants over 2 days, rows active or not |
| `store_rows` | `RowsAndClaimsAgree`, `KeysAndClaimsAgree`, `NoAddressHeldTwice`, `ClaimedRowsStayFinished`, `NoAddressListedTwice`, `RemovedRowsAreBackedUp`, and that the store implements `ClaimLedger` | 2 rows, addresses, claims, keys; retention 0 |
| `stock` | `NothingGeneratedWhileUnknown`, `NeverAsksBeyondTarget` | 4 addresses, target 3, batches of 2; manual generation, 2 restarts, no overlapping sync |
| `stock_live` | `OneBatchAnHour`, `NeverStuckSilently` | 3 addresses, overlapping syncs, 1 restart, no manual generation; fairness below |
| `mail_unread` | `ReadMailStaysRead`, `UnreadMailStaysUnread` | 1 row, 2 messages, 2 overlapping checks of any kinds |
| `mail_batch` | `ReportsWhatItDid`, `DecisionsStand` | 2 rows, 1 message each, 1 check of any kind |
| `access_reader` | `ReleasedOnlyWhileAllowed`, `OnlyGrantedMail`, `MailFromCurrentMailbox`, `SessionsHoldTheToken` | 1 row, 1 grant, 2 revisions, 1 request at a time, of the reader or the administrator, 1 fetch, 2 changes of mailbox |
| `access_sharing` | `OneReaderPerAddress` | 2 rows, 3 grants, 2 distributions at once |
| `process` | `CompleteMeansDone`, `LoggedLinesReachTheDisk`, `RotationKeepsTheNewest`, `SignalEndsTheProcess` | both editions; 1 request and the job, a queue of 2 lines, a file of 2 bytes with 1 backup, 2 lines beside those of the shutdown, 1 failing file operation |
| `local` | `NoChangeForgotten`, `LatestCookiesWin`; `NoLabelTwice`; `CursorCoversEverything`; `RemarkSurvives`, `PageCatchesUp` | cookies: 2 changes, 2 disturbances; labels: 2 generations, callers' numbers to 2, 1 restart; scan: 4 UIDs, batches of 2, 2 validities; page: 1 row, 2 remarks, 3 acts, 3 requests under way |
| `hosted` | `SessionsKnowThePassword`; `EveryAccountHasItsInventory`, `AccountsStayApart`, `CookiesNeverGoBack`; `OnlyTheOpenedMailbox` | sign-in: 3 calls, 2 passwords, 2 changes; accounts: 2 accounts, 3 Apple IDs, 2 users, 2 keys, 2 uploads, 2 renamings or restarts; page: 2 share links |

`local` and `hosted` hold several components that share no state. Running them
side by side would only multiply their states, so `MCLocal` and `MCHosted` have
a variable `part`: each behaviour is one component's, and the others stay at
their initial states. A property of one component is thereby checked in all its
behaviours.

Why the bounds are enough. In the store every property speaks of at most two
claims, two rows and two files; a second id per address is what deletion and
return need, a second key what a retry of a lost answer needs, and four instants
let a claim be released, expire, be archived, fail its write and be swept again
on the next day. In the job the target exceeds the batch size, so that a turn
can be full, short or empty, and the interval exceeds the retry delay. In the
scans the operator, a job and a second message are what makes a snapshot stale,
and the second check is there to cross the first or to be joined to it. A
request touches others only through the cache, and what it leaves there serves
the next: a fetch of the administrator answers the reader after it and the other
way round. Two revisions separate a session from its
grant, two changes separate three mailboxes (none, old, new).

In the process the job and one handler are the two owners of the queues; a
queue of two lines overflows while its head is being written, and a file of two
bytes with one backup makes every third line rotate. The same run with two
handlers (714,486 states) passes as well; it is not kept because nothing new
happens in it. Two cookie changes and two disturbances let an upload that was
orphaned by a kill arrive after a later one. Four UIDs in batches of two leave
a checkpoint in the middle, mail above it and mail below. Three acts on the page
let one answer overtake another while a remark is open. Three calls of the
sign-in are a login beside two changes; a third Apple ID is what two users need
to exchange theirs.

Bounds that cut counters (`MaxTime`, `MaxDay`, `MaxCrashes`, `MaxMail`,
`MaxRevision`, `MaxForward`, `MaxLines`, `MaxFaults`, `MaxChanges`,
`MaxDisturbances`, `MaxNumber`, `MaxRestarts`, `MaxUid`, `MaxValidity`,
`MaxActs`, `MaxInFlight`, `MaxPasswordChanges`, `MaxDisruptions`) are guards of
the actions that count. The `mail_` runs, `process`, `local` and `hosted` switch
the deadlock check off: rows may all be deleted with the last message arrived, a
process ends, generations and calls are used up.

Each component has a type invariant; they are theorems (section 4) and take up
no run.

Every property of a passing run has a mutant in `PROJECT.json`: a named variant
of a definition (`..._NoLookup`, `..._KeepsKeys`, ...) under which the same run
finds the property violated.

### Fairness

* `stock_live` (`Fairness` of `AutoStock`). Weak fairness of the steps of a turn
  (`Perform`) and of the steps that end a sync: promises settle, since every
  request has a timeout (`fetchWithRetry`, `AbortSignal.timeout`). Weak fairness
  of `Elapse` and `tick`: time passes, and `tick` is a `setInterval`. Strong
  fairness only of `Claim` and `Generate`: the store and Apple may fail any
  number of times, but not for ever. Nothing is assumed of the operator, and a
  sync need never begin.
* `process`. Weak fairness of the handlers, the job, the log's drain, the
  server's callback, the cleanup, the deadline and the end of the event loop.
  Nothing is assumed of clients: one that never reads its answer and never
  leaves is what the deadline is for.
* `local`, cookies. Weak fairness of the debounce timer, the alarm, the reads
  and writes, the arrival of an upload, and of the scripts, which have timeouts.
  Failures are bounded by `MaxDisturbances`, nothing else repairs them.
* `local`, page. Weak fairness of the poll and of requests ending, the polls'
  and the others' apart: a poll is not held up by an operation. Nothing is
  assumed of the operator; `PageCatchesUp` supposes that she leaves the remark.

### Violations found

`stock_late_sync` is kept as a run, since the proofs rest on what it lifts: a
sync that listed before a generation lost its answer clears the marker, and
Apple is asked again with an address missing.

The other disagreements were found in the same way and are listed, with the
sentences they contradict, as findings in `PROJECT.json`; the modules state the
property, no run is kept.

* `NoClaimArchivedTwice` (`DashboardStore`): a sweep that is repeated after
  midnight archives a claim in a second file; the comment says repeated sweeps
  converge.
* `OnlyNewerRaisesUnread` (`MailScan`): two overlapping checks of a row mark a
  message unread again that was read between their writes. What holds is
  `ReadMailStaysRead`: only a check that was crossed can do so, and overlapping
  batches do not cross one another. In the same way two checks, one of which
  finds an older message because a folder failed, can lose the flag of an unread
  one; `UnreadMailStaysUnread` excepts that check and no other step.
* `TypedTextIsKept` (`DashboardPage`): a blur ends the draft before its answer
  arrives, and what is typed into the same input meanwhile is gone with the next
  render. `RemarkSurvives` is what holds.
* `NoOldCopies` (`DashboardPage`): a check under way when the cached messages
  are discarded stores its copy afterwards.
* `RotationKeepsTheNewest` (`LifecycleLog`) at a forced exit: the exit hook
  rotates while an asynchronous rotation has an unlink or a rename on its way.
  The property therefore excludes that exit; no line that was never on the disk
  is lost by it (`LoggedLinesReachTheDisk` has no exclusion).
* The direct call of `syncCookies` by the refresh script: two uploads at once,
  and the older one can be written last. The next alarm repairs it
  (`LatestCookiesWin`).

Noticed while modelling, for whoever changes this code; no run is kept for them:

* A retention of 0 days is accepted (`lib/dashboard-store.mjs:229`), and the
  sweep reads the clock after the worker, so a claim can be swept by the very
  mutation that releases it; the comment at line 436 says it cannot.
* A manual generation that fails writes `nextAttemptAt` five minutes ahead
  (`lib/auto-stock-service.mjs:217`) also when a successful batch had just set
  it an hour ahead. `OneBatchAnHour` is therefore checked and proved without
  manual generation.
* Two password changes that are both verified against the old password both
  succeed (`hosted.mjs:136-141`), and the later one stands. No session outlives
  either (`SessionsKnowThePassword`).
* After a stop in the middle of a generation `enabled` is still set, so a sync
  alone resumes the job; `docs/api.md:44` asks for enabling it again.
* A folder that fails to open once (`lib/forward-mailbox.mjs:465`) lets an older
  message replace a stored one, and the next scan then takes the read one for
  newer, also with one scan at a time: mail that was read is unread again. The
  opposite does not happen: unread mail keeps its flag (`UnreadMailStaysUnread`).

## 4. What is proved

TLAPS proves the following for every value of the constants that the named
assumptions allow (any number of rows, claims, keys, days; any retention,
target, batch size, interval).

**Store** (`DashboardStore_proofs`). `Inv` says that `disk` and `mem` are
`Consistent`: well typed, rows and claims point at each other, the idempotency
map is the inverse of the claims' keys, addresses are listed once, and a claim
carries its row's address. It holds of `mem` too because a worker's result
becomes the disk two steps later; and `NoAddressHeldTwice` alone is not
inductive, because two claims are kept apart by their rows having one address
each. One lemma per worker says that it keeps a document consistent; one per
step of `mutate` finishes the induction. `FInv` adds, of both documents, that a
claimed row is in `"finished"` until the migration. Results: `TypeCorrect`,
`RowsAndClaimsAlwaysAgree`, `KeysAndClaimsAlwaysAgree`,
`AddressesAreListedOnce`, `ClaimsAreExclusive`, `ClaimedRowsAlwaysFinished`.

**Durability** (`Durability_proofs`). `DInv` adds how `mem` relates to `disk` in
each phase: what the worker and the sweep have taken out is already in an
archive file or a backup. Results: `ToldClaimsAlwaysSurvive`,
`RemovedRowsAlwaysBackedUp`. `LInv` says more exactly what a mutation in
progress can have done: the copy is `disk` with one claim made, one released or
neither (`Outcome`), less the claims the sweep took out, each of which an
archive file holds as the copy did (`Swept`; the two together are `Pending`); a
claim it has released bears the time of now (`ReleasedNow`); an answer names a
claim that was stored under its key (`AnswersAreTrue`); and a record of a claim
comes with its key, is of a released claim and is the same in every file
(`Records`). Results: `RetriesGetTheSameClaim`, `KeysAlwaysArchivedWithClaims`,
`ArchiveIsAlwaysFinal`, `ClaimsOnlyMoveForward`, and `StoreImplementsLedger`:
initial states and steps of the store map to those of `ClaimLedger`, where
`WriteAtomic` is the only step that is not a stutter, and `Pending` names the
claim, the release and the archived claims it commits. `ArchiveIsAlwaysFinal`
assumes `Retention > 0` (the default is 30 days; 0 is accepted, see section 3):
with none a mutation can archive the claim it has just released, and if its
write then fails the archive has a claim as released that is still active.

**Auto stock** (`AutoStock_proofs`). `AInv`: unless the marker is down,
everything Apple minted is in the inventory; while a turn runs whose outcome is
known so far, it is there or in what the turn was told; and a sync holds or has
merged all of it. The last part needs `Overlap = FALSE`. `PInv`: with no turn
running, the time since the last successful batch and the cooldown make up an
interval; with one running the interval is over. Results: `TypeCorrect`; with
`Overlap = FALSE`, `SyncBeforeGeneration` and `NeverBeyondTarget`; with
`ByHand = {}`, `AtMostOneBatchAnHour`. The first assumption is necessary
(`stock_late_sync` lifts it), and so is the second (see above).

**Mail checks** (`MailScan_proofs`). `DecisionsAlwaysStand` and
`ReportsAreTrue` hold for any number of overlapping checks and need no more than
`TypeCorrect`, whose last conjunct says where claimed rows are: `expectedGroup`
and `CLAIM_ACTIVE` are compared with the row at the moment of writing. The
unread flag is not, and its proof needs `CInv`: of each kind of batch one is
under way at most (`BatchesApart`), those of two kinds have seen their rows in
different groups (`ScanShape`), and the snapshot of a scan is what is stored wherever it was
not crossed (`SnapshotHolds`, theorem `UncrossedSnapshotsHold`). The two parts
need each other: a batch that writes does not touch the rows of a waiting batch
because those have another group, which it knows from its snapshot. From it
follow `ReadMailAlwaysStaysRead` and `UnreadMailAlwaysStaysUnread`, for any
numbers of rows, checks and messages.

**Sharing** (`MailAccess_proofs`). `GrantInv`: an address has one row that is
kept and a row has one grant (`RowsApart`, `GrantsApart`); from it
`OneReaderAlways`. Its step lemma also says what a step can do to a grant
(`GrantStep`): make it, let its time run, or give it its next revision, so that
a revision never names two tokens. `AccessInv` adds what sessions, requests and
cache entries rest on: a session or request holds the token of its revision for
as long as that revision is in force (`Holds`); a request with mail waits for or
has a fetch of its own row and range (`MailOK`); an entry is too young to hold
mail of a mailbox replaced a cache lifetime ago (`CacheOK`); mail of a row
unlisted ever since stays before the second look (`UnlistedOK`). A fetch that
somebody awaits lives on over every step (`FetchLives`). Results: `AccessTypes`,
`SessionsAlwaysHoldTheToken`, `ReleasesAreAllowed`, `OnlyGrantedMailIsReleased`,
`MailIsFromCurrentMailbox`, for any numbers of rows, grants, sessions, requests,
fetches and distributions at once.

**The process and its log** (`Process_proofs`). `ProcessInv`: nobody is in a
queue twice, and everybody in one waits for it, in the state that matches
(`QueueOrder`); the stages of the shutdown come in order, and what an earlier
stage waited for stays away afterwards (`ShutdownOrder`). From it
`ACompleteShutdownIsDone`, for any number of requests. The log needs an
invariant of its own, `Accounted`: every line that was logged is in the queue,
written or dropped; each step of the drain, the overflow and the exit hooks
keeps it, and the hooks empty the queue. From it `EveryLineIsAccountedFor`, for
any sizes of queue, file and backups.

`RotationKeepsTheNewest` needs to know what the files hold (`Shelf`): lines that
were written, in order from the oldest backup to the current file; of these the
current file has the last ones without a gap; and it and the first backup have
as many of the newest as fill a file. A rotation begins with a full current
file only (`DrainOK`), whose lines are the newest, so whichever of its steps
fails, what it loses is older. What is queued is newer than what was written,
and the line in flight lies between (`QueueOK`, `DrainOK`). The exit hooks fold
`writeEntrySync` over the queue: that the recursion within `FoldLeft` defines a
function (`FoldExists`), and that each line written on the way keeps `Shelf`
(`AllWritten`), are shown by a least counterexample, which needs no induction
theorem. Result: `TheNewestLinesAreKept`, for any sizes; that there is a backup
at all and that the exit is not forced are conditions of the property itself.
`TypeCorrect` holds without them.

**Local parts** (`Local_proofs`). `LabelOrder`: a number read from the file is
held by the head of the queue and above the file's; a number given out is in the
sequence and has one owner. Result: `NoLabelIsReservedTwice`. `BridgeInv` adds
`Undisturbed`: while nothing has failed there is at most one upload, the run's,
and what it holds or the file has is the latest unless another run follows.
Result: `NoCookieChangeIsForgotten`. `RemarkSurvives` is inductive as it stands,
for any answers in any order: `RemarkAlwaysSurvives`. `MailboxInv`: the mailbox
has been delivered up to the cursor; from where a scan goes on, or an interrupted
one will, up to the snapshot it took of the mailbox it has been delivered, too
(`Covered`, in `ScanOK` of the scan and in `JobOK` of the checkpoint); and what
lies below is delivered or among what the scan found. The lemmas under it say what the greatest and the least of
a set of UIDs are, and what the candidates of a batch leave. Result:
`CursorAlwaysCovers`, for any mailbox and any number of interruptions.

**Hosted parts** (`Hosted_proofs`). `SessionInv`: a session, and the read of a
login under way, is of the present administrator record or of an older version
(`Outlived`); two passwords never share a version. Result:
`SessionsAlwaysKnowThePassword`. `AccountsInv`: accounts are apart; the one being
added is free, as is its Apple ID; and at each account the uploads that wait are
newer than what is stored (`QueueInv`). Results:
`AccountsAlwaysHaveTheirInventory`, `AccountsAlwaysStayApart`,
`CookiesOnlyGoForward`. `PageInv`: from a login on the cookie is that of the
mailbox opened last, unless the action is outdated. Result:
`PageShowsTheOpenedMailbox`.

**Types.** Every component's type invariant is proved: `TypeCorrect` of the
store, auto stock, mail checks and the process, `AccessTypes`,
`LabelsAlwaysTyped`, `BridgeAlwaysTyped`, `PageAlwaysTyped`,
`MailboxAlwaysTyped`, `AdminAlwaysTyped`, `AccountsAlwaysTyped` and
`InboxAlwaysTyped`.

Only model-checked: the liveness properties `NeverStuckSilently`,
`SignalEndsTheProcess`, `LatestCookiesWin` and `PageCatchesUp`, since liveness
under fairness and `ENABLED` are out of the prover's reach. Every invariant and
action property of the passing runs, and the refinement, is a theorem; where one
has an assumption, it is named above. None of the modules declares a recursive
operator.

## 5. Plan

What is modelled, and in what order, is described above; what is checked and can
be proved is proved. Left to do:

1. The search windows and the timeouts of `listForAlias`, if they grow a state
   of their own.
2. The dashboard's claim history and the administrator's page, if they come to
   keep anything between two answers.

## 6. Not modelled, and why

* Parsing of mail and verification codes, sanitising of HTML, script output and
  cookie ages: conversions of text without state, tested by examples.
* The API key file: one exclusive create whose loser adopts the winner's file,
  done once before the server starts.
* HTTP routing, envelopes, authentication headers and rate limits: sequential,
  their state changes are those of the services.
* `scanMail` of the hosted edition (`lib/hosted/platform.mjs:49`): one scan of an
  account at a time, and nothing else there writes what it writes (section 2).
* Program keys with their scopes, the audit trail, names and colours of the
  hosted edition: records that are written and shown; no step depends on them.
* The administrator's page, and of the dashboard its claim history, the display
  of the job and the migration at its first start (its effect on the store is
  modelled): they show what the interface answers.
* Encryption, hashing and cross-origin checks: not about order.
* Smoke tests, start scripts, the container and proxy configuration: tooling.
* Malformed state files: `read` refuses them, and no operation writes one.

## 7. Running

`tlc -config <run>.cfg <module>` for each row of the tables
(`MCDashboardStore`, `MCAutoStock`, `MCMailScan`, `MCMailAccess`, `MCLocal`,
`MCHosted`; `process` needs no `MC` module and runs `Process` itself), and
`tlapm <module>_proofs.tla` for the proofs. `stock_late_sync` is expected to
stop with a counterexample.
