----------------------------- MODULE AutoStock -----------------------------
(***************************************************************************)
(* AutoStockService (lib/auto-stock-service.mjs): the one background job   *)
(* that asks Apple for new hidden addresses until the inventory has        *)
(* Target of them, with the manual generation that shares its queue, the   *)
(* iCloud sync that reconciles it, and restarts of the process.            *)
(*                                                                         *)
(* Generation is not idempotent: every request Apple gets mints an         *)
(* address.  So a durable inFlight marker goes down before the request,    *)
(* and comes up only when the outcome is known and stored, or when a sync  *)
(* has fetched what Apple has.                                             *)
(*                                                                         *)
(* Each store mutation is one step (DashboardStore.tla opens it up) that   *)
(* may fail and then changes nothing.  Clock times are kept as the time    *)
(* left until they pass.  Apple is external: it mints at once what it will *)
(* ever mint for a request, reports it or not, and lists all of it.  The   *)
(* operator deletes no address here.                                       *)
(***************************************************************************)
EXTENDS Integers, FiniteSets

CONSTANTS
    Addresses,      \* what Apple can mint
    Target,         \* AUTO_STOCK_TARGET
    BatchSize,      \* AUTO_STOCK_BATCH_SIZE
    Interval,       \* AUTO_STOCK_INTERVAL_MS
    Retry,          \* RETRY_MS
    Overlap,        \* whether a sync may run while a generation does
    ByHand,         \* the kinds of manual generation in use
    MaxCrashes      \* bound on the restarts

ASSUME StockAssumption ==
    /\ IsFiniteSet(Addresses)
    /\ Target \in Nat /\ BatchSize \in Nat \ {0}
    /\ Retry \in Nat /\ Interval \in Nat /\ Retry <= Interval
    /\ Overlap \in BOOLEAN
    /\ ByHand \subseteq {"one", "batch"}
    /\ MaxCrashes \in Nat

VARIABLES
    inventory,      \* the addresses in the state file
    job,            \* its autoStock settings
    minted,         \* the addresses Apple has
    pc,             \* where the running turn of the service queue is
    batch,          \* what that turn asked for, and has been told
    stopped, volatilePause,     \* members of the service
    sync,           \* where a POST sync-icloud is
    syncRows,       \* what Apple listed for it
    crashes,
    sinceBatch      \* history: time since a background batch was settled, up to Interval

durable == <<inventory, job, minted>>
turn == <<pc, batch>>
service == <<stopped, volatilePause>>
syncing == <<sync, syncRows>>
history == <<crashes, sinceBatch>>
vars == <<durable, turn, service, syncing, history>>

Jobs == [configured : BOOLEAN, enabled : BOOLEAN, inFlight : BOOLEAN,
         paused : BOOLEAN, cooldown : 0..Interval, failures : 0..3]

Kinds == {"auto", "one", "batch"}
Batches == [kind : Kinds, want : Nat, got : SUBSET Addresses,
            error : {"none", "clean", "uncertain"}]
NoBatch == [kind |-> "auto", want |-> 0, got |-> {}, error |-> "none"]

(* idle; due: preflight checks passed; generating: marker down, at Apple;   *)
(* received: generate returned; stored: rows created; failing: in catch.    *)
TurnStates == {"idle", "due", "generating", "received", "stored", "failing"}

running == pc \in {"generating", "received", "stored", "failing"}

(* The job's counters and the size of a batch stay in their ranges: no turn *)
(* asks Apple for less than nothing.                                        *)
TypeOK ==
    /\ inventory \subseteq Addresses
    /\ minted \subseteq Addresses
    /\ job \in Jobs
    /\ pc \in TurnStates
    /\ batch \in Batches
    /\ stopped \in BOOLEAN /\ volatilePause \in BOOLEAN
    /\ sync \in {"idle", "listed", "merged"}
    /\ syncRows \subseteq Addresses
    /\ crashes \in 0..MaxCrashes
    /\ sinceBatch \in 0..Interval

Init ==
    /\ inventory = {}
    /\ job = [configured |-> FALSE, enabled |-> FALSE, inFlight |-> FALSE,
              paused |-> FALSE, cooldown |-> 0, failures |-> 0]
    /\ minted = {}
    /\ pc = "idle" /\ batch = NoBatch
    /\ stopped = FALSE /\ volatilePause = FALSE
    /\ sync = "idle" /\ syncRows = {}
    /\ crashes = 0 /\ sinceBatch = Interval

-----------------------------------------------------------------------------
(* PATCH /v1/auto-stock.  Enabling is refused while a result is unknown;    *)
(* turning the switch never resets the cooldown.                            *)

MayEnable == running \/ ~job.inFlight

Configure_ResetsCooldown(enabled) ==        \* mutant
    /\ enabled => MayEnable
    /\ job' = [job EXCEPT !.configured = TRUE, !.enabled = enabled, !.cooldown = 0,
                          !.paused = @ /\ (~enabled \/ running)]
    /\ UNCHANGED <<inventory, minted, turn, service, syncing, history>>

Configure(enabled) ==
    /\ enabled => MayEnable
    /\ job' = [job EXCEPT !.configured = TRUE, !.enabled = enabled,
                          !.paused = @ /\ (~enabled \/ running)]
    /\ UNCHANGED <<inventory, minted, turn, service, syncing, history>>

(* A PATCH of the prefix only.                                              *)
ConfigurePrefix ==
    /\ job' = [job EXCEPT !.configured = TRUE]
    /\ UNCHANGED <<inventory, minted, turn, service, syncing, history>>

(* POST /v1/auto-stock/initialize: a browser's old plan, the first time.    *)
(* Its last batch and its next attempt can only lengthen the cooldown.      *)
Initialize(enabled, paused, cooldown) ==
    /\ ~job.configured
    /\ job' = [job EXCEPT !.configured = TRUE, !.enabled = enabled, !.paused = paused,
                          !.cooldown = IF cooldown > @ THEN cooldown ELSE @]
    /\ UNCHANGED <<inventory, minted, turn, service, syncing, history>>

-----------------------------------------------------------------------------
(* A turn of the service queue: tick, manualOne or manualBatch, then        *)
(* perform.                                                                 *)

Total == Cardinality(inventory)

Due_GivesUp == /\ job.configured /\ job.enabled         \* mutant
               /\ ~job.paused /\ ~job.inFlight
               /\ Total < Target /\ job.cooldown = 0 /\ job.failures < 3

Due == /\ job.configured /\ job.enabled
       /\ ~job.paused /\ ~job.inFlight
       /\ Total < Target /\ job.cooldown = 0

Begin(kind) ==
    /\ pc = "idle"
    /\ ~stopped /\ ~volatilePause
    /\ pc' = "due"
    /\ batch' = [NoBatch EXCEPT !.kind = kind]
    /\ UNCHANGED <<durable, service, syncing, history>>

tick == Due /\ Begin("auto")

(* The former browser timer's endpoint yields to a configured service.      *)
Manual == \E kind \in ByHand :
    /\ kind = "batch" => ~job.configured
    /\ Begin(kind)

Wanted_FullBatch == IF batch.kind = "one" THEN {1} ELSE {BatchSize}     \* mutant

Wanted == IF batch.kind = "auto"
          THEN {IF Target - Total < BatchSize THEN Target - Total ELSE BatchSize}
          ELSE IF batch.kind = "one" THEN {1} ELSE 1..BatchSize

(* The mutation that claims the attempt checks again what may have changed  *)
(* since, and puts down the marker and the cooldown in the same write.      *)
MayClaim_ManualAnyTime == batch.kind = "auto" => Due       \* mutant

MayClaim == IF batch.kind = "auto" THEN Due ELSE ~job.inFlight

Claim ==
    /\ pc = "due"
    /\ MayClaim
    /\ Overlap \/ sync = "idle"
    /\ pc' = "generating"
    /\ batch' \in {[batch EXCEPT !.want = n] : n \in Wanted}
    /\ job' = [job EXCEPT !.inFlight = TRUE, !.cooldown = Interval]
    /\ UNCHANGED <<inventory, minted, service, syncing, history>>

(* The check fails, or the write does: nothing was asked of Apple.          *)
GiveUp ==
    /\ pc = "due"
    /\ pc' = "idle" /\ batch' = NoBatch
    /\ UNCHANGED <<durable, service, syncing, history>>

(* One request of the batch: Apple mints an address and it is reported ...  *)
Generate ==
    /\ pc = "generating"
    /\ Cardinality(batch.got) < batch.want
    /\ \E x \in Addresses \ minted :
        /\ minted' = minted \cup {x}
        /\ batch' = [batch EXCEPT !.got = @ \cup {x}]
    /\ UNCHANGED <<inventory, job, pc, service, syncing, history>>

(* ... or Apple refuses it, or it is never sent for want of cookies or a    *)
(* valid label; a batch that has something goes on without that label, and  *)
(* any other turn ends ...                                                  *)
GenerateRefused ==
    /\ pc = "generating"
    /\ Cardinality(batch.got) < batch.want
    /\ IF batch.got # {}
       THEN /\ batch' = [batch EXCEPT !.error = "clean", !.want = @ - 1]
            /\ pc' = pc
       ELSE /\ batch' = [batch EXCEPT !.error = "clean"]
            /\ pc' \in IF batch.kind = "one" THEN {"failing"} ELSE {"received", "failing"}
    /\ UNCHANGED <<durable, service, syncing, history>>

(* ... or the answer is lost, and Apple may or may not have minted one.     *)
GenerateUncertain ==
    /\ pc = "generating"
    /\ Cardinality(batch.got) < batch.want
    /\ \E X \in SUBSET (Addresses \ minted) :
        Cardinality(X) <= 1 /\ minted' = minted \cup X
    /\ batch' = [batch EXCEPT !.error = "uncertain"]
    /\ pc' = IF batch.kind = "one" THEN "failing" ELSE "received"
    /\ UNCHANGED <<inventory, job, service, syncing, history>>

GenerateDone ==
    /\ pc = "generating"
    /\ Cardinality(batch.got) = batch.want
    /\ pc' = "received"
    /\ UNCHANGED <<durable, batch, service, syncing, history>>

(* createInventoryItems                                                     *)
Persist ==
    /\ pc = "received"
    /\ pc' = "stored"
    /\ inventory' = inventory \cup batch.got
    /\ UNCHANGED <<job, minted, batch, service, syncing, history>>

(* The response is malformed, or a write after it fails: the outcome counts *)
(* as unknown from here on.                                                 *)
AfterReceivedFails ==
    /\ pc \in {"received", "stored"}
    /\ pc' = "failing"
    /\ batch' = [batch EXCEPT !.error = "uncertain"]
    /\ UNCHANGED <<durable, service, syncing, history>>

Delays(failures) == IF failures = 3 THEN {Interval} ELSE {Retry, Interval}

OneMore == IF job.failures = 3 THEN 3 ELSE job.failures + 1

(* The last mutation of perform, and the one of its catch: the marker comes *)
(* up unless the outcome is unknown, which also turns the job off.          *)
Settled(uncertain, failures, cooldown) ==
    [job EXCEPT !.enabled = @ /\ ~uncertain, !.inFlight = uncertain,
                !.paused = uncertain, !.failures = failures, !.cooldown = cooldown]

Settle ==
    /\ pc = "stored"
    /\ LET uncertain == batch.error = "uncertain"
       IN  IF batch.got # {}
           THEN job' = Settled(uncertain, 0, Interval)
           ELSE \E d \in Delays(OneMore) : job' = Settled(uncertain, OneMore, d)
    /\ sinceBatch' = IF batch.kind = "auto" /\ batch.got # {} THEN 0 ELSE sinceBatch
    /\ pc' = "idle" /\ batch' = NoBatch
    /\ UNCHANGED <<inventory, minted, service, syncing, crashes>>

Pause ==
    /\ pc = "failing"
    /\ \E d \in Delays(OneMore) :
            job' = Settled(batch.error = "uncertain", OneMore, d)
    /\ pc' = "idle" /\ batch' = NoBatch
    /\ UNCHANGED <<inventory, minted, service, syncing, history>>

(* Not even the pause can be written: the latch stops this process.         *)
PauseFails ==
    /\ pc = "failing"
    /\ volatilePause' = TRUE
    /\ pc' = "idle" /\ batch' = NoBatch
    /\ UNCHANGED <<durable, stopped, syncing, history>>

-----------------------------------------------------------------------------
(* POST sync-icloud: list at Apple, merge, reconcile.  Any of them can      *)
(* fail and end it.                                                         *)

SyncList ==
    /\ sync = "idle"
    /\ Overlap \/ ~running
    /\ sync' = "listed" /\ syncRows' = minted
    /\ UNCHANGED <<durable, turn, service, history>>

SyncMerge ==
    /\ sync = "listed"
    /\ inventory' = inventory \cup syncRows
    /\ sync' = "merged" /\ syncRows' = {}
    /\ UNCHANGED <<job, minted, turn, service, history>>

reconciled ==
    /\ sync = "merged"
    /\ job' = IF running THEN job ELSE [job EXCEPT !.inFlight = FALSE, !.paused = FALSE]
    /\ volatilePause' = FALSE
    /\ sync' = "idle"
    /\ UNCHANGED <<inventory, minted, turn, stopped, syncRows, history>>

SyncFails ==
    /\ sync # "idle"
    /\ sync' = "idle" /\ syncRows' = {}
    /\ UNCHANGED <<durable, turn, service, history>>

-----------------------------------------------------------------------------
(* stop: no new turn begins, the running one is waited for.                 *)
stop ==
    /\ ~stopped
    /\ stopped' = TRUE
    /\ UNCHANGED <<durable, turn, volatilePause, syncing, history>>

(* The process ends, at any point, and is started again.  A request it had  *)
(* at Apple may still mint.                                                 *)
Restart ==
    /\ crashes < MaxCrashes
    /\ crashes' = crashes + 1
    /\ IF pc = "generating" /\ Cardinality(batch.got) < batch.want
       THEN \E X \in SUBSET (Addresses \ minted) :
                Cardinality(X) <= 1 /\ minted' = minted \cup X
       ELSE UNCHANGED minted
    /\ pc' = "idle" /\ batch' = NoBatch
    /\ stopped' = FALSE /\ volatilePause' = FALSE
    /\ sync' = "idle" /\ syncRows' = {}
    /\ UNCHANGED <<inventory, job, sinceBatch>>

Elapse ==
    /\ job.cooldown > 0 \/ sinceBatch < Interval
    /\ job' = [job EXCEPT !.cooldown = IF @ = 0 THEN 0 ELSE @ - 1]
    /\ sinceBatch' = IF sinceBatch = Interval THEN Interval ELSE sinceBatch + 1
    /\ UNCHANGED <<inventory, minted, turn, service, syncing, crashes>>

Operator ==
    \/ \E b \in BOOLEAN : Configure(b)
    \/ ConfigurePrefix
    \/ \E b, p \in BOOLEAN, d \in 0..Interval : Initialize(b, p, d)

Perform == Claim \/ GiveUp \/ Generate \/ GenerateRefused \/ GenerateUncertain
    \/ GenerateDone \/ Persist \/ AfterReceivedFails \/ Settle \/ Pause \/ PauseFails

Sync == SyncList \/ SyncMerge \/ reconciled \/ SyncFails

Next == Operator \/ tick \/ Manual \/ Perform \/ Sync \/ stop \/ Restart \/ Elapse

Spec == Init /\ [][Next]_vars

-----------------------------------------------------------------------------
(* What the job owes.                                                       *)

Claimed(kinds) == pc = "due" /\ pc' = "generating" /\ batch.kind \in kinds

(* What docs/api.md says of an unknown or interrupted result: the inventory *)
(* is recovered before anything more is generated.  So when Apple is asked, *)
(* by the job or by hand, every address it minted is in the inventory,      *)
(* whatever writes failed, restarts came and switches were turned           *)
(* (perform, configure, reconciled).                                        *)
NothingGeneratedWhileUnknown ==
    [][Claimed(Kinds) => minted \subseteq inventory]_vars

(* The background job asks Apple for no more than is missing from Target,   *)
(* counting what Apple has and the inventory does not (tick, perform).      *)
NeverAsksBeyondTarget ==
    [][Claimed({"auto"}) => Cardinality(minted) + batch'.want <= Target]_vars

(* "At most one batch an hour" (docs/api.md): no background batch begins    *)
(* within Interval of one that brought addresses, across failures, restarts,*)
(* switches and a late browser's initialization (nextAttemptAt).            *)
OneBatchAnHour ==
    [][Claimed({"auto"}) => sinceBatch = Interval]_vars

(* The status page gives a reason (status).                                 *)
Paused == job.paused \/ (job.inFlight /\ ~running) \/ volatilePause

(* The store, Apple and the timer do not fail for ever: a claim that can    *)
(* be written again and again is written, a request that can be answered    *)
(* again and again is.  setInterval and the event loop run each turn on.    *)
Fairness ==
    /\ WF_vars(Elapse)
    /\ WF_vars(tick)
    /\ WF_vars(Perform)
    /\ SF_vars(Claim)
    /\ SF_vars(Generate)
    /\ WF_vars(SyncMerge \/ reconciled \/ SyncFails)

FairSpec == Spec /\ Fairness

(* A job that is left on brings the inventory to Target or says why not: it *)
(* never stops silently (tick, perform, failureDelay).  Addresses bounds    *)
(* what the model's Apple can mint; a behaviour that used them up, in lost  *)
(* answers, asks no more of the job.                                        *)
NeverStuckSilently ==
    <>[](job.configured /\ job.enabled /\ ~stopped)
        => []<>(Total >= Target \/ Paused \/ minted = Addresses)

=============================================================================
