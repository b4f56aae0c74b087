------------------------------ MODULE Process -------------------------------
(***************************************************************************)
(* The life of a server process and its graceful shutdown: the HTTP server *)
(* and its handlers, the queue of the store, the queue of the auto-stock   *)
(* service and the lifecycle log; createGracefulShutdown (server.mjs) of   *)
(* the local dashboard and the signal handler of the hosted edition        *)
(* (hosted.mjs).                                                           *)
(*                                                                         *)
(* A handler reads and answers, or queues one mutation, or one turn of the *)
(* auto-stock service, and answers after it; AutoStock.tla and             *)
(* DashboardStore.tla open those up.  A client may disconnect: its handler *)
(* runs on, and the server no longer counts its connection.  A client may  *)
(* also never read its answer.  The hosted edition has no lifecycle log.   *)
(***************************************************************************)
EXTENDS LifecycleLog, FiniteSets

CONSTANTS
    Requests,       \* HTTP requests
    MaxLines,       \* bound on the lines logged for failures and diagnostics
    MaxFaults       \* bound on the file operations of the log that fail

ASSUME ProcessAssumption ==
    "job" \notin Requests /\ MaxLines \in Nat /\ MaxFaults \in Nat

VARIABLES
    hosted,         \* which edition runs
    server,         \* the HTTP server
    request,        \* where each handler is, and whether its client is there
    storeQueue,     \* whose mutations wait in the store
    turns,          \* whose turns wait in the auto-stock service
    stage,          \* where the first of them is
    stopped,        \* AutoStockService.stopped
    shutdown,       \* what the shutdown waits for
    awaited         \* how many mutations of the store it waits for

work == <<request, storeQueue, turns, stage>>
ending == <<shutdown, awaited>>
vars == <<log, exit, hosted, server, work, stopped, ending>>

job == "job"        \* the background job, as the owner of a turn or mutation
Owners == Requests \cup {job}

Handlers == [at : {"none", "work", "mutation", "turn", "sending", "done"},
             client : BOOLEAN]

Busy(r) == request[r].at \in {"work", "mutation", "turn", "sending"}

TypeOK ==
    /\ log \in Logs
    /\ exit \in {"running", "clean", "forced"}
    /\ hosted \in BOOLEAN
    /\ server \in {"open", "closing", "closed"}
    /\ request \in [Requests -> Handlers]
    /\ storeQueue \in Seq(Owners)
    /\ turns \in Seq(Owners)
    /\ stage \in {"idle", "claim", "apple", "settle"}
    /\ stopped \in BOOLEAN
    /\ shutdown \in {"none", "server", "background", "store", "log", "complete"}
    /\ awaited \in Nat

Init ==
    /\ log = NewLog /\ exit = "running"
    /\ hosted \in BOOLEAN
    /\ server = "open"
    /\ request = [r \in Requests |-> [at |-> "none", client |-> FALSE]]
    /\ storeQueue = <<>> /\ turns = <<>> /\ stage = "idle"
    /\ stopped = FALSE
    /\ shutdown = "none" /\ awaited = 0

running == exit = "running" /\ UNCHANGED <<exit, hosted>>

Says == log' = IF hosted THEN log ELSE lifecycleLog(log)
MaySay == (log.logged < MaxLines /\ Says) \/ UNCHANGED log

-----------------------------------------------------------------------------
(* Requests.                                                                *)

To(r, at) == request' = [request EXCEPT ![r].at =
                            IF at = "sending" /\ ~request[r].client THEN "done" ELSE at]

Arrive(r) ==
    /\ running
    /\ server = "open" /\ request[r].at = "none"
    /\ request' = [request EXCEPT ![r] = [at |-> "work", client |-> TRUE]]
    /\ UNCHANGED <<log, server, storeQueue, turns, stage, stopped, ending>>

Disconnect(r) ==
    /\ running
    /\ Busy(r) /\ request[r].client
    /\ request' = [request EXCEPT ![r] =
                    [at |-> IF @.at = "sending" THEN "done" ELSE @.at, client |-> FALSE]]
    /\ UNCHANGED <<log, server, storeQueue, turns, stage, stopped, ending>>

(* The client has read its answer.                                          *)
Sent(r) ==
    /\ running
    /\ request[r].at = "sending"
    /\ To(r, "done")
    /\ UNCHANGED <<log, server, storeQueue, turns, stage, stopped, ending>>

(* The handler answers, and logs if it fails.                               *)
Answer(r) ==
    /\ running
    /\ request[r].at = "work"
    /\ To(r, "sending")
    /\ MaySay
    /\ UNCHANGED <<server, storeQueue, turns, stage, stopped, ending>>

Mutate(r) ==
    /\ running
    /\ request[r].at = "work"
    /\ To(r, "mutation")
    /\ storeQueue' = Append(storeQueue, r)
    /\ UNCHANGED <<log, server, turns, stage, stopped, ending>>

manualOne(r) ==
    /\ running
    /\ request[r].at = "work"
    /\ To(r, "turn")
    /\ turns' = Append(turns, r)
    /\ UNCHANGED <<log, server, storeQueue, stage, stopped, ending>>

-----------------------------------------------------------------------------
(* The background: the auto-stock queue and the store.                      *)

tick ==
    /\ running
    /\ ~stopped /\ \A k \in DOMAIN turns : turns[k] # job
    /\ turns' = Append(turns, job)
    /\ UNCHANGED <<log, server, request, storeQueue, stage, stopped, ending>>

(* A turn ends; the request it was for is answered.                         *)
TurnEnds ==
    /\ stage' = "idle" /\ turns' = Tail(turns)
    /\ IF Head(turns) \in Requests THEN To(Head(turns), "sending") ELSE UNCHANGED request

(* The first turn of the queue starts, and is refused if the service is     *)
(* stopped: tick returns, perform throws SHUTTING_DOWN.                     *)
perform ==
    /\ running
    /\ turns # <<>> /\ stage = "idle"
    /\ IF stopped
       THEN TurnEnds /\ MaySay /\ UNCHANGED storeQueue
       ELSE /\ stage' = "claim"
            /\ storeQueue' = Append(storeQueue, job)
            /\ UNCHANGED <<log, turns, request>>
    /\ UNCHANGED <<server, stopped, ending>>

(* Apple has answered, or the request has timed out.                        *)
Generated ==
    /\ running
    /\ stage = "apple"
    /\ stage' = "settle" /\ storeQueue' = Append(storeQueue, job)
    /\ UNCHANGED <<log, server, request, turns, stopped, ending>>

(* One mutation of the store, which may fail.                               *)
mutate ==
    /\ running
    /\ storeQueue # <<>>
    /\ storeQueue' = Tail(storeQueue)
    /\ awaited' = IF awaited = 0 THEN 0 ELSE awaited - 1
    /\ IF Head(storeQueue) \in Requests
       THEN To(Head(storeQueue), "sending") /\ MaySay /\ UNCHANGED <<turns, stage>>
       ELSE \/ /\ stage = "claim" /\ stage' = "apple"
               /\ UNCHANGED <<log, request, turns>>
            \/ TurnEnds /\ MaySay
    /\ UNCHANGED <<server, stopped, shutdown>>

Drain ==
    /\ running
    /\ log.drain # Idle
    /\ \E ok \in BOOLEAN :
        /\ ok \/ log.faults < MaxFaults
        /\ log' = Drained(log, ok)
    /\ UNCHANGED <<server, work, stopped, ending>>

(* Diagnostics that are logged at any time.                                 *)
Diagnose ==
    /\ running
    /\ ~hosted /\ log.logged < MaxLines
    /\ Says
    /\ UNCHANGED <<server, work, stopped, ending>>

-----------------------------------------------------------------------------
(* The shutdown.                                                            *)

Connected(r) == Busy(r) /\ request[r].client

(* The first signal: the server and the background stop before any await;   *)
(* later signals join it.  The hosted edition does not wait for the server. *)
Signal ==
    /\ running
    /\ shutdown = "none"
    /\ Says
    /\ server' = "closing"
    /\ stopped' = TRUE
    /\ shutdown' = IF hosted THEN "background" ELSE "server"
    /\ UNCHANGED <<work, awaited>>

(* close() calls back: no connection is left.                               *)
ServerClosed ==
    /\ running
    /\ server = "closing" /\ \A r \in Requests : ~Connected(r)
    /\ server' = "closed"
    /\ Says
    /\ UNCHANGED <<work, stopped, ending>>

AfterServer_NotAwaited ==                   \* mutant
    /\ shutdown = "server"
    /\ shutdown' = "background"
    /\ UNCHANGED <<request, awaited>>

AfterServer ==
    /\ shutdown = "server" /\ server = "closed"
    /\ shutdown' = "background"
    /\ UNCHANGED <<request, awaited>>

(* stop waits until its queue is empty; the wait for the store begins.      *)
AfterBackground ==
    /\ shutdown = "background" /\ turns = <<>>
    /\ shutdown' = "store"
    /\ awaited' = Len(storeQueue)
    /\ UNCHANGED request

(* waitForIdle of the store waits again when the queue has moved on; idle   *)
(* of HostedState does not, and then the hosted edition closes every        *)
(* connection that is left.                                                 *)
AfterStore ==
    /\ shutdown = "store" /\ awaited = 0
    /\ IF hosted
       THEN /\ shutdown' = "complete" /\ awaited' = 0
            /\ request' = [r \in Requests |-> [at |->
                              IF request[r].at = "sending" THEN "done" ELSE request[r].at,
                              client |-> FALSE]]
       ELSE /\ shutdown' = IF storeQueue = <<>> THEN "log" ELSE "store"
            /\ awaited' = Len(storeQueue)
            /\ UNCHANGED request

AfterLog ==
    /\ shutdown = "log" /\ Quiet(log)
    /\ shutdown' = "complete"
    /\ UNCHANGED <<request, awaited>>

cleanup ==
    /\ running
    /\ AfterServer \/ AfterBackground \/ AfterStore \/ AfterLog
    /\ UNCHANGED <<log, server, storeQueue, turns, stage, stopped>>

(* The deadline: the process exits at once, with the hooks.                 *)
Deadline_Extended ==                        \* mutant
    /\ exit = "running"
    /\ shutdown \notin {"none", "server", "complete"}
    /\ exit' = "forced"
    /\ IF hosted THEN UNCHANGED log
       ELSE \E ok \in BOOLEAN : log' \in Exits(lifecycleLog(log), 1, ok)
    /\ UNCHANGED <<hosted, server, work, stopped, ending>>

Deadline ==
    /\ exit = "running"
    /\ shutdown \notin {"none", "complete"}
    /\ exit' = "forced"
    /\ IF hosted THEN UNCHANGED log
       ELSE \E ok \in BOOLEAN : log' \in Exits(lifecycleLog(log), 1, ok)
    /\ UNCHANGED <<hosted, server, work, stopped, ending>>

(* Nothing keeps the event loop alive: beforeExit and exit run their hooks. *)
LoopEmpty ==
    /\ server = "closed"
    /\ \A r \in Requests : ~Busy(r)
    /\ storeQueue = <<>> /\ turns = <<>> /\ log.drain = Idle

ProcessEnds ==
    /\ exit = "running"
    /\ shutdown = "complete" /\ LoopEmpty
    /\ exit' = "clean"
    /\ IF hosted THEN UNCHANGED log
       ELSE \E ok \in BOOLEAN : log' \in Exits(log, 2, ok)
    /\ UNCHANGED <<hosted, server, work, stopped, ending>>

Handle(r) == Answer(r) \/ Mutate(r) \/ manualOne(r)

Client(r) == Arrive(r) \/ Disconnect(r) \/ Sent(r)

Background == perform \/ Generated \/ mutate

Next ==
    \/ \E r \in Requests : Client(r) \/ Handle(r)
    \/ tick \/ Background \/ Drain \/ Diagnose
    \/ Signal \/ ServerClosed \/ cleanup \/ Deadline \/ ProcessEnds

Spec == Init /\ [][Next]_vars

(* Timers fire, promises resolve, and every request that the process makes  *)
(* has a timeout; nothing makes a client read or hang up.                   *)
Fairness ==
    /\ \A r \in Requests : WF_vars(Handle(r))
    /\ WF_vars(Background) /\ WF_vars(Drain)
    /\ WF_vars(ServerClosed) /\ WF_vars(cleanup)
    /\ WF_vars(Deadline) /\ WF_vars(ProcessEnds)

FairSpec == Spec /\ Fairness

-----------------------------------------------------------------------------
(* What a shutdown owes.                                                    *)

(* "Existing requests and the store write they may have queued are allowed  *)
(* to finish inside the same deadline": when the local shutdown completes,  *)
(* every client that stayed has its answer, no generation is under way, and *)
(* no mutation of either waits (createGracefulShutdown, waitForIdle).       *)
CompleteMeansDone ==
    shutdown = "complete" /\ ~hosted =>
        /\ \A r \in Requests : ~Connected(r)
        /\ stage = "idle"
        /\ job \notin ToSet(storeQueue)

(* A signal ends the process: a client that never reads, a stalled disk, a  *)
(* slow Apple or handlers that clients have left can delay it, not prevent  *)
(* it (createGracefulShutdown, the signal handler of hosted.mjs).           *)
SignalEndsTheProcess == shutdown # "none" ~> exit # "running"

=============================================================================
