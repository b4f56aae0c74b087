---------------------------- MODULE CookieBridge ----------------------------
(***************************************************************************)
(* How the iCloud login travels from the browser to the server: the sync   *)
(* worker of the browser extension (background.js), the endpoint that      *)
(* accepts its uploads, the server's own refresh from Edge with its two    *)
(* scripts, and the queue that serializes the writes of cookies.txt        *)
(* (server.mjs).                                                           *)
(*                                                                         *)
(* The cookies in the browser are a version number that grows with every   *)
(* change.  Their several reads may see different versions; a mixture      *)
(* counts as the oldest of them.  The worker may be killed at any time,    *)
(* its upload may still arrive then, in any order with later ones.         *)
(***************************************************************************)
EXTENDS Integers, Sequences

CONSTANTS
    MaxChanges,         \* bound on the changes of the cookies
    MaxDisturbances     \* bound on the failures, kills and refreshes

ASSUME BridgeAssumption == MaxChanges \in Nat /\ MaxDisturbances \in Nat

VARIABLES
    jar,            \* the cookies in the browser
    timer,          \* debounceTimer is running
    resync,         \* resyncQueued
    sync,           \* the runs of syncCookies
    posts,          \* uploads on their way to the server
    fileQueue,      \* secretFileQueues of cookies.txt
    cookieFile,     \* cookies.txt
    refresh,        \* refreshICloudCookiesFromEdge
    disturbances    \* history: failures, kills and refreshes so far

worker == <<timer, resync, sync>>
bridgeVars == <<jar, worker, posts, fileQueue, cookieFile, refresh, disturbances>>

Versions == 0..MaxChanges
NotRead == -1

(* run: inFlightSync; direct: syncCookies as the debug script calls it.     *)
Syncs == {"run", "direct"}
SyncStates == [at : {"idle", "collecting", "posting"}, holds : Versions]
Uploads == [by : Syncs \cup {"nobody"}, cookies : Versions]
Writes == [by : Syncs \cup {"nobody", "python"}, cookies : Versions \cup {NotRead}]

BridgeTypeOK ==
    /\ jar \in Versions
    /\ timer \in BOOLEAN /\ resync \in BOOLEAN
    /\ sync \in [Syncs -> SyncStates]
    /\ posts \subseteq Uploads
    /\ fileQueue \in Seq(Writes)
    /\ cookieFile \in Versions
    /\ refresh \in {"none", "script", "reloaded", "syncing", "python"}
    /\ disturbances \in 0..MaxDisturbances

NotSyncing == [at |-> "idle", holds |-> 0]

BridgeInit ==
    /\ jar = 0
    /\ timer = FALSE /\ resync = FALSE
    /\ sync = [s \in Syncs |-> NotSyncing]
    /\ posts = {}
    /\ fileQueue = <<>>
    /\ cookieFile = 0
    /\ refresh = "none"
    /\ disturbances = 0

Disturbs == disturbances < MaxDisturbances /\ disturbances' = disturbances + 1

-----------------------------------------------------------------------------
(* The worker.                                                              *)

Collecting == [at |-> "collecting", holds |-> jar]

(* A sync that finds one in flight only marks it to be run again.           *)
runSync_Drops ==                            \* mutant
    IF sync["run"].at = "idle"
    THEN sync' = [sync EXCEPT !["run"] = Collecting] /\ UNCHANGED resync
    ELSE UNCHANGED <<sync, resync>>

runSync ==
    IF sync["run"].at = "idle"
    THEN sync' = [sync EXCEPT !["run"] = Collecting] /\ UNCHANGED resync
    ELSE resync' = TRUE /\ UNCHANGED sync

(* cookies.onChanged: scheduleSync restarts the debounce timer.             *)
onChanged ==
    /\ jar < MaxChanges
    /\ jar' = jar + 1
    /\ timer' = TRUE
    /\ UNCHANGED <<resync, sync, posts, fileQueue, cookieFile, refresh, disturbances>>

Debounced ==
    /\ timer
    /\ timer' = FALSE
    /\ runSync
    /\ UNCHANGED <<jar, posts, fileQueue, cookieFile, refresh, disturbances>>

(* The alarm every five minutes; "sync now", a start of the browser and a   *)
(* click on the icon do the same.                                           *)
onAlarm ==
    /\ runSync
    /\ UNCHANGED <<jar, timer, posts, fileQueue, cookieFile, refresh, disturbances>>

(* collectAppleCookies has read the last of its cookies; the upload leaves. *)
Collected(s) ==
    /\ sync[s].at = "collecting"
    /\ \E v \in sync[s].holds..jar :
        /\ sync' = [sync EXCEPT ![s] = [at |-> "posting", holds |-> v]]
        /\ posts' = posts \cup {[by |-> s, cookies |-> v]}
    /\ UNCHANGED <<jar, timer, resync, fileQueue, cookieFile, refresh, disturbances>>

(* The end of a sync, whatever came of it; runSync then runs once more if   *)
(* it was asked to meanwhile.                                               *)
Ended_InFlight(s) ==                        \* mutant
    IF s = "run" /\ resync
    THEN sync' = [sync EXCEPT ![s] = Collecting] /\ resync' = FALSE
    ELSE UNCHANGED <<sync, resync>>

Ended(s) ==
    IF s = "run" /\ resync
    THEN sync' = [sync EXCEPT ![s] = Collecting] /\ resync' = FALSE
    ELSE sync' = [sync EXCEPT ![s] = NotSyncing] /\ UNCHANGED resync

(* No API key, no cookies, conflicting ones: nothing is uploaded.           *)
CollectFails(s) ==
    /\ sync[s].at = "collecting"
    /\ Disturbs
    /\ Ended(s)
    /\ UNCHANGED <<jar, timer, posts, fileQueue, cookieFile, refresh>>

Answered(by) == IF by \in Syncs THEN Ended(by) ELSE UNCHANGED <<resync, sync>>

Orphaned(u) == [u EXCEPT !.by = IF @ = "python" THEN @ ELSE "nobody"]

Killed ==
    /\ timer' = FALSE /\ resync' = FALSE
    /\ posts' = {Orphaned(p) : p \in posts}
    /\ fileQueue' = [k \in DOMAIN fileQueue |-> Orphaned(fileQueue[k])]

(* The browser ends the worker.                                             *)
Kill ==
    /\ Disturbs
    /\ Killed
    /\ sync' = [s \in Syncs |-> NotSyncing]
    /\ UNCHANGED <<jar, cookieFile, refresh>>

-----------------------------------------------------------------------------
(* The server.                                                              *)

(* acceptEdgeCookieBridge: the write of the upload joins the queue ...      *)
Accept ==
    /\ \E p \in posts :
        /\ posts' = posts \ {p}
        /\ fileQueue' = Append(fileQueue, p)
    /\ UNCHANGED <<jar, worker, cookieFile, refresh, disturbances>>

(* ... or the upload is refused, or never arrives.                          *)
Refuse ==
    /\ Disturbs
    /\ \E p \in posts : posts' = posts \ {p} /\ Answered(p.by)
    /\ UNCHANGED <<jar, timer, fileQueue, cookieFile, refresh>>

Ends(write) == IF write.by = "python" THEN refresh' = "none" ELSE UNCHANGED refresh

(* writeSecretFileAtomic: a temporary file and a rename.                    *)
WriteFile ==
    /\ fileQueue # <<>> /\ Head(fileQueue).cookies # NotRead
    /\ cookieFile' = Head(fileQueue).cookies
    /\ fileQueue' = Tail(fileQueue)
    /\ Answered(Head(fileQueue).by) /\ Ends(Head(fileQueue))
    /\ UNCHANGED <<jar, timer, posts, disturbances>>

(* The write fails, or the Python script has.                               *)
WriteFails ==
    /\ fileQueue # <<>>
    /\ Disturbs
    /\ fileQueue' = Tail(fileQueue)
    /\ Answered(Head(fileQueue).by) /\ Ends(Head(fileQueue))
    /\ UNCHANGED <<jar, timer, posts, cookieFile>>

(* refreshICloudCookiesFromEdge, before a listing or for a stale file.      *)
Refresh ==
    /\ refresh = "none"
    /\ Disturbs
    /\ refresh' = "script"
    /\ UNCHANGED <<jar, worker, posts, fileQueue, cookieFile>>

(* The first script reloads the extension, whose onInstalled runs a sync,   *)
(* and then calls syncCookies itself ...                                    *)
ScriptReloads ==
    /\ refresh = "script"
    /\ refresh' = "reloaded"
    /\ Killed
    /\ sync' = [s \in Syncs |-> IF s = "run" THEN Collecting ELSE NotSyncing]
    /\ UNCHANGED <<jar, cookieFile, disturbances>>

ScriptSyncs ==
    /\ refresh = "reloaded"
    /\ refresh' = "syncing"
    /\ sync' = [sync EXCEPT !["direct"] = Collecting]
    /\ UNCHANGED <<jar, timer, resync, posts, fileQueue, cookieFile, disturbances>>

ScriptEnds ==
    /\ refresh = "syncing" /\ sync["direct"].at = "idle"
    /\ refresh' = "none"
    /\ UNCHANGED <<jar, worker, posts, fileQueue, cookieFile, disturbances>>

(* ... and if it fails, a second one takes its turn in the queue and reads  *)
(* Edge's own cookies there.                                                *)
ScriptFails ==
    /\ refresh \in {"script", "reloaded", "syncing"}
    /\ refresh' = "python"
    /\ fileQueue' = Append(fileQueue, [by |-> "python", cookies |-> NotRead])
    /\ UNCHANGED <<jar, worker, posts, cookieFile, disturbances>>

PythonReads ==
    /\ fileQueue # <<>> /\ Head(fileQueue).cookies = NotRead
    /\ fileQueue' = [fileQueue EXCEPT ![1].cookies = jar]
    /\ UNCHANGED <<jar, worker, posts, cookieFile, refresh, disturbances>>

Script == ScriptReloads \/ ScriptSyncs \/ ScriptEnds \/ ScriptFails

BridgeNext ==
    \/ onChanged \/ Debounced \/ onAlarm
    \/ \E s \in Syncs : Collected(s) \/ CollectFails(s)
    \/ Kill
    \/ Accept \/ Refuse \/ WriteFile \/ WriteFails
    \/ Refresh \/ Script \/ PythonReads

BridgeSpec == BridgeInit /\ [][BridgeNext]_bridgeVars

(* Timers and alarms fire, reads and requests end, scripts have timeouts.   *)
BridgeFairness ==
    /\ WF_bridgeVars(Debounced) /\ WF_bridgeVars(onAlarm)
    /\ \A s \in Syncs : WF_bridgeVars(Collected(s))
    /\ WF_bridgeVars(Accept) /\ WF_bridgeVars(WriteFile)
    /\ WF_bridgeVars(Script) /\ WF_bridgeVars(PythonReads)

-----------------------------------------------------------------------------
(* "The last change of a cookie is always synced" (scheduleSync, runSync):  *)
(* while nothing fails, a change that cookies.txt does not have yet is      *)
(* still to be uploaded, or on its way, however changes, timers, alarms and *)
(* the end of an upload fall together.                                      *)
NoChangeForgotten ==
    disturbances = 0 /\ cookieFile # jar =>
        \/ timer \/ resync
        \/ sync["run"].at = "collecting"
        \/ sync["run"] = [at |-> "posting", holds |-> jar]

(* After finitely many failed uploads, killed workers and refreshes, and    *)
(* uploads that overtook one another on the way, cookies.txt comes to hold  *)
(* what the browser has, and keeps it (background.js, server.mjs).          *)
LatestCookiesWin == <>[](cookieFile = jar)

=============================================================================
