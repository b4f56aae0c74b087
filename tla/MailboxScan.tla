----------------------------- MODULE MailboxScan ----------------------------
(***************************************************************************)
(* scanAllForAliases of the forward mailbox reader                         *)
(* (lib/forward-mailbox.mjs): a scan of a whole mailbox in batches, newest *)
(* first, that resumes from its last checkpoint after a failure, and later *)
(* scans that fetch only what is above the cursor of the last one.         *)
(*                                                                         *)
(* One of the configured mailboxes; a later one can fail a scan that has   *)
(* completed it.  No code of the repository but the tests calls the scan:  *)
(* the caller here does what its callback and result are made for, it      *)
(* stores a batch together with its checkpoint and cursor, and drops the   *)
(* checkpoints when the scan returns.                                      *)
(***************************************************************************)
EXTENDS Integers, FiniteSetsExt

CONSTANTS
    MaxUid,         \* bound on the UIDs of the mailbox
    Batch,          \* batchSize
    MaxValidity     \* bound on UIDVALIDITY

ASSUME MailboxAssumption ==
    MaxUid \in Nat /\ Batch \in Nat \ {0} /\ MaxValidity \in Nat

VARIABLES
    uidValidity,
    mailbox,        \* the UIDs of its messages
    uidNext,
    delivered,      \* the UIDs the caller has been given, under this validity
    cursor, job,    \* what the caller has stored: the cursor, the checkpoint
    scan            \* the scan under way

stored == <<delivered, cursor, job>>
server == <<uidValidity, mailbox, uidNext>>
mailboxVars == <<server, stored, scan>>

Uids == 1..MaxUid
None == -1      \* the validity of what there is not

Cursors == [validity : Nat \cup {None}, lastUid : 0..MaxUid]
Checkpoints == [validity : Nat \cup {None}, snapshotMaxUid : 0..MaxUid,
                nextBeforeUid : 0..(MaxUid + 1), complete : BOOLEAN]
NoCursor == [validity |-> None, lastUid |-> 0]
NoJob == [validity |-> None, snapshotMaxUid |-> 0, nextBeforeUid |-> 0, complete |-> FALSE]

ScanSteps == {"idle", "batches", "fetched", "done"}
IdleScan == [at |-> "idle", found |-> {}, point |-> NoJob]

MailboxTypeOK ==
    /\ uidValidity \in Nat
    /\ mailbox \subseteq Uids
    /\ uidNext \in 1..(MaxUid + 1)
    /\ delivered \subseteq Uids
    /\ cursor \in Cursors
    /\ job \in Checkpoints
    /\ scan \in [at : ScanSteps, found : SUBSET Uids, point : Checkpoints]

MailboxInit ==
    /\ uidValidity = 0
    /\ mailbox = {} /\ uidNext = 1
    /\ delivered = {}
    /\ cursor = NoCursor /\ job = NoJob
    /\ scan = IdleScan

-----------------------------------------------------------------------------
(* The mailbox.                                                             *)

Arrives ==
    /\ uidNext <= MaxUid
    /\ mailbox' = mailbox \cup {uidNext}
    /\ uidNext' = uidNext + 1
    /\ UNCHANGED <<uidValidity, stored, scan>>

Expunged ==
    /\ \E u \in mailbox : mailbox' = mailbox \ {u}
    /\ UNCHANGED <<uidValidity, uidNext, stored, scan>>

(* The server numbers the messages anew, which no open session sees.        *)
Renumbered ==
    /\ uidValidity < MaxValidity /\ scan.at = "idle"
    /\ uidValidity' = uidValidity + 1
    /\ mailbox' = 1..Cardinality(mailbox)
    /\ uidNext' = Cardinality(mailbox) + 1
    /\ delivered' = {}
    /\ UNCHANGED <<cursor, job, scan>>

-----------------------------------------------------------------------------
(* The scan.                                                                *)

Top(found, default) == IF found = {} THEN default ELSE Max(found)

Incremental(mode) == mode = "incremental" /\ cursor.validity = uidValidity

Found(mode) == IF Incremental(mode) THEN {u \in mailbox : u > cursor.lastUid} ELSE mailbox

Resumes == job.validity = uidValidity /\ ~job.complete

Snapshot(mode) ==
    Top(Found(mode), IF Incremental(mode) THEN cursor.lastUid ELSE 0)

Fresh(mode) == [validity |-> uidValidity, snapshotMaxUid |-> Snapshot(mode),
                nextBeforeUid |-> Snapshot(mode) + 1, complete |-> FALSE]

Start_MovesSnapshot(mode) ==                \* mutant
    IF Resumes THEN [job EXCEPT !.snapshotMaxUid = Snapshot(mode)] ELSE Fresh(mode)

(* A resumed scan keeps to the snapshot its checkpoint was taken in.        *)
Start(mode) == IF Resumes THEN job ELSE Fresh(mode)

(* mailboxOpen and the search; what a checkpoint says complete is skipped.  *)
Open(mode) ==
    /\ scan.at = "idle"
    /\ scan' = IF job.validity = uidValidity /\ job.complete
               THEN [at |-> "done", found |-> {}, point |-> job]
               ELSE [at |-> "batches", found |-> Found(mode), point |-> Start(mode)]
    /\ UNCHANGED <<server, stored>>

Left(point) == {u \in scan.found : u <= point.snapshotMaxUid /\ u < point.nextBeforeUid}

(* The newest Batch of what is left.                                        *)
Candidates == {u \in Left(scan.point) :
                  Cardinality({v \in Left(scan.point) : v > u}) < Batch}

(* The fetch of a batch, which gives what has not been expunged.            *)
Fetch ==
    /\ scan.at = "batches" /\ Candidates # {}
    /\ scan' = [scan EXCEPT !.at = "fetched"]
    /\ UNCHANGED <<server, stored>>

CursorAt(point) == [validity |-> point.validity, lastUid |-> point.snapshotMaxUid]

(* onBatch: the caller stores the messages, the checkpoint and, after the   *)
(* last batch, the cursor.                                                  *)
OnBatch ==
    /\ scan.at = "fetched"
    /\ LET boundary == Min(Candidates)
           complete == \A u \in Left(scan.point) : u >= boundary
           point == [scan.point EXCEPT !.nextBeforeUid = IF complete THEN 0 ELSE boundary,
                                       !.complete = complete]
       IN  /\ delivered' = delivered \cup (Candidates \cap mailbox)
           /\ job' = point
           /\ cursor' = IF complete THEN CursorAt(point) ELSE cursor
           /\ scan' = [scan EXCEPT !.at = IF complete THEN "done" ELSE "batches",
                                   !.point = point]
    /\ UNCHANGED server

(* Nothing is left to fetch.                                                *)
Exhausted ==
    /\ scan.at = "batches" /\ Candidates = {}
    /\ scan' = [scan EXCEPT !.at = "done", !.point.nextBeforeUid = 0, !.point.complete = TRUE]
    /\ UNCHANGED <<server, stored>>

(* The scan returns: the caller stores the cursor, the job is over.         *)
Returns ==
    /\ scan.at = "done"
    /\ cursor' = CursorAt(scan.point)
    /\ job' = NoJob
    /\ scan' = IdleScan
    /\ UNCHANGED <<server, delivered>>

(* A fetch fails, another mailbox cannot be opened, or the process ends.    *)
Aborts ==
    /\ scan.at # "idle"
    /\ scan' = IdleScan
    /\ UNCHANGED <<server, stored>>

MailboxNext ==
    \/ Arrives \/ Expunged \/ Renumbered
    \/ \E mode \in {"full", "incremental"} : Open(mode)
    \/ Fetch \/ OnBatch \/ Exhausted \/ Returns \/ Aborts

MailboxSpec == MailboxInit /\ [][MailboxNext]_mailboxVars

-----------------------------------------------------------------------------
(* Incremental scans never look below the cursor again, so every message    *)
(* the mailbox still has up to the cursor has been delivered: whatever mail *)
(* came or went while a scan ran or lay interrupted, wherever it was cut    *)
(* off, in whichever mode it was resumed, and when the server numbered the  *)
(* messages anew (scanAllForAliases).                                       *)
CursorCoversEverything ==
    cursor.validity = uidValidity =>
        \A u \in mailbox : u <= cursor.lastUid => u \in delivered

=============================================================================
