---------------------------- MODULE LifecycleLog ----------------------------
(***************************************************************************)
(* The lifecycle logger (lib/lifecycle-log.mjs): lines are queued and      *)
(* written by one serial drain that stats, rotates and appends; the exit   *)
(* hooks of the process write synchronously what is still queued.          *)
(*                                                                         *)
(* Lines are numbered as they are logged and are one byte long.  The state *)
(* of a logger is one record, the operators say what a call makes of it:   *)
(* Process.tla lets the rest of the process call them.  A file that does   *)
(* not exist is empty.  Any file operation may fail.                       *)
(***************************************************************************)
EXTENDS Integers, SequencesExt

CONSTANTS
    MaxQueued,      \* maxQueued
    MaxBytes,       \* maxBytes
    MaxBackups      \* maxBackups

ASSUME LogAssumption ==
    /\ MaxQueued \in Nat \ {0}
    /\ MaxBytes \in Nat \ {0}
    /\ MaxBackups \in Nat

VARIABLES
    log,        \* the logger, its files, and the fate of its lines
    exit        \* "running", or how the process ended

Unknown == -1                       \* knownSize = null
Slots == 0..MaxBackups              \* the file, file.1, file.2 ...

(* Where writeEntry waits with the line it writes; slot: the next file of a *)
(* rotation to move.                                                        *)
Idle == [at |-> "idle", line |-> 0, slot |-> 0]
Drains == [at : {"idle", "stat", "rotate", "append"}, line : Nat, slot : Slots]

Disks == [size : Nat \cup {Unknown}, files : [Slots -> Seq(Nat)]]

(* History: the lines that were written, those that overflowed the queue or *)
(* that the disk refused, and how many file operations failed.              *)
Logs == [logged : Nat, queue : Seq(Nat), drain : Drains, disk : Disks,
         written : SUBSET Nat, dropped : SUBSET Nat, faults : Nat]

NewLog == [logged |-> 0, queue |-> <<>>, drain |-> Idle,
           disk |-> [size |-> Unknown, files |-> [s \in Slots |-> <<>>]],
           written |-> {}, dropped |-> {}, faults |-> 0]

-----------------------------------------------------------------------------
(* The drain.                                                               *)

needsRotation(size) == size > 0 /\ size + 1 > MaxBytes

Sized(size) == IF needsRotation(size) THEN "rotate" ELSE "append"

(* The loop takes the head of the queue, which stays queued.                *)
Taken(l) ==
    IF l.queue = <<>> THEN [l EXCEPT !.drain = Idle]
    ELSE [l EXCEPT !.drain = [at |-> IF l.disk.size = Unknown THEN "stat"
                                     ELSE Sized(l.disk.size),
                              line |-> Head(l.queue), slot |-> MaxBackups]]

readSize(l, ok) ==
    LET size == IF ok THEN Len(l.disk.files[0]) ELSE Unknown
    IN  [l EXCEPT !.disk.size = size, !.drain.at = Sized(size)]

(* One step of rotate: the last file is removed, any other moves up.        *)
Moved_DropsOneEarlier(files, k) ==                          \* mutant
    IF k = MaxBackups THEN [files EXCEPT ![k - 1] = <<>>]
    ELSE IF files[k] = <<>> THEN files
    ELSE [files EXCEPT ![k + 1] = files[k], ![k] = <<>>]

Moved(files, k) ==
    IF k = MaxBackups THEN [files EXCEPT ![k] = <<>>]
    ELSE IF files[k] = <<>> THEN files
    ELSE [files EXCEPT ![k + 1] = files[k], ![k] = <<>>]

(* Only the last step of a rotation may not fail; if it does, the line is   *)
(* appended all the same.                                                   *)
rotate(l, ok) ==
    LET k == l.drain.slot
        files == IF ok THEN Moved(l.disk.files, k) ELSE l.disk.files
    IN  IF k > 0
        THEN [l EXCEPT !.disk.files = files, !.drain.slot = k - 1]
        ELSE [l EXCEPT !.disk.files = files, !.drain.at = "append",
                       !.disk.size = IF ok /\ l.disk.files[0] # <<>> THEN 0 ELSE Unknown]

Grown(size) == IF size = Unknown THEN Unknown ELSE size + 1

(* The append, and the end of the iteration: the line leaves the queue if   *)
(* an overflow has not dropped it meanwhile.                                *)
Shifted_Always(l) == [l EXCEPT !.queue = IF @ = <<>> THEN @ ELSE Tail(@)]       \* mutant

Shifted(l) ==
    IF l.queue # <<>> /\ Head(l.queue) = l.drain.line
    THEN [l EXCEPT !.queue = Tail(@)] ELSE l

append(l, ok) ==
    LET n == l.drain.line
    IN  Taken(Shifted(
            IF ok THEN [l EXCEPT !.disk.size = Grown(@), !.disk.files[0] = Append(@, n),
                                 !.written = @ \cup {n}]
            ELSE [l EXCEPT !.disk.size = Unknown, !.dropped = @ \cup {n}]))

(* The file operation in flight ends.                                       *)
Drained(l, ok) ==
    LET m == [l EXCEPT !.faults = IF ok THEN @ ELSE @ + 1]
    IN  CASE l.drain.at = "stat" -> readSize(m, ok)
          [] l.drain.at = "rotate" -> rotate(m, ok)
          [] l.drain.at = "append" -> append(m, ok)
          [] OTHER -> l

(* lifecycleLog: the oldest line overflows; an idle drain starts.           *)
lifecycleLog(l) ==
    LET n == l.logged + 1
        queue == Append(l.queue, n)
        full == Len(queue) > MaxQueued
        queued == [l EXCEPT !.logged = n,
                            !.queue = IF full THEN Tail(queue) ELSE queue,
                            !.dropped = IF full THEN @ \cup {Head(queue)} ELSE @]
    IN  IF l.drain = Idle THEN Taken(queued) ELSE queued

(* What flush waits for.                                                    *)
Quiet(l) == l.queue = <<>> /\ l.drain = Idle

-----------------------------------------------------------------------------
(* The way out.                                                             *)

(* writeEntrySync of line n.  Its rotation moves every file up at once, and *)
(* throws when there is no file to rotate.                                  *)
writeEntrySync(d, n) ==
    LET size == IF d.size = Unknown THEN Len(d.files[0]) ELSE d.size
        turn == needsRotation(size)
        files == IF turn THEN [k \in Slots |-> IF k = 0 THEN <<>> ELSE d.files[k - 1]]
                 ELSE d.files
        known == IF ~turn THEN size ELSE IF d.files[0] = <<>> THEN Unknown ELSE 0
    IN  [size |-> Grown(known), files |-> [files EXCEPT ![0] = Append(@, n)]]

(* flushSync                                                                *)
Flushed(l, ok) ==
    IF ok
    THEN [l EXCEPT !.queue = <<>>, !.disk = FoldLeft(writeEntrySync, @, l.queue),
                   !.written = @ \cup ToSet(l.queue)]
    ELSE [l EXCEPT !.queue = <<>>, !.disk.size = Unknown,
                   !.dropped = @ \cup ToSet(l.queue)]

(* An operation in flight when the process exits has its effect before the  *)
(* exit hooks run, after them, or never.                                    *)
InFlight(l) ==
    CASE l.drain.at = "rotate" ->
            [l EXCEPT !.disk.files = Moved(@, l.drain.slot), !.drain = Idle]
      [] l.drain.at = "append" ->
            [l EXCEPT !.disk.files[0] = Append(@, l.drain.line), !.drain = Idle]
      [] OTHER -> [l EXCEPT !.drain = Idle]

(* The exit hooks: what is queued goes to the disk, and the lines the other *)
(* hooks log after it.                                                      *)
Exits(l, lines, ok) ==
    LET more == [l EXCEPT !.logged = @ + lines,
                          !.queue = @ \o [k \in 1..lines |-> l.logged + k]]
    IN  {Flushed(InFlight(more), ok), InFlight(Flushed(more, ok)),
         [Flushed(more, ok) EXCEPT !.drain = Idle]}

-----------------------------------------------------------------------------
(* "Those last lines are the ones worth having" (flushSync): once the       *)
(* process has ended, however it did, every line ever logged was written,   *)
(* unless it overflowed the queue or the disk refused it; also the line the *)
(* drain was writing, and those behind a line that overflowed while it was  *)
(* written (schedule, lifecycleLog, flushSync).                             *)
LoggedLinesReachTheDisk ==
    exit # "running" => 1..log.logged \subseteq log.written \cup log.dropped

Newest == {n \in log.written : Cardinality({k \in log.written : k > n}) < MaxBytes}

(* Rotation never costs the newest lines, whatever fails on the way, and    *)
(* keeps the lines, from the oldest backup to the current file, in the      *)
(* order they were logged (rotate, writeEntrySync).  A forced exit is left  *)
(* out: it can meet an asynchronous rotation half way, see the README.      *)
RotationKeepsTheNewest ==
    LET files == log.disk.files
    IN  exit # "forced" /\ MaxBackups > 0 =>
            /\ \A n \in Newest : \E s \in Slots : n \in ToSet(files[s])
            /\ \A s, t \in Slots : \A i \in DOMAIN files[s], j \in DOMAIN files[t] :
                s > t \/ (s = t /\ i < j) => files[s][i] < files[t][j]

=============================================================================
