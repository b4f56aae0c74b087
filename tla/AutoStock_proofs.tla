-------------------------- MODULE AutoStock_proofs --------------------------
(***************************************************************************)
(* For any target, batch size, interval, set of addresses and number of    *)
(* restarts: the type invariant of AutoStock; that nothing is generated    *)
(* while a result is unknown, and never more than is missing, as long as   *)
(* no sync runs beside a generation; and the pace of the background job,   *)
(* as long as nobody generates by hand.                                    *)
(***************************************************************************)
EXTENDS AutoStock, FiniteSetTheorems, TLAPS

(* Sets of addresses can be counted.                                        *)
LEMMA Countable ==
    ASSUME NEW S \in SUBSET Addresses
    PROVE  IsFiniteSet(S) /\ Cardinality(S) \in Nat
BY StockAssumption, FS_Subset, FS_CardinalityType

(* A claimed batch asks for a natural number of addresses.                  *)
LEMMA WantedIsNat ==
    ASSUME TypeOK, MayClaim, NEW n \in Wanted
    PROVE  n \in Nat
<1>1. Total \in Nat
  BY Countable DEF TypeOK, Total
<1>2. CASE batch.kind = "auto"
  BY <1>1, <1>2, StockAssumption DEF Wanted, MayClaim, Due
<1>3. CASE batch.kind # "auto"
  BY <1>3, StockAssumption DEF Wanted
<1> QED BY <1>2, <1>3

(* The failure count stops at 3, and both delays are within the interval.   *)
LEMMA SettledIsJob ==
    ASSUME TypeOK, NEW u \in BOOLEAN
    PROVE  /\ OneMore \in 0..3
           /\ \A d \in Delays(OneMore) : Settled(u, OneMore, d) \in Jobs
           /\ Settled(u, 0, Interval) \in Jobs
<1>1. OneMore \in 0..3
  BY DEF TypeOK, Jobs, OneMore
<1>2. \A d \in Delays(OneMore) : d \in 0..Interval
  BY StockAssumption DEF Delays
<1>3. Interval \in 0..Interval
  BY StockAssumption
<1>4. ASSUME NEW f \in 0..3, NEW d \in 0..Interval PROVE Settled(u, f, d) \in Jobs
  <2> DEFINE on == job.enabled /\ ~u
  <2>1. on \in BOOLEAN
    BY Zenon
  <2>2. Settled(u, f, d) = [job EXCEPT !.enabled = on, !.inFlight = u, !.paused = u,
                                       !.failures = f, !.cooldown = d]
    BY DEF Settled
  <2> HIDE DEF on
  <2> QED BY <2>1, <2>2 DEF TypeOK, Jobs
<1> QED BY <1>1, <1>2, <1>3, <1>4

-----------------------------------------------------------------------------
(* The type invariant, action by action.                                    *)

(* The service starts with an empty document and no job.                    *)
LEMMA InitType == Init => TypeOK
<1>1. 0 \in 0..Interval /\ Interval \in 0..Interval /\ 0 \in 0..MaxCrashes /\ 0 \in 0..3
  BY StockAssumption
<1>2. NoBatch \in Batches
  BY DEF NoBatch, Batches, Kinds
<1>3. ASSUME Init PROVE job \in Jobs
  BY <1>1, <1>3 DEF Init, Jobs
<1> QED BY <1>1, <1>2, <1>3 DEF Init, TypeOK, TurnStates

(* The PATCH and the initialization.                                        *)
LEMMA OperatorType == TypeOK /\ Operator => TypeOK'
<1> SUFFICES ASSUME TypeOK, Operator PROVE TypeOK'
  OBVIOUS
<1> USE DEF turn, service, syncing, history
<1>1. ASSUME NEW b \in BOOLEAN, Configure(b) PROVE TypeOK'
  BY <1>1 DEF TypeOK, Configure, Jobs
<1>2. CASE ConfigurePrefix
  BY <1>2 DEF TypeOK, ConfigurePrefix, Jobs
<1>3. ASSUME NEW b \in BOOLEAN, NEW p \in BOOLEAN, NEW d \in 0..Interval, Initialize(b, p, d)
      PROVE  TypeOK'
  BY <1>3 DEF TypeOK, Initialize, Jobs
<1> QED BY <1>1, <1>2, <1>3 DEF Operator

(* A turn of the queue.                                                     *)
LEMMA TurnType == TypeOK /\ (tick \/ Manual \/ Perform) => TypeOK'
<1> SUFFICES ASSUME TypeOK, tick \/ Manual \/ Perform PROVE TypeOK'
  OBVIOUS
<1> USE DEF turn, service, syncing, history, durable, TurnStates
<1>1. NoBatch \in Batches
  BY DEF NoBatch, Batches, Kinds
<1>2. ASSUME NEW kind \in Kinds, Begin(kind) PROVE TypeOK'
  <2>1. [NoBatch EXCEPT !.kind = kind] \in Batches
    BY <1>1 DEF Batches
  <2> QED BY <1>2, <2>1 DEF TypeOK, Begin
<1>3. CASE tick
  BY <1>2, <1>3 DEF tick, Kinds
<1>4. CASE Manual
  BY <1>2, <1>4, StockAssumption DEF Manual, Kinds
<1>5. CASE Claim
  <2>1. PICK n \in Wanted : batch' = [batch EXCEPT !.want = n]
    BY <1>5 DEF Claim
  <2>2. n \in Nat
    BY <1>5, <2>1, WantedIsNat DEF Claim
  <2>3. batch' \in Batches
    BY <2>1, <2>2 DEF TypeOK, Batches
  <2>4. job' \in Jobs
    <3>1. Interval \in 0..Interval
      BY StockAssumption
    <3>2. job' = [job EXCEPT !.inFlight = TRUE, !.cooldown = Interval]
      BY <1>5 DEF Claim
    <3> QED BY <3>1, <3>2 DEF TypeOK, Jobs
  <2> QED BY <1>5, <2>3, <2>4 DEF TypeOK, Claim
<1>6. CASE GiveUp
  BY <1>1, <1>6 DEF TypeOK, GiveUp
<1>7. CASE Generate
  <2>1. PICK x \in Addresses \ minted :
            /\ minted' = minted \cup {x}
            /\ batch' = [batch EXCEPT !.got = @ \cup {x}]
    BY <1>7 DEF Generate
  <2>2. batch' \in Batches
    BY <2>1 DEF TypeOK, Batches
  <2> QED BY <1>7, <2>1, <2>2 DEF TypeOK, Generate
<1>8. CASE GenerateRefused
  <2>1. Cardinality(batch.got) \in Nat /\ batch.want \in Nat
    BY Countable DEF TypeOK, Batches
  <2>2. batch.want - 1 \in Nat
    BY <1>8, <2>1 DEF GenerateRefused
  <2>3. batch' \in Batches
    BY <1>8, <2>2 DEF TypeOK, GenerateRefused, Batches
  <2> QED BY <1>8, <2>3 DEF TypeOK, GenerateRefused
<1>9. CASE GenerateUncertain
  <2>1. batch' \in Batches
    BY <1>9 DEF TypeOK, GenerateUncertain, Batches
  <2> QED BY <1>9, <2>1 DEF TypeOK, GenerateUncertain
<1>10. CASE GenerateDone
  BY <1>10 DEF TypeOK, GenerateDone
<1>11. CASE Persist
  BY <1>11 DEF TypeOK, Persist, Batches
<1>12. CASE AfterReceivedFails
  <2>1. batch' \in Batches
    BY <1>12 DEF TypeOK, AfterReceivedFails, Batches
  <2> QED BY <1>12, <2>1 DEF TypeOK, AfterReceivedFails
<1>13. CASE Settle
  <2>1. job' \in Jobs
    <3>1. (batch.error = "uncertain") \in BOOLEAN
      BY Zenon
    <3> QED BY <1>13, <3>1, SettledIsJob DEF Settle
  <2>2. sinceBatch' \in 0..Interval
    BY <1>13, StockAssumption DEF TypeOK, Settle
  <2> QED BY <1>1, <1>13, <2>1, <2>2 DEF TypeOK, Settle
<1>14. CASE Pause
  <2>1. job' \in Jobs
    <3>1. (batch.error = "uncertain") \in BOOLEAN
      BY Zenon
    <3> QED BY <1>14, <3>1, SettledIsJob DEF Pause
  <2> QED BY <1>1, <1>14, <2>1 DEF TypeOK, Pause
<1>15. CASE PauseFails
  BY <1>1, <1>15 DEF TypeOK, PauseFails
<1> QED BY <1>3, <1>4, <1>5, <1>6, <1>7, <1>8, <1>9, <1>10, <1>11, <1>12, <1>13,
           <1>14, <1>15 DEF Perform

(* Every step.                                                              *)
LEMMA NextType == TypeOK /\ [Next]_vars => TypeOK'
<1> SUFFICES ASSUME TypeOK, [Next]_vars PROVE TypeOK'
  OBVIOUS
<1> USE DEF turn, service, syncing, history, durable
<1>1. CASE Operator
  BY <1>1, OperatorType
<1>2. CASE tick \/ Manual \/ Perform
  BY <1>2, TurnType
<1>3. CASE Sync
  <2>1. CASE SyncList
    BY <2>1 DEF TypeOK, SyncList
  <2>2. CASE SyncMerge
    BY <2>2 DEF TypeOK, SyncMerge
  <2>3. CASE reconciled
    <3>1. job' \in Jobs
      BY <2>3 DEF TypeOK, reconciled, Jobs
    <3> QED BY <2>3, <3>1 DEF TypeOK, reconciled
  <2>4. CASE SyncFails
    BY <2>4 DEF TypeOK, SyncFails
  <2> QED BY <1>3, <2>1, <2>2, <2>3, <2>4 DEF Sync
<1>4. CASE stop
  BY <1>4 DEF TypeOK, stop
<1>5. CASE Restart
  <2>1. NoBatch \in Batches
    BY DEF NoBatch, Batches, Kinds
  <2>2. minted' \subseteq Addresses
    BY <1>5 DEF TypeOK, Restart
  <2>3. crashes' \in 0..MaxCrashes
    BY <1>5, StockAssumption DEF TypeOK, Restart
  <2> QED BY <1>5, <2>1, <2>2, <2>3 DEF TypeOK, Restart, TurnStates
<1>6. CASE Elapse
  <2>1. job' \in Jobs
    BY <1>6, StockAssumption DEF TypeOK, Elapse, Jobs
  <2>2. sinceBatch' \in 0..Interval
    BY <1>6, StockAssumption DEF TypeOK, Elapse
  <2> QED BY <1>6, <2>1, <2>2 DEF TypeOK, Elapse
<1>7. CASE UNCHANGED vars
  BY <1>7 DEF vars, TypeOK
<1> QED BY <1>1, <1>2, <1>3, <1>4, <1>5, <1>6, <1>7 DEF Next

(* The job, the turn and the sync keep their shape; no batch asks for less  *)
(* than nothing (perform).                                                  *)
THEOREM TypeCorrect == Spec => []TypeOK
BY InitType, NextType, PTL DEF Spec

-----------------------------------------------------------------------------
(* What the service can account for.  While the marker is down, everything  *)
(* Apple minted is in the inventory; while a turn runs whose outcome is     *)
(* known so far, it is there or in what the turn was told; and a sync, with *)
(* no turn beside it, holds or has merged all of it.                        *)

Accounted ==
    /\ running => job.inFlight
    /\ ~job.inFlight => minted \subseteq inventory
    /\ pc = "due" => batch.error = "none"
    /\ pc = "generating" => batch.error # "uncertain"
    /\ pc \in {"generating", "received"} /\ batch.error # "uncertain" =>
            minted \subseteq inventory \cup batch.got
    /\ pc \in {"stored", "failing"} /\ batch.error # "uncertain" =>
            minted \subseteq inventory
    /\ sync # "idle" => ~running
    /\ sync = "listed" => minted \subseteq syncRows
    /\ sync = "merged" => minted \subseteq inventory

AInv == TypeOK /\ Accounted

(* A turn keeps account, when no sync runs beside a generation: the marker  *)
(* goes down before Apple is asked, and up only on a known, stored outcome. *)
LEMMA TurnAccounted ==
    ASSUME Overlap = FALSE, AInv, tick \/ Manual \/ Perform
    PROVE  Accounted'
<1> USE DEF turn, service, syncing, history, durable, running
<1>0. batch \in Batches /\ job \in Jobs
  BY DEF AInv, TypeOK
<1>1. ASSUME NEW kind, Begin(kind) PROVE Accounted'
  BY <1>1 DEF AInv, Accounted, Begin, NoBatch
<1>2. CASE tick
  BY <1>1, <1>2 DEF tick
<1>3. CASE Manual
  BY <1>1, <1>3 DEF Manual
<1>4. CASE Claim
  <2>1. ~job.inFlight /\ sync = "idle"
    BY <1>4 DEF Claim, MayClaim, Due
  <2>2. batch'.error = "none" /\ job'.inFlight
    BY <1>0, <1>4 DEF AInv, Accounted, Claim, Batches, Jobs
  <2> QED BY <1>4, <2>1, <2>2 DEF AInv, Accounted, Claim
<1>5. CASE GiveUp
  BY <1>5 DEF AInv, Accounted, GiveUp, NoBatch
<1>6. CASE Generate
  <2>1. PICK x \in Addresses \ minted :
            /\ minted' = minted \cup {x}
            /\ batch' = [batch EXCEPT !.got = @ \cup {x}]
    BY <1>6 DEF Generate
  <2>2. batch'.got = batch.got \cup {x} /\ batch'.error = batch.error
    BY <1>0, <2>1 DEF Batches
  <2> QED BY <1>6, <2>1, <2>2 DEF AInv, Accounted, Generate
<1>7. CASE GenerateRefused
  <2>1. /\ batch'.got = batch.got /\ batch'.error = "clean"
        /\ pc' = "failing" => batch.got = {}
    BY <1>0, <1>7 DEF GenerateRefused, Batches
  <2> QED BY <1>7, <2>1 DEF AInv, Accounted, GenerateRefused
<1>8. CASE GenerateUncertain
  <2>1. batch'.error = "uncertain"
    BY <1>0, <1>8 DEF GenerateUncertain, Batches
  <2> QED BY <1>8, <2>1 DEF AInv, Accounted, GenerateUncertain
<1>9. CASE GenerateDone
  BY <1>9 DEF AInv, Accounted, GenerateDone
<1>10. CASE Persist
  BY <1>10 DEF AInv, Accounted, Persist
<1>11. CASE AfterReceivedFails
  <2>1. batch'.error = "uncertain"
    BY <1>0, <1>11 DEF AfterReceivedFails, Batches
  <2> QED BY <1>11, <2>1 DEF AInv, Accounted, AfterReceivedFails
<1>12. CASE Settle \/ Pause
  <2>1. /\ pc \in {"stored", "failing"}
        /\ pc' = "idle"
        /\ UNCHANGED <<inventory, minted, sync, syncRows>>
    BY <1>12 DEF Settle, Pause
  <2>2. \A u, f, d : Settled(u, f, d).inFlight = u
    BY <1>0 DEF Settled, Jobs
  <2>3. \E f, d : job' = Settled(batch.error = "uncertain", f, d)
    BY <1>12 DEF Settle, Pause
  <2>4. job'.inFlight = (batch.error = "uncertain")
    BY <2>2, <2>3
  <2> QED BY <2>1, <2>4 DEF AInv, Accounted
<1>13. CASE PauseFails
  BY <1>13 DEF AInv, Accounted, PauseFails, NoBatch
<1> QED BY <1>2, <1>3, <1>4, <1>5, <1>6, <1>7, <1>8, <1>9, <1>10, <1>11, <1>12, <1>13
        DEF Perform

(* So does everything around it; only a finished sync puts the marker away  *)
(* without a turn, and a restart leaves it as it finds it.                  *)
LEMMA NextAccounted ==
    ASSUME Overlap = FALSE, AInv, [Next]_vars
    PROVE  Accounted'
<1> USE DEF turn, service, syncing, history, durable, running
<1>0. job \in Jobs
  BY DEF AInv, TypeOK
<1>1. CASE Operator
  <2>1. /\ job'.inFlight = job.inFlight
        /\ UNCHANGED <<inventory, minted, turn, syncing>>
    BY <1>0, <1>1 DEF Operator, Configure, ConfigurePrefix, Initialize, Jobs
  <2> QED BY <2>1 DEF AInv, Accounted
<1>2. CASE tick \/ Manual \/ Perform
  BY <1>2, TurnAccounted
<1>3. CASE SyncList
  BY <1>3 DEF AInv, Accounted, SyncList
<1>4. CASE SyncMerge
  BY <1>4 DEF AInv, Accounted, SyncMerge
<1>5. CASE reconciled
  BY <1>0, <1>5 DEF AInv, Accounted, reconciled, Jobs
<1>6. CASE SyncFails
  BY <1>6 DEF AInv, Accounted, SyncFails
<1>7. CASE stop
  BY <1>7 DEF AInv, Accounted, stop
<1>8. CASE Restart
  <2>1. ~job.inFlight => minted' = minted
    BY <1>8 DEF AInv, Accounted, Restart
  <2> QED BY <1>8, <2>1 DEF AInv, Accounted, Restart
<1>9. CASE Elapse
  <2>1. job'.inFlight = job.inFlight
    BY <1>0, <1>9 DEF Elapse, Jobs
  <2> QED BY <1>9, <2>1 DEF AInv, Accounted, Elapse
<1>10. CASE UNCHANGED vars
  BY <1>10 DEF vars, AInv, Accounted
<1> QED BY <1>1, <1>2, <1>3, <1>4, <1>5, <1>6, <1>7, <1>8, <1>9, <1>10 DEF Next, Sync

(* At first nothing is minted.                                              *)
LEMMA InitAccounted == Init => AInv
<1>1. Init => Accounted
  BY DEF Init, Accounted, running
<1> QED BY <1>1, InitType DEF AInv

(* A turn goes from its checks to Apple by the claim alone.                 *)
LEMMA OnlyClaimClaims ==
    ASSUME [Next]_vars, NEW kinds, Claimed(kinds)
    PROVE  Claim
BY DEF Next, vars, Claimed, turn, durable, service, syncing, history,
       Operator, Configure, ConfigurePrefix, Initialize, tick, Manual, Begin, Perform,
       GiveUp, Generate, GenerateRefused, GenerateUncertain, GenerateDone, Persist,
       AfterReceivedFails, Settle, Pause, PauseFails, Sync, SyncList, SyncMerge,
       reconciled, SyncFails, stop, Restart, Elapse

(* Whatever writes fail and whenever the process restarts, neither the job  *)
(* nor a hand asks Apple for an address while one it minted is unaccounted  *)
(* for, as long as no sync runs beside a generation (perform, reconciled).  *)
THEOREM SyncBeforeGeneration ==
    ASSUME Overlap = FALSE
    PROVE  Spec => NothingGeneratedWhileUnknown
<1>1. Init => AInv
  BY InitAccounted
<1>2. AInv /\ [Next]_vars => AInv'
  BY NextType, NextAccounted DEF AInv
<1>3. AInv /\ [Next]_vars => (Claimed(Kinds) => minted \subseteq inventory)
  <2> SUFFICES ASSUME AInv, [Next]_vars, Claimed(Kinds) PROVE minted \subseteq inventory
    OBVIOUS
  <2>1. Claim
    BY OnlyClaimClaims
  <2>2. ~job.inFlight
    BY <2>1 DEF Claim, MayClaim, Due
  <2> QED BY <2>2 DEF AInv, Accounted
<1> QED BY <1>1, <1>2, <1>3, PTL DEF Spec, NothingGeneratedWhileUnknown

(* Nor does the background job ask for more than is missing from Target,    *)
(* counting what Apple has (tick, perform).                                 *)
THEOREM NeverBeyondTarget ==
    ASSUME Overlap = FALSE
    PROVE  Spec => NeverAsksBeyondTarget
<1>1. Init => AInv
  BY InitAccounted
<1>2. AInv /\ [Next]_vars => AInv'
  BY NextType, NextAccounted DEF AInv
<1>3. AInv /\ [Next]_vars =>
        (Claimed({"auto"}) => Cardinality(minted) + batch'.want <= Target)
  <2> SUFFICES ASSUME AInv, [Next]_vars, Claimed({"auto"})
               PROVE  Cardinality(minted) + batch'.want <= Target
    OBVIOUS
  <2>1. Claim
    BY OnlyClaimClaims
  <2>2. Due /\ batch.kind = "auto"
    BY <2>1 DEF Claimed, Claim, MayClaim
  <2>3. minted \subseteq inventory
    BY <2>2 DEF AInv, Accounted, Due
  <2>4. /\ Cardinality(minted) \in Nat /\ Total \in Nat
        /\ Cardinality(minted) <= Total
    BY <2>3, Countable, FS_Subset DEF AInv, TypeOK, Total
  <2>5. PICK n \in Wanted : batch'.want = n
    BY <2>1 DEF AInv, TypeOK, Batches, Claim
  <2>6. n + Total <= Target
    BY <2>2, <2>4, <2>5, StockAssumption DEF Wanted, Due
  <2>7. n \in Nat
    BY <2>1, <2>5, WantedIsNat DEF AInv, Claim
  <2> QED BY <2>4, <2>5, <2>6, <2>7, StockAssumption
<1> QED BY <1>1, <1>2, <1>3, PTL DEF Spec, NeverAsksBeyondTarget

-----------------------------------------------------------------------------
(* The pace.  Since the last batch that brought addresses at least as much  *)
(* time has passed as the cooldown no longer has to wait; while a turn runs *)
(* the hour is over.                                                        *)

Paced ==
    /\ pc = "due" => batch.kind = "auto"
    /\ running => sinceBatch = Interval
    /\ ~running => sinceBatch + job.cooldown >= Interval

PInv == TypeOK /\ Paced

(* No step shortens the hour when nobody generates by hand.                 *)
LEMMA NextPaced ==
    ASSUME ByHand = {}, PInv, [Next]_vars
    PROVE  Paced'
<1> USE StockAssumption DEF turn, service, syncing, history, durable, running
<1>0. /\ batch \in Batches /\ job \in Jobs
      /\ job.cooldown \in 0..Interval /\ sinceBatch \in 0..Interval
  BY DEF PInv, TypeOK, Jobs
<1>1. CASE Operator
  <2>1. /\ job'.cooldown \in Nat /\ job'.cooldown >= job.cooldown
        /\ UNCHANGED <<turn, sinceBatch>>
    <3>1. ASSUME NEW b \in BOOLEAN, Configure(b)
          PROVE  job'.cooldown = job.cooldown /\ UNCHANGED <<turn, sinceBatch>>
      BY <1>0, <3>1 DEF Configure, Jobs
    <3>2. ASSUME ConfigurePrefix
          PROVE  job'.cooldown = job.cooldown /\ UNCHANGED <<turn, sinceBatch>>
      BY <1>0, <3>2 DEF ConfigurePrefix, Jobs
    <3>3. ASSUME NEW b, NEW p, NEW d \in 0..Interval, Initialize(b, p, d)
          PROVE  /\ job'.cooldown = IF d > job.cooldown THEN d ELSE job.cooldown
                 /\ UNCHANGED <<turn, sinceBatch>>
      BY <1>0, <3>3 DEF Initialize, Jobs
    <3> QED BY <1>0, <1>1, <3>1, <3>2, <3>3 DEF Operator
  <2> QED BY <1>0, <2>1 DEF PInv, Paced
<1>2. CASE tick \/ Manual
  <2>1. pc = "idle" /\ pc' = "due" /\ batch'.kind = "auto"
        /\ UNCHANGED <<job, sinceBatch>>
    BY <1>2 DEF tick, Manual, Begin, NoBatch
  <2> QED BY <2>1 DEF PInv, Paced
<1>3. CASE Claim
  <2>1. sinceBatch = Interval
    BY <1>0, <1>3 DEF PInv, Paced, Claim, MayClaim, Due
  <2> QED BY <1>3, <2>1 DEF Claim, PInv, Paced
<1>4. CASE Settle
  <2>1. /\ \A u, f : \A d \in 0..Interval : Settled(u, f, d).cooldown = d
        /\ \A f : Delays(f) \subseteq 0..Interval
        /\ Interval \in 0..Interval
    BY <1>0 DEF Settled, Jobs, Delays
  <2>2. job'.cooldown \in 0..Interval
    BY <1>4, <2>1 DEF Settle
  <2>3. batch.got # {} => job'.cooldown = Interval
    BY <1>4, <2>1 DEF Settle
  <2>4. sinceBatch' \in 0..Interval /\ (batch.got = {} => sinceBatch' = sinceBatch)
    BY <1>0, <1>4 DEF Settle
  <2>5. sinceBatch = Interval /\ pc' = "idle"
    BY <1>4 DEF PInv, Paced, Settle
  <2> QED BY <2>2, <2>3, <2>4, <2>5 DEF Paced
<1>5. CASE Pause
  <2>1. job'.cooldown \in 0..Interval
    <3>1. /\ \A u, f : \A d \in 0..Interval : Settled(u, f, d).cooldown = d
          /\ \A f : Delays(f) \subseteq 0..Interval
      BY <1>0 DEF Settled, Jobs, Delays
    <3> QED BY <1>5, <3>1 DEF Pause
  <2>2. sinceBatch = Interval /\ pc' = "idle" /\ sinceBatch' = sinceBatch
    BY <1>5 DEF PInv, Paced, Pause
  <2> QED BY <2>1, <2>2 DEF Paced
<1>6. CASE GiveUp \/ Generate \/ GenerateRefused \/ GenerateUncertain \/ GenerateDone
            \/ Persist \/ AfterReceivedFails \/ PauseFails
  <2>1. /\ pc \in TurnStates \ {"idle"} /\ pc' # "due"
        /\ pc = "due" <=> pc' = "idle" /\ ~running
        /\ UNCHANGED <<job, sinceBatch>>
    BY <1>6 DEF PInv, TypeOK, TurnStates, GiveUp, Generate, GenerateRefused,
                GenerateUncertain, GenerateDone, Persist, AfterReceivedFails, PauseFails
  <2> QED BY <1>0, <2>1 DEF PInv, Paced, TurnStates
<1>7. CASE Sync
  <2>1. job'.cooldown = job.cooldown /\ UNCHANGED <<turn, sinceBatch>>
    BY <1>0, <1>7 DEF Sync, SyncList, SyncMerge, reconciled, SyncFails, Jobs
  <2> QED BY <2>1 DEF PInv, Paced
<1>8. CASE stop
  BY <1>8 DEF PInv, Paced, stop
<1>9. CASE Restart
  BY <1>0, <1>9 DEF PInv, Paced, Restart
<1>10. CASE Elapse
  <2>1. /\ job'.cooldown = IF job.cooldown = 0 THEN 0 ELSE job.cooldown - 1
        /\ sinceBatch' = IF sinceBatch = Interval THEN Interval ELSE sinceBatch + 1
        /\ UNCHANGED turn
    BY <1>0, <1>10 DEF Elapse, Jobs
  <2> QED BY <1>0, <2>1 DEF PInv, Paced
<1>11. CASE UNCHANGED vars
  BY <1>11 DEF vars, PInv, Paced
<1> QED BY <1>1, <1>2, <1>3, <1>4, <1>5, <1>6, <1>7, <1>8, <1>9, <1>10, <1>11
        DEF Next, Perform

(* Failures, restarts, switches, syncs and initializations never bring a    *)
(* second background batch within the hour (nextAttemptAt).                 *)
THEOREM AtMostOneBatchAnHour ==
    ASSUME ByHand = {}
    PROVE  Spec => OneBatchAnHour
<1>1. Init => PInv
  <2>1. Init => Paced
    BY StockAssumption DEF Init, Paced, running
  <2> QED BY <2>1, InitType DEF PInv
<1>2. PInv /\ [Next]_vars => PInv'
  BY NextType, NextPaced DEF PInv
<1>3. PInv /\ [Next]_vars => (Claimed({"auto"}) => sinceBatch = Interval)
  <2> SUFFICES ASSUME PInv, [Next]_vars, Claimed({"auto"}) PROVE sinceBatch = Interval
    OBVIOUS
  <2>1. Claim
    BY OnlyClaimClaims
  <2>2. job.cooldown = 0 /\ ~running
    BY <2>1 DEF Claimed, Claim, MayClaim, Due, running
  <2> QED BY <2>2, StockAssumption DEF PInv, TypeOK, Paced
<1> QED BY <1>1, <1>2, <1>3, PTL DEF Spec, OneBatchAnHour

=============================================================================
