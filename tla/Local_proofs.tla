----------------------------- MODULE Local_proofs ---------------------------
(***************************************************************************)
(* For any bounds, generations, rows and remarks: that no number of a      *)
(* label is reserved for two addresses (LabelSequence), that no change of  *)
(* the browser's cookies is forgotten (CookieBridge), that the remark      *)
(* being typed survives every answer (DashboardPage), and that the cursor  *)
(* of a mailbox passes no message that was not delivered (MailboxScan).    *)
(***************************************************************************)
EXTENDS LabelSequence, CookieBridge, DashboardPage, MailboxScan, FiniteSetTheorems, TLAPS

-----------------------------------------------------------------------------
(* LabelSequence.                                                           *)

Numbered(g) == generation[g].at \in {"labelled", "reserving"}

(* The number that is read from the file is written by the head of the      *)
(* queue; numbers given out are in the sequence and have one owner each.    *)
LabelOrder ==
    /\ \A g \in Generations : generation[g].at = "read" =>
        Turn(g) /\ sequence < generation[g].number
    /\ hostedLabels => \A g \in Generations :
        generation[g].at \notin {"minting", "queued", "read"}
    /\ \A g \in Generations : Numbered(g) => generation[g].number <= sequence
    /\ \A l \in labels : l[2] <= sequence
    /\ \A g, h \in Generations :
        Numbered(g) /\ Numbered(h) /\ generation[g].number = generation[h].number => g = h
    /\ \A g \in Generations, l \in labels :
        Numbered(g) /\ generation[g].number = l[2] => l[1] = g
    /\ NoLabelTwice

LabelInv == LabelTypeOK /\ LabelOrder

LEMMA LabelInvInit == LabelInit => LabelInv
BY LabelAssumption
DEF LabelInit, LabelInv, LabelOrder, LabelTypeOK, GenerationStates, Numbered, NoLabelTwice

LEMMA LabelTyped ==
    ASSUME LabelTypeOK
    PROVE  /\ sequence \in Nat /\ known \in Nat /\ labelQueue \in Seq(Generations)
           /\ \A g \in Generations :
                generation[g] \in GenerationStates /\ generation[g].number \in Nat
           /\ \A l \in labels : l[2] \in Nat
BY DEF LabelTypeOK, GenerationStates

LEMMA GoesTyped ==
    ASSUME LabelTypeOK, NEW g \in Generations,
           \E at \in {"queued", "labelled", "reserving", "ended"} : Goes(g, at)
    PROVE  generation' \in [Generations -> GenerationStates]
<1>1. PICK at \in {"queued", "labelled", "reserving", "ended"} :
        generation' = [generation EXCEPT ![g].at = at]
  BY DEF Goes
<1>2. generation[g] \in GenerationStates
  BY DEF LabelTypeOK
<1>3. [generation[g] EXCEPT !.at = at] \in GenerationStates
  BY <1>2 DEF GenerationStates
<1> QED BY <1>1, <1>3 DEF LabelTypeOK

LEMMA LabelInvNext ==
    ASSUME LabelInv, [LabelNext]_labelVars
    PROVE  LabelInv'
<1> USE LabelAssumption
<1>0. LabelTypeOK /\ LabelOrder
  BY DEF LabelInv
<1> SUFFICES LabelTypeOK' /\ LabelOrder'
  BY DEF LabelInv
<1> USE DEF LabelOrder, Numbered
<1>1. ASSUME NEW g \in Generations,
             generateHideMyEmail(g) \/ GenerationFails(g) \/ Reserved(g)
      PROVE  LabelTypeOK' /\ LabelOrder'
  <2>1. /\ generation'[g].at \in {"minting", "ended"} /\ generation[g].at # "read"
        /\ generation'[g].at = "minting" => ~hostedLabels
        /\ \A h \in Generations : h # g => generation'[h] = generation[h]
        /\ UNCHANGED <<sequence, labelQueue, labels, hostedLabels>>
    BY <1>0, <1>1 DEF generateHideMyEmail, GenerationFails, Reserved, Goes, LabelTypeOK,
                      GenerationStates
  <2>2. LabelTypeOK'
    <3>1. CASE generateHideMyEmail(g)
      <4> PICK n \in 1..MaxNumber :
            generation' = [generation EXCEPT ![g] = [@ EXCEPT !.at = "minting", !.wanted = n]]
        BY <3>1 DEF generateHideMyEmail
      <4>1. [generation[g] EXCEPT !.at = "minting", !.wanted = n] \in GenerationStates
        <5>1. generation[g] \in GenerationStates /\ n \in Nat
          BY <1>0, LabelTyped
        <5> QED BY <5>1 DEF GenerationStates
      <4> QED BY <1>0, <3>1, <4>1 DEF generateHideMyEmail, LabelTypeOK
    <3>2. CASE GenerationFails(g)
      BY <1>0, <3>2, GoesTyped DEF GenerationFails, LabelTypeOK
    <3>3. CASE Reserved(g)
      BY <1>0, <3>3, GoesTyped, LabelTyped DEF Reserved, Larger, LabelTypeOK
    <3> QED BY <1>1, <3>1, <3>2, <3>3
  <2>3. LabelOrder'
    BY <1>0, <2>1 DEF Turn, NoLabelTwice
  <2> QED BY <2>2, <2>3
<1>2. ASSUME NEW g \in Generations, Minted(g) PROVE LabelTypeOK' /\ LabelOrder'
  <2>1. /\ generation'[g].at = "queued" /\ generation[g].at = "minting"
        /\ \A h \in Generations : h # g => generation'[h] = generation[h]
        /\ labelQueue' = Append(labelQueue, g)
        /\ UNCHANGED <<sequence, labels, hostedLabels>>
    BY <1>0, <1>2 DEF Minted, Goes, LabelTypeOK, GenerationStates
  <2>2. LabelTypeOK'
    <3>1. labelQueue' \in Seq(Generations)
      BY <1>0, <2>1, LabelTyped
    <3> QED BY <1>0, <1>2, <3>1, GoesTyped DEF Minted, LabelTypeOK
  <2>3. \A h \in Generations : Turn(h) => Turn(h)'
    BY <1>0, <2>1, LabelTyped DEF Turn
  <2>4. LabelOrder'
    BY <1>0, <2>1, <2>3 DEF NoLabelTwice
  <2> QED BY <2>2, <2>4
<1>3. ASSUME NEW g \in Generations, ReadSequence(g) PROVE LabelTypeOK' /\ LabelOrder'
  <2>1. /\ generation'[g].at = "read" /\ generation[g].at = "queued" /\ Turn(g)
        /\ sequence < generation'[g].number /\ generation'[g].number \in Nat
        /\ \A h \in Generations : h # g => generation'[h] = generation[h]
        /\ UNCHANGED <<sequence, labelQueue, known, labels, restarts, hostedLabels>>
    BY <1>0, <1>3 DEF ReadSequence, NextNumber, Larger, LabelTypeOK, GenerationStates
  <2>2. LabelTypeOK'
    <3>1. generation' = [generation EXCEPT ![g] = [@ EXCEPT !.at = "read",
                                                            !.number = NextNumber(g)]]
      BY <1>0, <1>3 DEF ReadSequence, LabelTypeOK
    <3>2. NextNumber(g) \in Nat /\ generation[g] \in GenerationStates
      BY <1>0 DEF NextNumber, Larger, LabelTypeOK, GenerationStates
    <3>3. [generation[g] EXCEPT !.at = "read", !.number = NextNumber(g)] \in GenerationStates
      BY <3>2 DEF GenerationStates
    <3> QED BY <1>0, <2>1, <3>1, <3>3 DEF LabelTypeOK
  <2>3. LabelOrder'
    BY <1>0, <2>1 DEF Turn, NoLabelTwice
  <2> QED BY <2>2, <2>3
<1>4. ASSUME NEW g \in Generations, WriteSequence(g) PROVE LabelTypeOK' /\ LabelOrder'
  <2>1. /\ generation'[g].at = "labelled" /\ generation[g].at = "read"
        /\ generation'[g].number = generation[g].number
        /\ sequence' = generation[g].number /\ sequence < sequence'
        /\ \A h \in Generations : h # g => generation'[h] = generation[h]
        /\ labelQueue' = Tail(labelQueue)
        /\ UNCHANGED <<known, labels, restarts, hostedLabels>>
    BY <1>0, <1>4 DEF WriteSequence, Goes, Leaves, LabelTypeOK, GenerationStates
  <2>2. Turn(g) /\ \A h \in Generations : generation[h].at = "read" => h = g
    BY <1>0, <2>1 DEF Turn
  <2>3. LabelTypeOK'
    <3>1. labelQueue' \in Seq(Generations)
      BY <2>1, <2>2, LabelTyped, <1>0 DEF Turn
    <3>2. sequence' \in Nat
      BY <1>0, <2>1, LabelTyped
    <3> QED BY <1>0, <1>4, <2>1, <3>1, <3>2, GoesTyped DEF WriteSequence, LabelTypeOK
  <2>4. LabelOrder'
    BY <1>0, <2>1, <2>2, LabelTyped DEF NoLabelTwice
  <2> QED BY <2>3, <2>4
<1>5. ASSUME NEW g \in Generations, SequenceFails(g) PROVE LabelTypeOK' /\ LabelOrder'
  <2>1. /\ generation'[g].at = "ended" /\ Turn(g)
        /\ \A h \in Generations : h # g => generation'[h] = generation[h]
        /\ labelQueue' = Tail(labelQueue)
        /\ UNCHANGED <<sequence, known, labels, restarts, hostedLabels>>
    BY <1>0, <1>5 DEF SequenceFails, Goes, Leaves, LabelTypeOK, GenerationStates
  <2>2. \A h \in Generations : generation[h].at = "read" => h = g
    BY <1>0, <2>1 DEF Turn
  <2>3. LabelTypeOK'
    <3>1. labelQueue' \in Seq(Generations)
      BY <2>1, LabelTyped, <1>0 DEF Turn
    <3> QED BY <1>0, <1>5, <2>1, <3>1, GoesTyped DEF SequenceFails, LabelTypeOK
  <2>4. LabelOrder'
    BY <1>0, <2>1, <2>2 DEF NoLabelTwice
  <2> QED BY <2>3, <2>4
<1>6. ASSUME NEW g \in Generations, generate(g) PROVE LabelTypeOK' /\ LabelOrder'
  <2> PICK n \in 1..MaxNumber :
        /\ sequence' = Larger(Larger(sequence, known), n - 1) + 1
        /\ generation' = [generation EXCEPT ![g] =
                            [at |-> "labelled", wanted |-> n, number |-> sequence']]
    BY <1>6 DEF generate
  <2>1. sequence' \in Nat /\ sequence < sequence'
    BY <1>0, LabelTyped DEF Larger
  <2>2. /\ hostedLabels
        /\ generation'[g].at = "labelled" /\ generation'[g].number = sequence'
        /\ \A h \in Generations : h # g => generation'[h] = generation[h]
        /\ UNCHANGED <<labelQueue, known, labels, restarts, hostedLabels>>
    BY <1>0, <1>6 DEF generate, LabelTypeOK, GenerationStates
  <2>3. LabelTypeOK'
    BY <1>0, <2>1, <2>2 DEF LabelTypeOK, GenerationStates
  <2>4. LabelOrder'
    BY <1>0, <2>1, <2>2, LabelTyped DEF NoLabelTwice
  <2> QED BY <2>3, <2>4
<1>7. ASSUME NEW g \in Generations, Reserve(g) PROVE LabelTypeOK' /\ LabelOrder'
  <2>1. /\ generation'[g].at = "reserving" /\ Numbered(g)
        /\ generation'[g].number = generation[g].number
        /\ \A h \in Generations : h # g => generation'[h] = generation[h]
        /\ labels' = labels \cup {<<g, generation[g].number>>}
        /\ UNCHANGED <<sequence, labelQueue, known, restarts, hostedLabels>>
    BY <1>0, <1>7 DEF Reserve, Goes, LabelTypeOK, GenerationStates
  <2>2. LabelTypeOK'
    <3>1. labels' \subseteq (Generations \X Nat)
      BY <1>0, <2>1, LabelTyped DEF LabelTypeOK
    <3> QED BY <1>0, <1>7, <2>1, <3>1, GoesTyped DEF Reserve, LabelTypeOK
  <2>3. LabelOrder'
    BY <1>0, <2>1 DEF Turn, NoLabelTwice
  <2> QED BY <2>2, <2>3
<1>8. CASE RestartLabels
  <2> PICK late \in SUBSET {g \in Generations : generation[g].at = "labelled"} :
        labels' = labels \cup {<<g, generation[g].number>> : g \in late}
    BY <1>8 DEF RestartLabels
  <2>1. /\ \A g \in Generations : generation'[g].at \in {"none", "ended"}
        /\ labelQueue' = <<>> /\ UNCHANGED <<sequence, known, hostedLabels>>
    BY <1>0, <1>8 DEF RestartLabels, LabelTypeOK, GenerationStates
  <2>2. \A l \in labels' : l \in labels
            \/ \E g \in Generations : Numbered(g) /\ l = <<g, generation[g].number>>
    OBVIOUS
  <2>3. LabelTypeOK'
    <3>1. labels' \subseteq (Generations \X Nat)
      BY <1>0, LabelTyped DEF LabelTypeOK
    <3>2. \A g \in Generations : [generation[g] EXCEPT !.at = "ended"] \in GenerationStates
      <4> TAKE g \in Generations
      <4>1. generation[g] \in GenerationStates
        BY <1>0, LabelTyped
      <4> QED BY <4>1 DEF GenerationStates
    <3>3. generation' \in [Generations -> GenerationStates]
      BY <1>0, <1>8, <3>2, LabelTyped DEF RestartLabels
    <3>4. labelQueue' \in Seq(Generations) /\ restarts' \in 0..MaxRestarts
      BY <1>0, <1>8 DEF RestartLabels, LabelTypeOK
    <3> QED BY <1>0, <2>1, <3>1, <3>3, <3>4 DEF LabelTypeOK
  <2>4. NoLabelTwice'
    BY <1>0, <2>2 DEF NoLabelTwice
  <2>5. \A l \in labels' : l[2] <= sequence'
    BY <1>0, <2>1, <2>2
  <2> QED BY <2>1, <2>3, <2>4, <2>5
<1>9. CASE UNCHANGED labelVars
  BY <1>0, <1>9 DEF labelVars, LabelTypeOK, Turn, NoLabelTwice
<1> QED BY <1>1, <1>2, <1>3, <1>4, <1>5, <1>6, <1>7, <1>8, <1>9
        DEF LabelNext, LabelStep

(* No number of a label is ever reserved for two addresses, in either       *)
(* edition (nextReservedHideMyEmailLabel, AccountICloud.generate).          *)
THEOREM NoLabelIsReservedTwice == LabelSpec => []NoLabelTwice
<1>1. LabelInv => NoLabelTwice
  BY DEF LabelInv, LabelOrder
<1> QED BY LabelInvInit, LabelInvNext, <1>1, PTL DEF LabelSpec

(* The sequences, the queue of their file and the generations keep their    *)
(* types (nextReservedHideMyEmailLabel, AccountICloud.generate).            *)
THEOREM LabelsAlwaysTyped == LabelSpec => []LabelTypeOK
<1>1. LabelInv => LabelTypeOK
  BY DEF LabelInv
<1> QED BY LabelInvInit, LabelInvNext, <1>1, PTL DEF LabelSpec

-----------------------------------------------------------------------------
(* CookieBridge.                                                            *)

Upload == [by |-> "run", cookies |-> sync["run"].holds]

(* While nothing fails there is one upload at most, that of the run, and    *)
(* what the run holds or the file has is the latest, unless another run is  *)
(* to follow.                                                               *)
Undisturbed ==
    /\ refresh = "none" /\ sync["direct"].at = "idle"
    /\ \/ sync["run"].at # "posting" /\ posts = {} /\ fileQueue = <<>>
       \/ sync["run"].at = "posting" /\ posts = {Upload} /\ fileQueue = <<>>
       \/ sync["run"].at = "posting" /\ posts = {} /\ fileQueue = <<Upload>>
    /\ \/ timer \/ resync
       \/ sync["run"].at # "idle" /\ sync["run"].holds = jar
       \/ sync["run"].at = "idle" /\ cookieFile = jar

BridgeInv ==
    /\ jar \in Versions /\ disturbances \in Nat
    /\ sync \in [Syncs -> SyncStates]
    /\ disturbances = 0 => Undisturbed

LEMMA BridgeInvInit == BridgeInit => BridgeInv
<1> SUFFICES ASSUME BridgeInit PROVE BridgeInv
  OBVIOUS
<1>1. NotSyncing \in SyncStates /\ 0 \in Versions
  BY BridgeAssumption DEF NotSyncing, SyncStates, Versions
<1>2. sync \in [Syncs -> SyncStates] /\ sync["run"].at = "idle" /\ sync["direct"].at = "idle"
  BY <1>1 DEF BridgeInit, Syncs, NotSyncing
<1> QED BY <1>1, <1>2 DEF BridgeInit, BridgeInv, Undisturbed

LEMMA BridgeInvNext ==
    ASSUME BridgeInv, [BridgeNext]_bridgeVars
    PROVE  BridgeInv'
<1> USE BridgeAssumption
    DEF BridgeInv, Undisturbed, Upload, SyncStates, Syncs, Versions, worker, NotSyncing,
        Collecting, Disturbs
<1>1. CASE onChanged
  BY <1>1 DEF onChanged
<1>2. CASE Debounced
  BY <1>2 DEF Debounced, runSync
<1>3. CASE onAlarm
  BY <1>3 DEF onAlarm, runSync
<1>4. ASSUME NEW s \in Syncs, Collected(s) PROVE BridgeInv'
  BY <1>4 DEF Collected
<1>5. ASSUME NEW s \in Syncs, CollectFails(s) PROVE BridgeInv'
  BY <1>5 DEF CollectFails, Ended
<1>6. CASE Kill
  BY <1>6 DEF Kill
<1>7. CASE Accept
  <2> PICK p \in posts : posts' = posts \ {p} /\ fileQueue' = Append(fileQueue, p)
    BY <1>7 DEF Accept
  <2>1. UNCHANGED <<jar, timer, resync, sync, cookieFile, refresh, disturbances>>
    BY <1>7 DEF Accept
  <2>2. disturbances = 0 => posts = {Upload} /\ fileQueue = <<>> /\ p = Upload
    OBVIOUS
  <2>3. disturbances = 0 => posts' = {} /\ fileQueue' = <<Upload>>
    BY <2>2
  <2> QED BY <2>1, <2>2, <2>3
<1>8. CASE Refuse
  BY <1>8 DEF Refuse, Answered, Ended
<1>9. CASE WriteFile
  <2>1. /\ cookieFile' = Head(fileQueue).cookies /\ fileQueue' = Tail(fileQueue)
        /\ Answered(Head(fileQueue).by) /\ Ends(Head(fileQueue))
        /\ fileQueue # <<>> /\ UNCHANGED <<jar, timer, posts, disturbances>>
    BY <1>9 DEF WriteFile
  <2>2. sync' \in [Syncs -> SyncStates]
    BY <2>1 DEF Answered, Ended
  <2>3. ASSUME disturbances = 0 PROVE Undisturbed'
    <3>1. posts = {} /\ fileQueue = <<Upload>> /\ sync["run"].at = "posting"
      BY <2>1, <2>3
    <3>2. /\ cookieFile' = sync["run"].holds /\ fileQueue' = <<>> /\ posts' = {}
          /\ Ended("run") /\ refresh' = refresh
      BY <2>1, <3>1 DEF Answered, Ends
    <3>3. CASE resync
      BY <2>1, <2>3, <3>2, <3>3 DEF Ended
    <3>4. CASE ~resync
      BY <2>1, <2>3, <3>1, <3>2, <3>4 DEF Ended
    <3> QED BY <3>3, <3>4
  <2> QED BY <2>1, <2>2, <2>3
<1>10. CASE WriteFails
  BY <1>10 DEF WriteFails, Answered, Ended
<1>11. CASE Refresh
  BY <1>11 DEF Refresh
<1>12. CASE Script
  BY <1>12 DEF Script, ScriptReloads, ScriptSyncs, ScriptEnds, ScriptFails
<1>13. CASE PythonReads
  BY <1>13 DEF PythonReads, NotRead
<1>14. CASE UNCHANGED bridgeVars
  BY <1>14 DEF bridgeVars
<1> QED BY <1>1, <1>2, <1>3, <1>4, <1>5, <1>6, <1>7, <1>8, <1>9, <1>10, <1>11, <1>12, <1>13,
           <1>14 DEF BridgeNext

(* While nothing fails, a change of the cookies that cookies.txt does not   *)
(* have yet is still to be uploaded, or on its way (scheduleSync, runSync). *)
THEOREM NoCookieChangeIsForgotten == BridgeSpec => []NoChangeForgotten
<1>1. BridgeInv => NoChangeForgotten
  BY DEF BridgeInv, Undisturbed, NoChangeForgotten, SyncStates, Syncs
<1> QED BY BridgeInvInit, BridgeInvNext, <1>1, PTL DEF BridgeSpec

(* What the worker, the server and the scripts do keeps its shape.          *)
LEMMA BridgeTypesNext ==
    ASSUME BridgeTypeOK, [BridgeNext]_bridgeVars
    PROVE  BridgeTypeOK'
<1> USE BridgeAssumption DEF BridgeTypeOK
<1>a. NotSyncing \in SyncStates /\ Collecting \in SyncStates
  BY DEF NotSyncing, Collecting, SyncStates, Versions
<1>b. Uploads \subseteq Writes
  BY DEF Uploads, Writes
<1>c. /\ \A u \in Uploads : Orphaned(u) \in Uploads
      /\ \A u \in Writes : Orphaned(u) \in Writes
  BY DEF Orphaned, Uploads, Writes
<1>d. Disturbs => disturbances' \in 0..MaxDisturbances
  BY DEF Disturbs
<1>e. ASSUME NEW s \in Syncs, Ended(s)
      PROVE  sync' \in [Syncs -> SyncStates] /\ resync' \in BOOLEAN
  BY <1>a, <1>e DEF Ended
<1>f. ASSUME NEW by, Answered(by)
      PROVE  sync' \in [Syncs -> SyncStates] /\ resync' \in BOOLEAN
  BY <1>e, <1>f DEF Answered
<1>g. runSync => sync' \in [Syncs -> SyncStates] /\ resync' \in BOOLEAN
  BY <1>a DEF runSync, Syncs
<1>h. ASSUME Killed
      PROVE  /\ timer' \in BOOLEAN /\ resync' \in BOOLEAN
             /\ posts' \subseteq Uploads /\ fileQueue' \in Seq(Writes)
  <2>1. \A k \in 1..Len(fileQueue) : fileQueue[k] \in Writes
    OBVIOUS
  <2>2. fileQueue' = [k \in 1..Len(fileQueue) |-> Orphaned(fileQueue[k])]
    BY <1>h DEF Killed
  <2>3. \A k \in 1..Len(fileQueue) : Orphaned(fileQueue[k]) \in Writes
    BY <2>1, <1>c
  <2> DEFINE n == Len(fileQueue)
  <2>4. n \in Nat /\ fileQueue' \in [1..n -> Writes]
    BY <2>2, <2>3
  <2> HIDE DEF n
  <2>5. fileQueue' \in Seq(Writes)
    BY <2>4
  <2> QED BY <1>c, <1>h, <2>5 DEF Killed
<1>i. ASSUME fileQueue # <<>>
      PROVE  Head(fileQueue) \in Writes /\ Tail(fileQueue) \in Seq(Writes)
  BY <1>i
<1>1. CASE onChanged
  BY <1>1 DEF onChanged, Versions
<1>2. CASE Debounced \/ onAlarm
  BY <1>2, <1>g DEF Debounced, onAlarm
<1>4. ASSUME NEW s \in Syncs, Collected(s) PROVE BridgeTypeOK'
  <2> PICK v \in sync[s].holds..jar :
        /\ sync' = [sync EXCEPT ![s] = [at |-> "posting", holds |-> v]]
        /\ posts' = posts \cup {[by |-> s, cookies |-> v]}
    BY <1>4 DEF Collected
  <2>1. v \in Versions
    BY DEF SyncStates, Versions
  <2>2. [at |-> "posting", holds |-> v] \in SyncStates /\ [by |-> s, cookies |-> v] \in Uploads
    BY <2>1 DEF SyncStates, Uploads
  <2> QED BY <1>4, <2>2 DEF Collected
<1>5. ASSUME NEW s \in Syncs, CollectFails(s) PROVE BridgeTypeOK'
  BY <1>5, <1>d, <1>e DEF CollectFails
<1>6. CASE Kill
  BY <1>6, <1>a, <1>d, <1>h DEF Kill
<1>7. CASE Accept
  BY <1>7, <1>b DEF Accept, worker
<1>8. CASE Refuse
  BY <1>8, <1>d, <1>f DEF Refuse
<1>9. CASE WriteFile
  <2>1. Head(fileQueue).cookies \in Versions
    BY <1>9, <1>i DEF WriteFile, Writes
  <2> QED BY <1>9, <1>f, <1>i, <2>1 DEF WriteFile, Ends
<1>10. CASE WriteFails
  BY <1>10, <1>d, <1>f, <1>i DEF WriteFails, Ends
<1>11. CASE Refresh
  BY <1>11, <1>d DEF Refresh, worker
<1>12. CASE ScriptReloads
  BY <1>12, <1>a, <1>h DEF ScriptReloads
<1>13. CASE ScriptSyncs \/ ScriptEnds
  BY <1>13, <1>a DEF ScriptSyncs, ScriptEnds, worker, Syncs
<1>14. CASE ScriptFails
  <2>1. [by |-> "python", cookies |-> NotRead] \in Writes
    BY DEF Writes
  <2> QED BY <1>14, <2>1 DEF ScriptFails, worker
<1>15. CASE PythonReads
  <2>1. fileQueue # <<>> /\ fileQueue' = [fileQueue EXCEPT ![1].cookies = jar]
    BY <1>15 DEF PythonReads
  <2>2. 1 \in 1..Len(fileQueue) /\ fileQueue[1] \in Writes
    BY <2>1
  <2>3. [fileQueue[1] EXCEPT !.cookies = jar] \in Writes
    BY <2>2 DEF Writes
  <2>4. \A k \in 1..Len(fileQueue) : fileQueue[k] \in Writes
    OBVIOUS
  <2>5. fileQueue' = [fileQueue EXCEPT ![1] = [fileQueue[1] EXCEPT !.cookies = jar]]
    BY <2>1
  <2>6. fileQueue' \in Seq(Writes)
    BY <2>2, <2>3, <2>5
  <2> QED BY <1>15, <2>6 DEF PythonReads, worker
<1>16. CASE UNCHANGED bridgeVars
  BY <1>16 DEF bridgeVars, worker
<1> QED BY <1>1, <1>2, <1>4, <1>5, <1>6, <1>7, <1>8, <1>9, <1>10, <1>11, <1>12, <1>13,
           <1>14, <1>15, <1>16 DEF BridgeNext, Script

(* Syncs, uploads, queued writes and the refresh keep their types, whatever *)
(* worker is killed with uploads on their way (runSync, acceptEdgeCookieBridge, *)
(* refreshICloudCookiesFromEdge).                                           *)
THEOREM BridgeAlwaysTyped == BridgeSpec => []BridgeTypeOK
<1>1. BridgeInit => BridgeTypeOK
  <2> SUFFICES ASSUME BridgeInit PROVE BridgeTypeOK
    OBVIOUS
  <2>1. NotSyncing \in SyncStates /\ 0 \in Versions /\ 0 \in 0..MaxDisturbances
    BY BridgeAssumption DEF NotSyncing, SyncStates, Versions
  <2>2. sync \in [Syncs -> SyncStates] /\ posts \subseteq Uploads /\ fileQueue \in Seq(Writes)
    BY <2>1 DEF BridgeInit
  <2> QED BY <2>1, <2>2 DEF BridgeInit, BridgeTypeOK
<1> QED BY <1>1, BridgeTypesNext, PTL DEF BridgeSpec

-----------------------------------------------------------------------------
(* DashboardPage.                                                           *)

(* What a list is rendered with is the edit, in sight or not.               *)
LEMMA RenderKeepsTheDraft ==
    ASSUME NEW edit, NEW list, rendered(edit, list)
    PROVE  draft' = edit /\ input' \in {edit, NoEdit}
BY DEF rendered, InView, buildRow

LEMMA CapturedIsTheDraft ==
    ASSUME RemarkSurvives PROVE Captured = draft
BY DEF RemarkSurvives, Captured

LEMMA RemarkSurvivesNext ==
    ASSUME RemarkSurvives, [PageNext]_pageVars
    PROVE  RemarkSurvives'
<1> USE DEF RemarkSurvives
<1>1. CASE beginRemarkEditing
  BY <1>1, RenderKeepsTheDraft DEF beginRemarkEditing
<1>2. CASE Type
  BY <1>2 DEF Type
<1>3. CASE endRemarkEditing
  BY <1>3, RenderKeepsTheDraft DEF endRemarkEditing
<1>4. CASE Blur
  BY <1>4, RenderKeepsTheDraft DEF Blur
<1>5. ASSUME NEW kinds, Answer(kinds) PROVE RemarkSurvives'
  <2> PICK q \in requests : Handled(q)
    BY <1>5 DEF Answer
  <2>1. UNCHANGED unsaved
    BY <1>5 DEF Answer
  <2>2. CASE UNCHANGED <<draft, input>>
    BY <2>1, <2>2
  <2>3. ASSUME NEW list, rendered(Captured, list) PROVE RemarkSurvives'
    BY <2>1, <2>3, RenderKeepsTheDraft, CapturedIsTheDraft
  <2> QED BY <2>2, <2>3 DEF Handled, StatusAnswered, ListAnswered, GenerateAnswered,
              PersistAnswered, PurgeAnswered, ReleaseAnswered, RowAnswered
<1>6. CASE Fail
  BY <1>6, RenderKeepsTheDraft, CapturedIsTheDraft DEF Fail
<1>7. CASE UNCHANGED <<draft, input, unsaved>>
  BY <1>7
<1>8. CASE patchInventoryItem \/ checkInventoryMail \/ cachedMessage \/ purgeAccount
           \/ runMailBatch \/ createIcloudAddress \/ syncIcloudAccountsFromApple \/ releaseClaim
  BY <1>7, <1>8 DEF patchInventoryItem, checkInventoryMail, cachedMessage, purgeAccount,
      runMailBatch, createIcloudAddress, syncIcloudAccountsFromApple, releaseClaim
<1>9. CASE Expire \/ refreshBackgroundStatus \/ OthersChange
  BY <1>7, <1>9 DEF Expire, refreshBackgroundStatus, OthersChange
<1>10. ASSUME NEW kinds, Serve(kinds) PROVE RemarkSurvives'
  BY <1>7, <1>10 DEF Serve
<1>11. CASE UNCHANGED pageVars
  BY <1>7, <1>11 DEF pageVars
<1> QED BY <1>1, <1>2, <1>3, <1>4, <1>5, <1>6, <1>8, <1>9, <1>10, <1>11 DEF PageNext, Operator

(* The draft and the input on the screen hold what was typed last while an  *)
(* edit is open, whatever answers render the list (captureRemarkDraft,      *)
(* buildRow, renderList).                                                   *)
THEOREM RemarkAlwaysSurvives == PageSpec => []RemarkSurvives
<1>1. PageInit => RemarkSurvives
  BY DEF PageInit, RemarkSurvives
<1> QED BY <1>1, RemarkSurvivesNext, PTL DEF PageSpec

(* What is sent, served and shown.                                          *)
LEMMA RequestIsTyped ==
    ASSUME NEW kind \in WholeList \cup OneRow, NEW row \in Rows \cup {Gone},
           NEW remark \in Remarks \cup {Gone}
    PROVE  Request(kind, row, remark) \in Requests
<1>1. Nothing \in Inventories
  BY DEF Nothing, Inventories
<1> QED BY <1>1 DEF Request, Requests

LEMMA RenderedIsTyped ==
    ASSUME NEW edit \in Edits \cup {NoEdit}, NEW list, rendered(edit, list)
    PROVE  draft' \in Edits \cup {NoEdit} /\ input' \in Edits \cup {NoEdit}
BY DEF rendered, InView, buildRow

LEMMA DiscardedIsTyped ==
    ASSUME NEW others, others \subseteq Requests
    PROVE  /\ [r \in Rows |-> "none"] \in [Rows -> Copies]
           /\ {[p EXCEPT !.old = p.served /\ p.kind = "check"] : p \in others} \subseteq Requests
<1>1. ASSUME NEW p \in Requests
      PROVE  [p EXCEPT !.old = p.served /\ p.kind = "check"] \in Requests
  BY DEF Requests
<1> QED BY <1>1 DEF Copies

LEMMA HandledIsTyped ==
    ASSUME PageTypeOK, NEW q \in requests, Handles(q)
    PROVE  rows' \in Inventories
<1>1. q.row \in Rows \cup {Gone} /\ q.remark \in Remarks \cup {Gone} /\ rows \in Inventories
  BY DEF PageTypeOK, Requests
<1>2. CASE q.kind = "patch" /\ rows[q.row] # Gone /\ q.remark # Gone
  BY <1>1, <1>2 DEF Handles, Inventories
<1>3. CASE q.kind = "purge"
  BY <1>1, <1>3 DEF Handles, Inventories
<1>4. CASE q.kind \in {"sync", "persist"}
  BY <1>1, <1>4 DEF Handles, Inventories
<1>5. CASE /\ ~(q.kind = "patch" /\ rows[q.row] # Gone /\ q.remark # Gone)
           /\ q.kind # "purge" /\ q.kind \notin {"sync", "persist"}
  BY <1>1, <1>5 DEF Handles
<1> QED BY <1>2, <1>3, <1>4, <1>5

(* No step of the page, its server or an answer breaks their types.         *)
LEMMA PageTypesNext ==
    ASSUME PageTypeOK, [PageNext]_pageVars
    PROVE  PageTypeOK'
<1> USE PageAssumption DEF PageTypeOK
<1>a. Acts => acts' \in 0..MaxActs
  BY DEF Acts
<1>b. \A r \in Rows : mirror[r] \in Remarks \cup {Gone}
  BY DEF Inventories
<1>c. \A kind \in WholeList : Ask(kind) \in Requests
  BY RequestIsTyped DEF Ask
<1>d. ASSUME NEW r \in Rows, mirror[r] # Gone
      PROVE  [row |-> r, text |-> mirror[r]] \in Edits
  BY <1>b, <1>d DEF Edits
<1>e. Captured \in Edits \cup {NoEdit}
  BY DEF Captured
<1>f. NoEdit \in Edits \cup {NoEdit}
  OBVIOUS
<1>g. \A r \in Rows, kind \in OneRow : Request(kind, r, Gone) \in Requests
  BY RequestIsTyped
<1>h. ASSUME NEW others, others \subseteq Requests, Polls(others)
      PROVE  requests' \subseteq Requests /\ refreshing' \in BOOLEAN
  BY <1>c, <1>h DEF Polls, WholeList
<1>i. \A r \in Rows, c \in Copies : [cache EXCEPT ![r] = c] \in [Rows -> Copies]
  OBVIOUS
<1>1. CASE beginRemarkEditing
  <2> PICK r \in Rows :
        /\ mirror[r] # Gone
        /\ unsaved' = [row |-> r, text |-> mirror[r]]
        /\ rendered([row |-> r, text |-> mirror[r]], mirror)
    BY <1>1 DEF beginRemarkEditing
  <2>1. [row |-> r, text |-> mirror[r]] \in Edits
    BY <1>d
  <2>2. draft' \in Edits \cup {NoEdit} /\ input' \in Edits \cup {NoEdit}
    BY <2>1, RenderedIsTyped
  <2> QED BY <1>1, <1>a, <2>1, <2>2 DEF beginRemarkEditing
<1>2. CASE Type
  <2> PICK t \in Remarks :
        /\ input' = [input EXCEPT !.text = t] /\ unsaved' = input'
        /\ draft' = IF draft = NoEdit THEN NoEdit ELSE input'
    BY <1>2 DEF Type
  <2>1. input \in Edits
    BY <1>2 DEF Type
  <2>2. [input EXCEPT !.text = t] \in Edits
    BY <2>1 DEF Edits
  <2> QED BY <1>2, <2>2 DEF Type
<1>3. CASE endRemarkEditing
  BY <1>3, <1>f, RenderedIsTyped DEF endRemarkEditing
<1>4. CASE Blur
  <2>1. input \in Edits
    BY <1>4 DEF Blur
  <2>2. Request("patch", input.row, input.text) \in Requests
    BY <2>1, RequestIsTyped DEF Edits, OneRow
  <2>3. CASE mirror[input.row] \in {Gone, input.text}
    BY <1>4, <2>3, <1>f, RenderedIsTyped DEF Blur
  <2>4. CASE mirror[input.row] \notin {Gone, input.text}
    BY <1>4, <1>a, <2>2, <2>4 DEF Blur
  <2> QED BY <2>3, <2>4
<1>5. CASE patchInventoryItem \/ cachedMessage
  BY <1>5, <1>a, <1>g DEF patchInventoryItem, cachedMessage, Send, OneRow
<1>6. CASE checkInventoryMail
  BY <1>6, <1>a, <1>g DEF checkInventoryMail, Send, OneRow
<1>7. CASE purgeAccount
  BY <1>7, <1>a, <1>g, <1>i DEF purgeAccount, Send, OneRow, Copies
<1>8. CASE runMailBatch \/ createIcloudAddress \/ syncIcloudAccountsFromApple \/ releaseClaim
  BY <1>8, <1>a, <1>c
  DEF runMailBatch, createIcloudAddress, syncIcloudAccountsFromApple, releaseClaim, Send, WholeList
<1>9. CASE Expire
  BY <1>9, <1>i DEF Expire, Copies
<1>10. CASE refreshBackgroundStatus
  BY <1>10, <1>c DEF refreshBackgroundStatus, WholeList
<1>11. CASE OthersChange
  BY <1>11, <1>a DEF OthersChange, Inventories
<1>12. ASSUME NEW kinds, Serve(kinds) PROVE PageTypeOK'
  <2> PICK q \in requests :
        /\ Handles(q)
        /\ requests' = (requests \ {q}) \cup {[q EXCEPT !.served = TRUE, !.answer = rows']}
    BY <1>12 DEF Serve
  <2>1. rows' \in Inventories
    BY HandledIsTyped
  <2>2. [q EXCEPT !.served = TRUE, !.answer = rows'] \in Requests
    BY <2>1 DEF Requests
  <2> QED BY <1>12, <2>1, <2>2 DEF Serve
<1>13. ASSUME NEW kinds, Answer(kinds) PROVE PageTypeOK'
  <2> PICK q \in requests : Handled(q)
    BY <1>13 DEF Answer
  <2>1. UNCHANGED <<rows, unsaved, acts>>
    BY <1>13 DEF Answer
  <2>2. q.answer \in Inventories /\ q.row \in Rows \cup {Gone} /\ requests \ {q} \subseteq Requests
    BY DEF Requests
  <2>3. ASSUME NEW list, rendered(Captured, list)
        PROVE  draft' \in Edits \cup {NoEdit} /\ input' \in Edits \cup {NoEdit}
    BY <1>e, <2>3, RenderedIsTyped
  <2>4. CASE StatusAnswered(q)
    BY <1>c, <2>1, <2>4 DEF StatusAnswered, WholeList
  <2>5. CASE ListAnswered(q)
    BY <2>1, <2>2, <2>3, <2>5, DiscardedIsTyped DEF ListAnswered, Discarded
  <2>6. CASE GenerateAnswered(q)
    BY <1>c, <2>1, <2>6 DEF GenerateAnswered, WholeList
  <2>7. CASE PersistAnswered(q)
    BY <1>h, <2>1, <2>2, <2>3, <2>7, DiscardedIsTyped DEF PersistAnswered
  <2>8. CASE PurgeAnswered(q)
    BY <2>1, <2>2, <2>3, <2>8 DEF PurgeAnswered
  <2>9. CASE ReleaseAnswered(q)
    <3>1. (requests \ {q}) \cup {Ask("load")} \subseteq Requests
      BY <1>c, <2>2 DEF WholeList
    <3> QED BY <2>1, <2>9, <3>1, DiscardedIsTyped DEF ReleaseAnswered, Discarded
  <2>10. CASE RowAnswered(q)
    <3>1. Replaced(q) \in Inventories
      BY <2>2 DEF Replaced, Inventories
    <3>2. cache' \in [Rows -> Copies]
      BY <2>10 DEF RowAnswered, Copies
    <3> QED BY <2>1, <2>2, <2>3, <2>10, <3>1, <3>2 DEF RowAnswered
  <2> QED BY <2>4, <2>5, <2>6, <2>7, <2>8, <2>9, <2>10 DEF Handled
<1>14. CASE Fail
  <2> PICK q \in requests :
        /\ IF q.kind \in {"generate", "persist"} THEN Polls(requests \ {q})
           ELSE requests' = requests \ {q} /\ FailedPoll(q)
        /\ IF q.kind \in {"patch", "check"} THEN rendered(Captured, mirror)
           ELSE UNCHANGED <<draft, input>>
    BY <1>14 DEF Fail
  <2>1. requests' \subseteq Requests /\ refreshing' \in BOOLEAN
    BY <1>h DEF FailedPoll
  <2>2. draft' \in Edits \cup {NoEdit} /\ input' \in Edits \cup {NoEdit}
    BY <1>e, RenderedIsTyped
  <2> QED BY <1>14, <1>a, <2>1, <2>2 DEF Fail
<1>15. CASE UNCHANGED pageVars
  BY <1>15 DEF pageVars
<1> QED BY <1>1, <1>2, <1>3, <1>4, <1>5, <1>6, <1>7, <1>8, <1>9, <1>10, <1>11, <1>12, <1>13,
           <1>14, <1>15 DEF PageNext, Operator

(* The list, the requests under way, the draft with its input and the kept  *)
(* messages keep their types, whatever answers come in whatever order.      *)
THEOREM PageAlwaysTyped == PageSpec => []PageTypeOK
<1>1. ASSUME PageInit PROVE PageTypeOK
  <2>1. rows \in Inventories /\ mirror \in Inventories
    BY <1>1 DEF PageInit, Inventories
  <2>2. cache \in [Rows -> Copies] /\ acts \in 0..MaxActs
    BY <1>1, PageAssumption DEF PageInit, Copies
  <2> QED BY <1>1, <2>1, <2>2 DEF PageInit, PageTypeOK
<1> QED BY <1>1, PageTypesNext, PTL DEF PageSpec

-----------------------------------------------------------------------------
(* MailboxScan.                                                             *)

(* A set of UIDs is finite and has a least and a greatest one.              *)
LEMMA LeastUid ==
    ASSUME NEW S \in SUBSET Nat, S # {}
    PROVE  \E m \in S : \A x \in S : m <= x
<1>1. PICK m \in S : \A x \in S : ~ <<x, m>> \in OpToRel(<, Nat)
  BY WFMin, NatLessThanWellFounded, Zenon
<1>2. \A x \in S : <<x, m>> \in OpToRel(<, Nat) <=> x < m
  BY DEF OpToRel
<1>3. \A x \in S : ~ x < m
  BY <1>1, <1>2, Zenon
<1>4. m \in Nat /\ \A x \in S : x \in Nat
  OBVIOUS
<1> QED BY <1>3, <1>4

LEMMA GreatestUid ==
    ASSUME NEW S \in SUBSET Uids, S # {}
    PROVE  \E m \in S : \A x \in S : m >= x
<1> DEFINE T == {MaxUid - u : u \in S}
<1>1. \A u \in S : u \in Nat /\ MaxUid - u \in Nat /\ MaxUid \in Nat
  BY MailboxAssumption DEF Uids
<1>2. T \in SUBSET Nat /\ T # {}
  BY <1>1
<1>3. PICK t \in T : \A x \in T : t <= x
  BY <1>2, LeastUid
<1>4. PICK m \in S : t = MaxUid - m
  BY <1>3
<1>5. \A x \in S : t <= MaxUid - x
  BY <1>3
<1> QED BY <1>1, <1>4, <1>5

(* What Max and Min choose.                                                 *)
LEMMA MaxUids ==
    ASSUME NEW S \in SUBSET Uids, S # {}
    PROVE  Max(S) \in S /\ \A x \in S : Max(S) >= x
BY GreatestUid DEF Max

LEMMA MinUids ==
    ASSUME NEW S \in SUBSET Uids, S # {}
    PROVE  Min(S) \in S /\ \A x \in S : Min(S) <= x
<1>1. S \in SUBSET Nat
  BY DEF Uids
<1> QED BY <1>1, LeastUid DEF Min

LEMMA UidsFinite ==
    ASSUME NEW S \in SUBSET Uids
    PROVE  IsFiniteSet(S) /\ Cardinality(S) \in 0..MaxUid
<1>1. IsFiniteSet(Uids) /\ Cardinality(Uids) = MaxUid
  BY MailboxAssumption, FS_Interval DEF Uids
<1>2. IsFiniteSet(S) /\ Cardinality(S) <= MaxUid
  BY <1>1, FS_Subset
<1> QED BY <1>2, FS_CardinalityType, MailboxAssumption

-----------------------------------------------------------------------------
(* Every message up to the snapshot of a checkpoint and not below what it   *)
(* goes on from has been delivered, if the mailbox still has it.            *)
Covered(p) ==
    p.validity = uidValidity =>
        /\ p.snapshotMaxUid < uidNext
        /\ \A u \in mailbox :
            u <= p.snapshotMaxUid /\ u >= p.nextBeforeUid => u \in delivered

CursorOK ==
    /\ cursor.validity <= uidValidity
    /\ cursor.validity = uidValidity => cursor.lastUid < uidNext
    /\ CursorCoversEverything

JobOK ==
    /\ job.validity <= uidValidity
    /\ Covered(job)
    /\ job.complete => job.nextBeforeUid = 0

(* What a scan has still to fetch was in the mailbox when it searched, or   *)
(* lies below the cursor and was delivered by an earlier one.               *)
ScanOK ==
    scan.at # "idle" =>
        /\ scan.point.validity = uidValidity
        /\ Covered(scan.point)
        /\ scan.at # "done" => \A u \in mailbox :
                u <= scan.point.snapshotMaxUid /\ u < scan.point.nextBeforeUid =>
                    u \in scan.found \cup delivered
        /\ scan.at = "fetched" => Candidates # {}
        /\ scan.at = "done" => scan.point.nextBeforeUid = 0

MailboxInv ==
    /\ MailboxTypeOK
    /\ \A u \in mailbox : u < uidNext
    /\ CursorOK /\ JobOK /\ ScanOK

(* The newest of what is left is always a candidate, and with a candidate   *)
(* every newer one that is left.                                            *)
LEMMA CandidatesOfLeft ==
    ASSUME MailboxTypeOK
    PROVE  /\ Candidates \subseteq Left(scan.point)
           /\ Left(scan.point) \subseteq Uids
           /\ Left(scan.point) # {} => Candidates # {}
           /\ \A u \in Candidates, v \in Left(scan.point) : v >= u => v \in Candidates
<1>1. PICK L : L = Left(scan.point)
  OBVIOUS
<1> DEFINE Above(u) == {w \in L : w > u}
<1>2. L \subseteq Uids /\ \A u \in L : u \in Nat
  BY <1>1 DEF MailboxTypeOK, Left, Uids
<1>3. Candidates = {u \in L : Cardinality(Above(u)) < Batch}
  BY <1>1 DEF Candidates
<1>4. \A u : /\ Above(u) \subseteq Uids
            /\ IsFiniteSet(Above(u)) /\ Cardinality(Above(u)) \in Nat
  <2>1. ASSUME NEW u PROVE Above(u) \in SUBSET Uids
    BY <1>2
  <2> QED BY <2>1, UidsFinite
<1>5. \A u \in L, v \in L : v >= u => Above(v) \subseteq Above(u)
  <2> SUFFICES ASSUME NEW u \in L, NEW v \in L, v >= u, NEW w \in L, w > v
               PROVE  w > u
    OBVIOUS
  <2> QED BY <1>2
<1>6. \A m \in L : (\A x \in L : m >= x) => Above(m) = {}
  <2> SUFFICES ASSUME NEW m \in L, \A x \in L : m >= x, NEW w \in L
               PROVE  ~ w > m
    OBVIOUS
  <2> QED BY <1>2
<1> HIDE DEF Above
<1>7. ASSUME L # {} PROVE Candidates # {}
  <2>1. PICK m \in L : \A x \in L : m >= x
    BY <1>2, <1>7, GreatestUid
  <2>2. Cardinality(Above(m)) < Batch
    BY <1>6, <2>1, FS_EmptySet, MailboxAssumption
  <2> QED BY <1>3, <2>2
<1>8. ASSUME NEW u \in Candidates, NEW v \in L, v >= u PROVE v \in Candidates
  <2>1. u \in L /\ Cardinality(Above(u)) < Batch
    BY <1>3
  <2>2. Cardinality(Above(v)) <= Cardinality(Above(u))
    BY <1>4, <1>5, <1>8, <2>1, FS_Subset
  <2>3. Cardinality(Above(v)) < Batch
    BY <1>4, <2>1, <2>2, MailboxAssumption
  <2> QED BY <1>3, <2>3
<1> QED BY <1>1, <1>2, <1>3, <1>7, <1>8

(* The mailbox empties, fills and is numbered anew.                         *)
LEMMA MailboxInvServer ==
    ASSUME MailboxInv, Arrives \/ Expunged \/ Renumbered
    PROVE  MailboxInv'
<1> USE DEF MailboxInv
<1>0. /\ MaxUid \in Nat /\ uidNext \in 1..(MaxUid + 1) /\ mailbox \subseteq Uids
      /\ uidValidity \in Nat
      /\ cursor \in Cursors /\ job \in Checkpoints
      /\ scan \in [at : ScanSteps, found : SUBSET Uids, point : Checkpoints]
  BY MailboxAssumption DEF MailboxTypeOK
<1>1. CASE Arrives
  <2>1. /\ mailbox' = mailbox \cup {uidNext} /\ uidNext' = uidNext + 1 /\ uidNext <= MaxUid
        /\ UNCHANGED <<uidValidity, delivered, cursor, job, scan>>
    BY <1>1 DEF Arrives, stored
  <2>2. MailboxTypeOK'
    BY <1>0, <2>1 DEF MailboxTypeOK, Uids
  <2>3. /\ \A u \in mailbox' : u < uidNext' /\ u \in Nat
        /\ \A u \in mailbox' : u \in mailbox \/ u = uidNext
    BY <1>0, <2>1 DEF Uids
  <2>4. ASSUME NEW p \in Checkpoints, Covered(p) PROVE Covered(p)'
    BY <1>0, <2>1, <2>4 DEF Covered, Checkpoints
  <2>5. CursorOK'
    BY <1>0, <2>1, <2>3 DEF CursorOK, CursorCoversEverything, Cursors
  <2>6. PICK j, q : j = job /\ q = scan.point
    OBVIOUS
  <2>7. JobOK'
    <3>1. Covered(j)'
      BY <1>0, <2>4, <2>6 DEF JobOK
    <3> QED BY <2>1, <2>6, <3>1 DEF JobOK
  <2>8. ScanOK'
    <3>1. scan.at # "idle" => Covered(q)'
      BY <1>0, <2>4, <2>6 DEF ScanOK
    <3>2. scan.at # "idle" => q.snapshotMaxUid < uidNext /\ q.snapshotMaxUid \in Nat
      BY <1>0, <2>6 DEF ScanOK, Covered, Checkpoints
    <3>3. Candidates' = Candidates
      BY <2>1 DEF Candidates, Left
    <3> QED BY <1>0, <2>1, <2>3, <2>6, <3>1, <3>2, <3>3 DEF ScanOK
  <2> QED BY <2>2, <2>3, <2>5, <2>7, <2>8
<1>2. CASE Expunged
  <2>1. /\ mailbox' \subseteq mailbox
        /\ UNCHANGED <<uidValidity, uidNext, delivered, cursor, job, scan>>
    BY <1>2 DEF Expunged, stored
  <2>2. MailboxTypeOK'
    BY <1>0, <2>1 DEF MailboxTypeOK
  <2>3. CursorOK' /\ JobOK'
    BY <2>1 DEF CursorOK, CursorCoversEverything, JobOK, Covered
  <2>4. ScanOK'
    BY <2>1 DEF ScanOK, Covered, Candidates, Left
  <2> QED BY <2>1, <2>2, <2>3, <2>4
<1>3. CASE Renumbered
  <2>1. /\ uidValidity' = uidValidity + 1 /\ scan.at = "idle"
        /\ mailbox' = 1..Cardinality(mailbox) /\ uidNext' = Cardinality(mailbox) + 1
        /\ delivered' = {}
        /\ UNCHANGED <<cursor, job, scan>>
    BY <1>3 DEF Renumbered
  <2>2. Cardinality(mailbox) \in 0..MaxUid
    BY <1>0, UidsFinite
  <2>3. MailboxTypeOK'
    BY <1>0, <2>1, <2>2 DEF MailboxTypeOK, Uids
  <2>4. \A u \in mailbox' : u < uidNext'
    BY <2>1, <2>2
  <2>5. cursor.validity < uidValidity' /\ job.validity < uidValidity'
    BY <1>0, <2>1 DEF CursorOK, JobOK, Cursors, Checkpoints, None
  <2>6. CursorOK' /\ JobOK'
    BY <1>0, <2>1, <2>5 DEF CursorOK, CursorCoversEverything, JobOK, Covered, Cursors, Checkpoints, None
  <2>7. ScanOK'
    BY <2>1 DEF ScanOK
  <2> QED BY <2>3, <2>4, <2>6, <2>7
<1> QED BY <1>1, <1>2, <1>3

(* mailboxOpen and the search.                                              *)
LEMMA MailboxInvOpen ==
    ASSUME MailboxInv, NEW mode \in {"full", "incremental"}, Open(mode)
    PROVE  MailboxInv'
<1> USE DEF MailboxInv
<1>0. /\ MaxUid \in Nat /\ uidNext \in 1..(MaxUid + 1) /\ mailbox \subseteq Uids
      /\ uidValidity \in Nat
      /\ cursor \in Cursors /\ job \in Checkpoints
  BY MailboxAssumption DEF MailboxTypeOK
<1>1. UNCHANGED <<uidValidity, mailbox, uidNext, delivered, cursor, job>>
  BY DEF Open, server, stored
<1>2. CursorOK' /\ JobOK'
  BY <1>1 DEF CursorOK, CursorCoversEverything, JobOK, Covered
<1>3. CASE job.validity = uidValidity /\ job.complete
  <2>1. scan' = [at |-> "done", found |-> {}, point |-> job]
    BY <1>3 DEF Open
  <2>2. MailboxTypeOK'
    BY <1>0, <1>1, <2>1 DEF MailboxTypeOK, ScanSteps
  <2>3. ScanOK'
    BY <1>1, <1>3, <2>1 DEF ScanOK, JobOK, Covered
  <2> QED BY <1>1, <1>2, <2>2, <2>3
<1>4. CASE ~(job.validity = uidValidity /\ job.complete)
  <2>1. scan' = [at |-> "batches", found |-> Found(mode), point |-> Start(mode)]
    BY <1>4 DEF Open
  <2>2. Found(mode) \subseteq mailbox /\ Found(mode) \subseteq Uids
    BY <1>0 DEF Found
  <2>3. Snapshot(mode) \in 0..MaxUid /\ Snapshot(mode) < uidNext
    <3>1. CASE Found(mode) # {}
      BY <1>0, <2>2, <3>1, MaxUids DEF Snapshot, Top, Uids
    <3>2. CASE Found(mode) = {}
      BY <1>0, <3>2 DEF Snapshot, Top, Incremental, CursorOK, Cursors
    <3> QED BY <3>1, <3>2
  <2>4. /\ Start(mode) \in Checkpoints
        /\ Start(mode).validity = uidValidity
        /\ Covered(Start(mode))
    <3>1. CASE Resumes
      BY <1>0, <3>1 DEF Start, Resumes, JobOK
    <3>2. CASE ~Resumes
      <4>1. /\ Start(mode) = Fresh(mode)
            /\ Fresh(mode).validity = uidValidity
            /\ Fresh(mode).snapshotMaxUid = Snapshot(mode)
            /\ Fresh(mode).nextBeforeUid = Snapshot(mode) + 1
        BY <3>2 DEF Start, Fresh
      <4>2. Fresh(mode) \in Checkpoints
        BY <1>0, <2>3 DEF Fresh, Checkpoints
      <4>3. \A u \in mailbox : u \in Nat
        BY <1>0 DEF Uids
      <4> QED BY <2>3, <4>1, <4>2, <4>3 DEF Covered
    <3> QED BY <3>1, <3>2
  <2>5. \A u \in mailbox : u \in Found(mode) \cup delivered
    <3>1. \A u \in mailbox : u \in Nat
      BY <1>0 DEF Uids
    <3> QED BY <1>0, <3>1 DEF Found, Incremental, CursorOK, CursorCoversEverything, Cursors
  <2>6. MailboxTypeOK'
    BY <1>0, <1>1, <2>1, <2>2, <2>4 DEF MailboxTypeOK, ScanSteps
  <2>7. PICK p : p = Start(mode)
    OBVIOUS
  <2>8. Covered(p)'
    BY <1>1, <2>4, <2>7 DEF Covered
  <2>9. /\ scan'.at = "batches" /\ scan'.found = Found(mode) /\ scan'.point = p
        /\ p.validity = uidValidity
    BY <2>1, <2>4, <2>7
  <2>10. ScanOK'
    BY <1>1, <2>5, <2>8, <2>9 DEF ScanOK
  <2> QED BY <1>1, <1>2, <2>6, <2>10
<1> QED BY <1>3, <1>4

(* What a scan still has to fetch from p on is in f, or was delivered.      *)
Kept(f, p) ==
    \A u \in mailbox :
        u <= p.snapshotMaxUid /\ u < p.nextBeforeUid => u \in f \cup delivered

(* onBatch.  What is left and not below the oldest of the batch is in the   *)
(* batch, so the checkpoint covers no message the batch did not bring.      *)
LEMMA MailboxInvOnBatch ==
    ASSUME MailboxInv, OnBatch
    PROVE  MailboxInv'
<1> USE DEF MailboxInv
<1>0. /\ MaxUid \in Nat /\ uidNext \in 1..(MaxUid + 1) /\ mailbox \subseteq Uids
      /\ uidValidity \in Nat /\ delivered \subseteq Uids
      /\ cursor \in Cursors /\ job \in Checkpoints
      /\ scan \in [at : ScanSteps, found : SUBSET Uids, point : Checkpoints]
      /\ scan.at = "fetched"
  BY MailboxAssumption DEF MailboxTypeOK, OnBatch
<1>1. PICK C, L, p, f : C = Candidates /\ L = Left(scan.point) /\ p = scan.point /\ f = scan.found
  OBVIOUS
<1>2. /\ C # {} /\ C \subseteq L /\ L \subseteq Uids
      /\ \A u \in C, v \in L : v >= u => v \in C
  BY <1>0, <1>1, CandidatesOfLeft DEF ScanOK
<1>3. PICK b : b = Min(C)
  OBVIOUS
<1>4. b \in C /\ (\A u \in C : b <= u) /\ b \in 1..MaxUid /\ C \in SUBSET Uids
  <2>1. C \in SUBSET Uids /\ C # {}
    BY <1>2
  <2>2. b \in C /\ \A u \in C : b <= u
    BY <1>3, <2>1, MinUids
  <2> QED BY <2>1, <2>2 DEF Uids
<1>5. PICK e \in BOOLEAN : e = \A u \in L : u >= b
  OBVIOUS
<1>6. PICK n : n = IF e THEN 0 ELSE b
  OBVIOUS
<1>7. PICK q : q = [p EXCEPT !.nextBeforeUid = n, !.complete = e]
  OBVIOUS
<1>8. /\ p \in Checkpoints /\ f \subseteq Uids
      /\ n \in 0..(MaxUid + 1)
      /\ L = {u \in f : u <= p.snapshotMaxUid /\ u < p.nextBeforeUid}
  BY <1>0, <1>1, <1>4, <1>6 DEF Left
<1>9. /\ q \in Checkpoints
      /\ q.validity = p.validity /\ q.snapshotMaxUid = p.snapshotMaxUid
      /\ q.nextBeforeUid = n /\ q.complete = e
  BY <1>5, <1>7, <1>8 DEF Checkpoints
<1>10. /\ delivered' = delivered \cup (C \cap mailbox)
       /\ job' = q
       /\ cursor' = IF e THEN CursorAt(q) ELSE cursor
       /\ scan' = [scan EXCEPT !.at = IF e THEN "done" ELSE "batches", !.point = q]
       /\ UNCHANGED <<uidValidity, mailbox, uidNext>>
  BY <1>1, <1>3, <1>5, <1>6, <1>7 DEF OnBatch, server
<1>11. /\ scan'.at = (IF e THEN "done" ELSE "batches")
       /\ scan'.found = f /\ scan'.point = q
       /\ scan' \in [at : ScanSteps, found : SUBSET Uids, point : Checkpoints]
  BY <1>0, <1>1, <1>9, <1>10 DEF ScanSteps
<1>12. /\ p.validity = uidValidity
       /\ p.snapshotMaxUid < uidNext
       /\ \A u \in mailbox :
            u <= p.snapshotMaxUid /\ u >= p.nextBeforeUid => u \in delivered
       /\ \A u \in mailbox :
            u <= p.snapshotMaxUid /\ u < p.nextBeforeUid => u \in f \cup delivered
  BY <1>0, <1>1 DEF ScanOK, Covered
<1>13. /\ p.snapshotMaxUid \in Nat /\ p.nextBeforeUid \in Nat /\ n \in Nat /\ b \in Nat
       /\ p.snapshotMaxUid \in 0..MaxUid
       /\ \A u \in mailbox : u \in Nat
  BY <1>0, <1>4, <1>8 DEF Checkpoints, Uids
<1>14. \A u \in mailbox : u <= p.snapshotMaxUid /\ u >= n => u \in delivered'
  <2> SUFFICES ASSUME NEW u \in mailbox, u <= p.snapshotMaxUid, u >= n, u \notin delivered
               PROVE  u \in C
    BY <1>10
  <2>1. u \in L
    BY <1>8, <1>12, <1>13
  <2>2. u >= b
    BY <1>5, <1>6, <2>1
  <2> QED BY <1>2, <1>4, <2>1, <2>2
<1>15. Covered(q)' /\ q.validity = uidValidity
  BY <1>9, <1>10, <1>12, <1>14 DEF Covered
<1>16. \A u \in mailbox :
          u <= p.snapshotMaxUid /\ u < n => u \in f \cup delivered'
  <2> SUFFICES ASSUME NEW u \in mailbox, u <= p.snapshotMaxUid, u < n, ~ e
               PROVE  u \in f \cup delivered'
    BY <1>6, <1>13
  <2>1. b < p.nextBeforeUid
    BY <1>2, <1>4, <1>8
  <2> QED BY <1>6, <1>10, <1>12, <1>13, <2>1
<1>17. e => n = 0
  BY <1>6
<1>18. MailboxTypeOK'
  <2>1. delivered' \subseteq Uids
    BY <1>0, <1>4, <1>10
  <2>2. cursor' \in Cursors
    <3>1. CursorAt(q) \in Cursors
      BY <1>9 DEF CursorAt, Cursors, Checkpoints
    <3> QED BY <1>0, <1>10, <3>1
  <2> QED BY <1>0, <1>9, <1>10, <1>11, <2>1, <2>2 DEF MailboxTypeOK
<1>19. CursorOK'
  <2>1. CASE e
    <3>1. cursor'.validity = uidValidity /\ cursor'.lastUid = p.snapshotMaxUid
      BY <1>9, <1>10, <1>15, <2>1 DEF CursorAt
    <3>2. \A u \in mailbox : u <= p.snapshotMaxUid => u \in delivered'
      BY <1>13, <1>14, <1>17, <2>1
    <3> QED BY <1>0, <1>10, <1>12, <3>1, <3>2 DEF CursorOK, CursorCoversEverything
  <2>2. CASE ~ e
    <3>1. cursor' = cursor
      BY <1>10, <2>2
    <3> QED BY <1>10, <3>1 DEF CursorOK, CursorCoversEverything
  <2> QED BY <2>1, <2>2
<1>20. JobOK'
  <2>1. PICK j : j = job'
    OBVIOUS
  <2> QED BY <1>0, <1>9, <1>10, <1>15, <1>17 DEF JobOK
<1>21. ScanOK'
  BY <1>9, <1>10, <1>11, <1>15, <1>16, <1>17 DEF ScanOK
<1> QED BY <1>10, <1>18, <1>19, <1>20, <1>21

(* The rest of a scan: a fetch, one with nothing left to fetch, its return  *)
(* and its failure.                                                         *)
LEMMA MailboxInvRest ==
    ASSUME MailboxInv, Fetch \/ Exhausted \/ Returns \/ Aborts
    PROVE  MailboxInv'
<1> USE DEF MailboxInv
<1>0. /\ MaxUid \in Nat /\ uidNext \in 1..(MaxUid + 1) /\ mailbox \subseteq Uids
      /\ uidValidity \in Nat /\ delivered \subseteq Uids
      /\ cursor \in Cursors /\ job \in Checkpoints
      /\ scan \in [at : ScanSteps, found : SUBSET Uids, point : Checkpoints]
  BY MailboxAssumption DEF MailboxTypeOK
<1>s. UNCHANGED <<uidValidity, mailbox, uidNext, delivered>>
  BY DEF Fetch, Exhausted, Returns, Aborts, server, stored
<1>1. CASE Fetch
  <2>1. PICK p, f : p = scan.point /\ f = scan.found
    OBVIOUS
  <2>2. /\ scan'.at = "fetched" /\ scan'.found = f /\ scan'.point = p
        /\ scan' \in [at : ScanSteps, found : SUBSET Uids, point : Checkpoints]
        /\ UNCHANGED <<cursor, job>>
    BY <1>0, <1>1, <2>1 DEF Fetch, stored, ScanSteps
  <2>3. Candidates' = Candidates /\ Candidates # {}
    BY <1>1, <2>1, <2>2 DEF Candidates, Left, Fetch
  <2>4. CursorOK' /\ JobOK'
    BY <1>s, <2>2 DEF CursorOK, CursorCoversEverything, JobOK, Covered
  <2>5. /\ p.validity = uidValidity
        /\ Covered(p)'
        /\ \A u \in mailbox :
            u <= p.snapshotMaxUid /\ u < p.nextBeforeUid => u \in f \cup delivered
    BY <1>1, <1>s, <2>1 DEF ScanOK, Fetch, Covered
  <2>6. ScanOK'
    BY <1>s, <2>2, <2>3, <2>5 DEF ScanOK
  <2> QED BY <1>0, <1>s, <2>2, <2>4, <2>6 DEF MailboxTypeOK
<1>2. CASE Exhausted
  <2>1. PICK p, f : p = scan.point /\ f = scan.found
    OBVIOUS
  <2>2. PICK q : q = [p EXCEPT !.nextBeforeUid = 0, !.complete = TRUE]
    OBVIOUS
  <2>3. p \in Checkpoints /\ f \subseteq Uids /\ scan.at = "batches"
    BY <1>0, <1>2, <2>1 DEF Exhausted
  <2>4. /\ q \in Checkpoints /\ q.validity = p.validity
        /\ q.snapshotMaxUid = p.snapshotMaxUid /\ q.nextBeforeUid = 0
    <3>1. 0 \in 0..(MaxUid + 1) /\ TRUE \in BOOLEAN
      BY <1>0
    <3>2. /\ p.validity \in Nat \cup {None} /\ p.snapshotMaxUid \in 0..MaxUid
          /\ p = [validity |-> p.validity, snapshotMaxUid |-> p.snapshotMaxUid,
                  nextBeforeUid |-> p.nextBeforeUid, complete |-> p.complete]
      BY <2>3 DEF Checkpoints
    <3>3. q = [validity |-> p.validity, snapshotMaxUid |-> p.snapshotMaxUid,
               nextBeforeUid |-> 0, complete |-> TRUE]
      BY <2>2, <3>2
    <3> QED BY <3>1, <3>2, <3>3 DEF Checkpoints
  <2>5. UNCHANGED <<cursor, job>> /\ scan' = [scan EXCEPT !.at = "done", !.point = q]
    BY <1>2, <1>0, <2>1, <2>2 DEF Exhausted, stored
  <2>6. /\ scan'.at = "done" /\ scan'.point = q
        /\ scan' \in [at : ScanSteps, found : SUBSET Uids, point : Checkpoints]
    BY <1>0, <2>4, <2>5 DEF ScanSteps
  <2>7. CursorOK' /\ JobOK'
    BY <1>s, <2>5 DEF CursorOK, CursorCoversEverything, JobOK, Covered
  <2>8. {u \in f : u <= p.snapshotMaxUid /\ u < p.nextBeforeUid} = {}
    BY <1>2, <2>1, CandidatesOfLeft DEF Exhausted, Left
  <2>9. \A u \in mailbox : u <= p.snapshotMaxUid => u \in delivered
    <3>1. /\ \A u \in mailbox : u \in Nat
          /\ p.nextBeforeUid \in Nat
      BY <1>0, <2>3 DEF Uids, Checkpoints
    <3>2. /\ \A u \in mailbox :
            u <= p.snapshotMaxUid /\ u >= p.nextBeforeUid => u \in delivered
          /\ \A u \in mailbox :
            u <= p.snapshotMaxUid /\ u < p.nextBeforeUid => u \in f \cup delivered
      BY <2>1, <2>3 DEF ScanOK, Covered
    <3> QED BY <2>8, <3>1, <3>2
  <2>10. p.validity = uidValidity /\ p.snapshotMaxUid < uidNext
    BY <2>1, <2>3 DEF ScanOK, Covered
  <2>11. Covered(q)'
    BY <1>s, <2>4, <2>9, <2>10 DEF Covered
  <2>12. ScanOK'
    BY <1>s, <2>4, <2>6, <2>10, <2>11 DEF ScanOK
  <2> QED BY <1>0, <1>s, <2>5, <2>6, <2>7, <2>12 DEF MailboxTypeOK
<1>3. CASE Returns
  <2>1. PICK p : p = scan.point
    OBVIOUS
  <2>2. /\ cursor' = CursorAt(p) /\ job' = NoJob /\ scan' = IdleScan /\ scan.at = "done"
    BY <1>3, <2>1 DEF Returns
  <2>3. /\ p \in Checkpoints
        /\ p.validity = uidValidity /\ p.nextBeforeUid = 0
        /\ p.snapshotMaxUid < uidNext
        /\ \A u \in mailbox :
            u <= p.snapshotMaxUid /\ u >= p.nextBeforeUid => u \in delivered
    BY <1>0, <2>1, <2>2 DEF ScanOK, Covered
  <2>4. \A u \in mailbox : u <= p.snapshotMaxUid => u \in delivered
    BY <1>0, <2>3 DEF Uids
  <2>5. /\ cursor'.validity = uidValidity /\ cursor'.lastUid = p.snapshotMaxUid
        /\ cursor' \in Cursors
    BY <2>2, <2>3 DEF CursorAt, Cursors, Checkpoints
  <2>6. CursorOK'
    BY <1>0, <1>s, <2>3, <2>4, <2>5 DEF CursorOK, CursorCoversEverything
  <2>7. NoJob \in Checkpoints /\ IdleScan \in [at : ScanSteps, found : SUBSET Uids, point : Checkpoints]
    BY <1>0 DEF NoJob, IdleScan, Checkpoints, ScanSteps, None
  <2>8. JobOK'
    BY <1>0, <1>s, <2>2 DEF JobOK, Covered, NoJob, None
  <2>9. ScanOK'
    BY <2>2 DEF ScanOK, IdleScan
  <2> QED BY <1>0, <1>s, <2>2, <2>5, <2>6, <2>7, <2>8, <2>9 DEF MailboxTypeOK
<1>4. CASE Aborts
  <2>1. UNCHANGED <<cursor, job>> /\ scan' = IdleScan
    BY <1>4 DEF Aborts, stored
  <2>2. IdleScan \in [at : ScanSteps, found : SUBSET Uids, point : Checkpoints]
    BY <1>0 DEF NoJob, IdleScan, Checkpoints, ScanSteps, None
  <2>3. CursorOK' /\ JobOK'
    BY <1>s, <2>1 DEF CursorOK, CursorCoversEverything, JobOK, Covered
  <2>4. ScanOK'
    BY <2>1 DEF ScanOK, IdleScan
  <2> QED BY <1>0, <1>s, <2>1, <2>2, <2>3, <2>4 DEF MailboxTypeOK
<1> QED BY <1>1, <1>2, <1>3, <1>4

LEMMA MailboxInvInductive == MailboxSpec => []MailboxInv
<1>1. MailboxInit => MailboxInv
  <2>1. ASSUME MailboxInit PROVE MailboxTypeOK
    BY <2>1, MailboxAssumption DEF MailboxInit, MailboxTypeOK, NoCursor, NoJob, IdleScan,
       Cursors, Checkpoints, ScanSteps, None
  <2>2. ASSUME MailboxInit PROVE CursorOK /\ JobOK /\ ScanOK
    BY <2>2 DEF MailboxInit, CursorOK, JobOK, ScanOK, CursorCoversEverything, Covered,
       NoCursor, NoJob, IdleScan, None
  <2> QED BY <2>1, <2>2 DEF MailboxInv, MailboxInit
<1>2. MailboxInv /\ [MailboxNext]_mailboxVars => MailboxInv'
  <2> SUFFICES ASSUME MailboxInv, [MailboxNext]_mailboxVars
               PROVE  MailboxInv'
    OBVIOUS
  <2>1. CASE Arrives \/ Expunged \/ Renumbered
    BY <2>1, MailboxInvServer
  <2>2. ASSUME NEW mode \in {"full", "incremental"}, Open(mode) PROVE MailboxInv'
    BY <2>2, MailboxInvOpen
  <2>3. CASE OnBatch
    BY <2>3, MailboxInvOnBatch
  <2>4. CASE Fetch \/ Exhausted \/ Returns \/ Aborts
    BY <2>4, MailboxInvRest
  <2>5. CASE UNCHANGED mailboxVars
    BY <2>5 DEF mailboxVars, server, stored, MailboxInv, MailboxTypeOK, CursorOK, JobOK,
       ScanOK, CursorCoversEverything, Covered, Candidates, Left
  <2> QED BY <2>1, <2>2, <2>3, <2>4, <2>5 DEF MailboxNext
<1> QED BY <1>1, <1>2, PTL DEF MailboxSpec

(* The mailbox, the cursor, the checkpoint and the scan keep their types.   *)
THEOREM MailboxAlwaysTyped == MailboxSpec => []MailboxTypeOK
<1>1. MailboxInv => MailboxTypeOK
  BY DEF MailboxInv
<1> QED BY <1>1, MailboxInvInductive, PTL

(* Every message the mailbox still has up to the cursor has been delivered, *)
(* however scans were cut off, resumed or overtaken by new mail, and when   *)
(* the server numbered the messages anew (scanAllForAliases).               *)
THEOREM CursorAlwaysCovers == MailboxSpec => []CursorCoversEverything
<1>1. MailboxInv => CursorCoversEverything
  BY DEF MailboxInv, CursorOK
<1> QED BY <1>1, MailboxInvInductive, PTL

=============================================================================
