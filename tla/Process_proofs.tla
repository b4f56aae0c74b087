---------------------------- MODULE Process_proofs --------------------------
(***************************************************************************)
(* For any number of requests and any bounds: that a shutdown of the local *)
(* edition that completes has done what it owes (Process), that every line *)
(* of the log is accounted for when the process has ended, and that        *)
(* rotation keeps the newest lines and their order (LifecycleLog).         *)
(***************************************************************************)
EXTENDS Process, FiniteSetTheorems, TLAPS

(* A queue names nobody twice.                                              *)
Once(queue) == \A j, k \in DOMAIN queue : queue[j] = queue[k] => j = k

(* Who waits in a queue; no handler is in a queue it does not wait for.     *)
QueueOrder ==
    /\ Once(storeQueue) /\ Once(turns)
    /\ \A k \in DOMAIN storeQueue :
        \/ storeQueue[k] \in Requests /\ request[storeQueue[k]].at = "mutation"
        \/ storeQueue[k] = job /\ stage \in {"claim", "settle"}
    /\ \A k \in DOMAIN turns :
        turns[k] \in Requests => request[turns[k]].at = "turn"
    /\ stage # "idle" => turns # <<>>

(* The stages of a shutdown: what is closed, stopped and empty stays so.    *)
ShutdownOrder ==
    /\ shutdown # "none" => stopped /\ server # "open"
    /\ shutdown \in {"background", "store", "log", "complete"} /\ ~hosted => server = "closed"
    /\ shutdown \in {"store", "log", "complete"} => stage = "idle"
    /\ server = "closed" => \A r \in Requests : ~Connected(r)

WorkTypeOK ==
    /\ request \in [Requests -> Handlers]
    /\ storeQueue \in Seq(Owners) /\ turns \in Seq(Owners)

ProcessInv == WorkTypeOK /\ QueueOrder /\ ShutdownOrder

LEMMA ProcessInvInit == Init => ProcessInv
BY DEF Init, ProcessInv, WorkTypeOK, QueueOrder, ShutdownOrder, Once, Handlers, Connected, Busy

(* A queue that grows by somebody new, or loses its head.                   *)
LEMMA AppendOnce ==
    ASSUME NEW queue \in Seq(Owners), Once(queue), NEW owner \in Owners,
           \A k \in DOMAIN queue : queue[k] # owner
    PROVE  /\ Append(queue, owner) \in Seq(Owners) /\ Once(Append(queue, owner))
           /\ Append(queue, owner) # <<>>
           /\ \A k \in DOMAIN Append(queue, owner) :
                Append(queue, owner)[k] = owner \/ \E j \in DOMAIN queue : Append(queue, owner)[k] = queue[j]
BY DEF Once

LEMMA TailOnce ==
    ASSUME NEW queue \in Seq(Owners), Once(queue), queue # <<>>
    PROVE  /\ Tail(queue) \in Seq(Owners) /\ Once(Tail(queue))
           /\ Head(queue) = queue[1] /\ 1 \in DOMAIN queue
           /\ \A k \in DOMAIN Tail(queue) :
                k + 1 \in DOMAIN queue /\ Tail(queue)[k] = queue[k + 1]
           /\ \A k \in DOMAIN Tail(queue) : Tail(queue)[k] # Head(queue)
BY DEF Once

LEMMA ToMoves ==
    ASSUME WorkTypeOK, NEW r \in Requests,
           NEW at \in {"mutation", "turn", "sending", "done"}, To(r, at)
    PROVE  /\ request' \in [Requests -> Handlers]
           /\ request'[r].client = request[r].client
           /\ request'[r].at \in {at, "done"} /\ (at # "sending" => request'[r].at = at)
           /\ \A s \in Requests : s # r => request'[s] = request[s]
<1>1. PICK there \in {at, "done"} :
        /\ request' = [request EXCEPT ![r].at = there]
        /\ at # "sending" => there = at
  BY DEF To
<1>2. request[r] \in Handlers
  BY DEF WorkTypeOK
<1>3. [request[r] EXCEPT !.at = there] \in Handlers
  BY <1>2 DEF Handlers
<1>4. request'[r] = [request[r] EXCEPT !.at = there]
  BY <1>1 DEF WorkTypeOK
<1>5. request'[r].client = request[r].client /\ request'[r].at = there
  BY <1>2, <1>4 DEF Handlers
<1>6. request' \in [Requests -> Handlers] /\ \A s \in Requests : s # r => request'[s] = request[s]
  BY <1>1, <1>3 DEF WorkTypeOK
<1> QED BY <1>1, <1>5, <1>6

(* Queues that keep still do not mind a handler that is in none of them.    *)
LEMMA OthersKeepTheirPlace ==
    ASSUME QueueOrder, NEW r \in Requests, request[r].at \notin {"mutation", "turn"},
           \A s \in Requests : s # r => request'[s] = request[s],
           UNCHANGED <<storeQueue, turns, stage>>
    PROVE  QueueOrder'
BY DEF QueueOrder, Once

LEMMA ShutdownKept ==
    ASSUME ShutdownOrder, \A r \in Requests : Connected(r)' => Connected(r),
           UNCHANGED <<shutdown, stopped, server, hosted>>,
           shutdown \in {"store", "log", "complete"} => stage' = "idle"
    PROVE  ShutdownOrder'
BY DEF ShutdownOrder

LEMMA TurnEndsInOrder ==
    ASSUME ProcessInv, TurnEnds, turns # <<>>,
           \/ UNCHANGED storeQueue /\ stage = "idle"
           \/ storeQueue # <<>> /\ storeQueue' = Tail(storeQueue) /\ Head(storeQueue) = job
    PROVE  /\ WorkTypeOK' /\ QueueOrder' /\ stage' = "idle"
           /\ \A r \in Requests : Connected(r)' => Connected(r)
<1> USE ProcessAssumption
<1>0. WorkTypeOK /\ QueueOrder
  BY DEF ProcessInv
<1>1. turns' = Tail(turns) /\ stage' = "idle"
  BY DEF TurnEnds
<1>2. /\ turns' \in Seq(Owners) /\ Once(turns)' /\ Head(turns) = turns[1] /\ 1 \in DOMAIN turns
      /\ Head(turns) \in Owners
      /\ \A k \in DOMAIN turns' : \E j \in DOMAIN turns :
            turns'[k] = turns[j] /\ turns[j] # Head(turns)
  <2>1. turns \in Seq(Owners) /\ Once(turns)
    BY <1>0 DEF WorkTypeOK, QueueOrder
  <2>2. Once(Tail(turns)) => Once(turns)'
    BY <1>1 DEF Once
  <2> QED BY <1>1, <2>1, <2>2, TailOnce
<1>3. /\ storeQueue' \in Seq(Owners) /\ Once(storeQueue)'
      /\ \A k \in DOMAIN storeQueue' :
            storeQueue'[k] \in Requests /\ request[storeQueue'[k]].at = "mutation"
  <2>1. storeQueue \in Seq(Owners) /\ Once(storeQueue)
    BY <1>0 DEF WorkTypeOK, QueueOrder
  <2>2. CASE UNCHANGED storeQueue /\ stage = "idle"
    BY <1>0, <2>1, <2>2 DEF QueueOrder, Once
  <2>3. CASE storeQueue # <<>> /\ storeQueue' = Tail(storeQueue) /\ Head(storeQueue) = job
    <3>1. /\ Tail(storeQueue) \in Seq(Owners) /\ Once(Tail(storeQueue))
          /\ \A k \in DOMAIN Tail(storeQueue) : \E j \in DOMAIN storeQueue :
                Tail(storeQueue)[k] = storeQueue[j] /\ storeQueue[j] # job
      BY <2>1, <2>3, TailOnce
    <3>2. Once(Tail(storeQueue)) => Once(storeQueue)'
      BY <2>3 DEF Once
    <3> QED BY <1>0, <2>3, <3>1, <3>2 DEF QueueOrder
  <2> QED BY <2>2, <2>3
<1>4. CASE Head(turns) \in Requests
  <2> DEFINE r == Head(turns)
  <2>1. request[r].at = "turn"
    BY <1>0, <1>2, <1>4 DEF QueueOrder
  <2>2. To(r, "sending")
    BY <1>4 DEF TurnEnds
  <2>3. /\ request' \in [Requests -> Handlers]
        /\ request'[r].client = request[r].client
        /\ \A s \in Requests : s # r => request'[s] = request[s]
    BY <1>0, <1>4, <2>2, ToMoves
  <2> HIDE DEF r
  <2>4. WorkTypeOK'
    BY <1>2, <1>3, <2>3 DEF WorkTypeOK
  <2>5. \A s \in Requests : Connected(s)' => Connected(s)
    BY <2>1, <2>3 DEF Connected, Busy
  <2>6. \A k \in DOMAIN turns' : turns'[k] \in Requests => request'[turns'[k]].at = "turn"
    BY <1>0, <1>2, <2>3 DEF QueueOrder, r
  <2>7. \A k \in DOMAIN storeQueue' :
            storeQueue'[k] \in Requests /\ request'[storeQueue'[k]].at = "mutation"
    BY <1>3, <2>1, <2>3
  <2> QED BY <1>1, <1>2, <1>3, <2>4, <2>5, <2>6, <2>7 DEF QueueOrder
<1>5. CASE Head(turns) \notin Requests
  <2>1. UNCHANGED request
    BY <1>5 DEF TurnEnds
  <2> QED BY <1>0, <1>1, <1>2, <1>3, <2>1 DEF QueueOrder, WorkTypeOK, Connected, Busy
<1> QED BY <1>4, <1>5

(* A step that leaves the work alone.                                       *)
LEMMA WorkKept ==
    ASSUME ProcessInv, UNCHANGED work
    PROVE  WorkTypeOK' /\ QueueOrder' /\ \A r \in Requests : Connected(r)' = Connected(r)
BY DEF ProcessInv, work, WorkTypeOK, QueueOrder, Once, Connected, Busy

LEMMA ProcessInvNext ==
    ASSUME ProcessInv, [Next]_vars
    PROVE  ProcessInv'
<1> USE ProcessAssumption
<1>0. WorkTypeOK /\ QueueOrder /\ ShutdownOrder
  BY DEF ProcessInv
<1>1. ASSUME NEW r \in Requests, Arrive(r) PROVE ProcessInv'
  <2>1. /\ server = "open" /\ request[r].at = "none"
        /\ request' = [request EXCEPT ![r] = [at |-> "work", client |-> TRUE]]
        /\ UNCHANGED <<server, storeQueue, turns, stage, stopped, shutdown, hosted>>
    BY <1>1 DEF Arrive, running, ending
  <2>2. WorkTypeOK'
    BY <1>0, <2>1 DEF WorkTypeOK, Handlers
  <2>3. QueueOrder'
    BY <1>0, <2>1, OthersKeepTheirPlace DEF WorkTypeOK
  <2>4. ShutdownOrder'
    BY <1>0, <2>1 DEF ShutdownOrder
  <2> QED BY <2>2, <2>3, <2>4 DEF ProcessInv
<1>2. ASSUME NEW r \in Requests, Disconnect(r) PROVE ProcessInv'
  <2>1. /\ request' = [request EXCEPT ![r] =
                [at |-> IF @.at = "sending" THEN "done" ELSE @.at, client |-> FALSE]]
        /\ UNCHANGED <<server, storeQueue, turns, stage, stopped, shutdown, hosted>>
    BY <1>2 DEF Disconnect, running, ending
  <2>2. /\ request'[r].at = (IF request[r].at = "sending" THEN "done" ELSE request[r].at)
        /\ ~request'[r].client
        /\ \A s \in Requests : s # r => request'[s] = request[s]
    BY <1>0, <2>1 DEF WorkTypeOK
  <2>3. WorkTypeOK'
    BY <1>0, <2>1 DEF WorkTypeOK, Handlers
  <2>4. QueueOrder'
    BY <1>0, <2>1, <2>2 DEF QueueOrder, Once
  <2>5. \A s \in Requests : Connected(s)' => Connected(s)
    BY <2>2 DEF Connected, Busy
  <2> QED BY <1>0, <2>1, <2>3, <2>4, <2>5, ShutdownKept DEF ProcessInv, ShutdownOrder
<1>3. ASSUME NEW r \in Requests, Sent(r) \/ Answer(r) PROVE ProcessInv'
  <2>1. /\ To(r, "done") \/ To(r, "sending")
        /\ request[r].at \in {"work", "sending"}
        /\ UNCHANGED <<server, storeQueue, turns, stage, stopped, shutdown, hosted>>
    BY <1>3 DEF Sent, Answer, running, ending
  <2>2. /\ request' \in [Requests -> Handlers] /\ request'[r].client = request[r].client
        /\ \A s \in Requests : s # r => request'[s] = request[s]
    BY <1>0, <2>1, ToMoves
  <2>3. WorkTypeOK' /\ QueueOrder'
    BY <1>0, <2>1, <2>2, OthersKeepTheirPlace DEF WorkTypeOK
  <2>4. \A s \in Requests : Connected(s)' => Connected(s)
    BY <2>1, <2>2 DEF Connected, Busy
  <2> QED BY <1>0, <2>1, <2>3, <2>4, ShutdownKept DEF ProcessInv, ShutdownOrder
<1>4. ASSUME NEW r \in Requests, Mutate(r) PROVE ProcessInv'
  <2>1. /\ To(r, "mutation") /\ request[r].at = "work"
        /\ storeQueue' = Append(storeQueue, r)
        /\ UNCHANGED <<server, turns, stage, stopped, shutdown, hosted>>
    BY <1>4 DEF Mutate, running, ending
  <2>2. /\ request' \in [Requests -> Handlers] /\ request'[r].client = request[r].client
        /\ request'[r].at = "mutation"
        /\ \A s \in Requests : s # r => request'[s] = request[s]
    BY <1>0, <2>1, ToMoves
  <2>3. \A k \in DOMAIN storeQueue : storeQueue[k] # r
    BY <1>0, <2>1 DEF QueueOrder, job
  <2>4. /\ storeQueue' \in Seq(Owners) /\ Once(Append(storeQueue, r))
        /\ \A k \in DOMAIN storeQueue' :
                storeQueue'[k] = r \/ \E j \in DOMAIN storeQueue : storeQueue'[k] = storeQueue[j]
    BY <1>0, <2>1, <2>3, AppendOnce DEF WorkTypeOK, QueueOrder, Owners
  <2>5. Once(storeQueue)' /\ Once(turns)'
    BY <1>0, <2>1, <2>4 DEF Once, QueueOrder
  <2>6. WorkTypeOK' /\ QueueOrder'
    BY <1>0, <2>1, <2>2, <2>3, <2>4, <2>5 DEF WorkTypeOK, QueueOrder
  <2>7. \A s \in Requests : Connected(s)' => Connected(s)
    BY <2>1, <2>2 DEF Connected, Busy
  <2> QED BY <1>0, <2>1, <2>6, <2>7, ShutdownKept DEF ProcessInv, ShutdownOrder
<1>5. ASSUME NEW r \in Requests, manualOne(r) PROVE ProcessInv'
  <2>1. /\ To(r, "turn") /\ request[r].at = "work"
        /\ turns' = Append(turns, r)
        /\ UNCHANGED <<server, storeQueue, stage, stopped, shutdown, hosted>>
    BY <1>5 DEF manualOne, running, ending
  <2>2. /\ request' \in [Requests -> Handlers] /\ request'[r].client = request[r].client
        /\ request'[r].at = "turn"
        /\ \A s \in Requests : s # r => request'[s] = request[s]
    BY <1>0, <2>1, ToMoves
  <2>3. \A k \in DOMAIN turns : turns[k] # r
    BY <1>0, <2>1 DEF QueueOrder
  <2>4. /\ turns' \in Seq(Owners) /\ Once(Append(turns, r)) /\ turns' # <<>>
        /\ \A k \in DOMAIN turns' :
                turns'[k] = r \/ \E j \in DOMAIN turns : turns'[k] = turns[j]
    BY <1>0, <2>1, <2>3, AppendOnce DEF WorkTypeOK, QueueOrder, Owners
  <2>5. Once(storeQueue)' /\ Once(turns)'
    BY <1>0, <2>1, <2>4 DEF Once, QueueOrder
  <2>6. WorkTypeOK' /\ QueueOrder'
    BY <1>0, <2>1, <2>2, <2>3, <2>4, <2>5 DEF WorkTypeOK, QueueOrder
  <2>7. \A s \in Requests : Connected(s)' => Connected(s)
    BY <2>1, <2>2 DEF Connected, Busy
  <2> QED BY <1>0, <2>1, <2>6, <2>7, ShutdownKept DEF ProcessInv, ShutdownOrder
<1>6. CASE tick
  <2>1. /\ \A k \in DOMAIN turns : turns[k] # job
        /\ turns' = Append(turns, job)
        /\ UNCHANGED <<server, request, storeQueue, stage, stopped, shutdown, hosted>>
    BY <1>6 DEF tick, running, ending
  <2>2. /\ turns' \in Seq(Owners) /\ Once(Append(turns, job)) /\ turns' # <<>>
        /\ \A k \in DOMAIN turns' :
                turns'[k] = job \/ \E j \in DOMAIN turns : turns'[k] = turns[j]
    BY <1>0, <2>1, AppendOnce DEF WorkTypeOK, QueueOrder, Owners
  <2>3. Once(storeQueue)' /\ Once(turns)'
    BY <1>0, <2>1, <2>2 DEF Once, QueueOrder
  <2>4. WorkTypeOK' /\ QueueOrder'
    BY <1>0, <2>1, <2>2, <2>3 DEF WorkTypeOK, QueueOrder, job
  <2>5. \A s \in Requests : Connected(s)' => Connected(s)
    BY <2>1 DEF Connected, Busy
  <2> QED BY <1>0, <2>1, <2>4, <2>5, ShutdownKept DEF ProcessInv, ShutdownOrder
<1>7. CASE perform
  <2>1. /\ turns # <<>> /\ stage = "idle"
        /\ UNCHANGED <<server, stopped, shutdown, hosted>>
    BY <1>7 DEF perform, running, ending
  <2>2. CASE stopped
    <3>1. TurnEnds /\ UNCHANGED storeQueue
      BY <1>7, <2>2 DEF perform
    <3>2. /\ WorkTypeOK' /\ QueueOrder' /\ stage' = "idle"
          /\ \A r \in Requests : Connected(r)' => Connected(r)
      BY <2>1, <3>1, TurnEndsInOrder
    <3> QED BY <1>0, <2>1, <3>2, ShutdownKept DEF ProcessInv
  <2>3. CASE ~stopped
    <3>1. /\ stage' = "claim" /\ storeQueue' = Append(storeQueue, job)
          /\ UNCHANGED <<turns, request>>
      BY <1>7, <2>3 DEF perform
    <3>2. \A k \in DOMAIN storeQueue : storeQueue[k] # job
      BY <1>0, <2>1 DEF QueueOrder, job
    <3>3. /\ storeQueue' \in Seq(Owners) /\ Once(Append(storeQueue, job))
          /\ \A k \in DOMAIN storeQueue' :
                storeQueue'[k] = job \/ \E j \in DOMAIN storeQueue : storeQueue'[k] = storeQueue[j]
      BY <1>0, <3>1, <3>2, AppendOnce DEF WorkTypeOK, QueueOrder, Owners
    <3>4. Once(storeQueue)' /\ Once(turns)'
      BY <1>0, <3>1, <3>3 DEF Once, QueueOrder
    <3>5. WorkTypeOK' /\ QueueOrder'
      BY <1>0, <2>1, <3>1, <3>2, <3>3, <3>4 DEF WorkTypeOK, QueueOrder
    <3>6. \A r \in Requests : Connected(r)' => Connected(r)
      BY <3>1 DEF Connected, Busy
    <3>7. shutdown = "none"
      BY <1>0, <2>3 DEF ShutdownOrder
    <3> QED BY <1>0, <2>1, <3>5, <3>6, <3>7, ShutdownKept DEF ProcessInv
  <2> QED BY <2>2, <2>3
<1>8. CASE Generated
  <2>1. /\ stage = "apple" /\ stage' = "settle" /\ storeQueue' = Append(storeQueue, job)
        /\ UNCHANGED <<server, request, turns, stopped, shutdown, hosted>>
    BY <1>8 DEF Generated, running, ending
  <2>2. \A k \in DOMAIN storeQueue : storeQueue[k] # job
    BY <1>0, <2>1 DEF QueueOrder, job
  <2>3. /\ storeQueue' \in Seq(Owners) /\ Once(Append(storeQueue, job))
        /\ \A k \in DOMAIN storeQueue' :
              storeQueue'[k] = job \/ \E j \in DOMAIN storeQueue : storeQueue'[k] = storeQueue[j]
    BY <1>0, <2>1, <2>2, AppendOnce DEF WorkTypeOK, QueueOrder, Owners
  <2>4. Once(storeQueue)' /\ Once(turns)'
    BY <1>0, <2>1, <2>3 DEF Once, QueueOrder
  <2>5. WorkTypeOK' /\ QueueOrder'
    BY <1>0, <2>1, <2>2, <2>3, <2>4 DEF WorkTypeOK, QueueOrder
  <2>6. \A r \in Requests : Connected(r)' => Connected(r)
    BY <2>1 DEF Connected, Busy
  <2>7. shutdown \notin {"store", "log", "complete"}
    BY <1>0, <2>1 DEF ShutdownOrder
  <2> QED BY <1>0, <2>1, <2>5, <2>6, <2>7, ShutdownKept DEF ProcessInv
<1>9. CASE mutate
  <2>1. /\ storeQueue # <<>> /\ storeQueue' = Tail(storeQueue)
        /\ UNCHANGED <<server, stopped, shutdown, hosted>>
    BY <1>9 DEF mutate, running
  <2>2. /\ storeQueue \in Seq(Owners) /\ storeQueue' \in Seq(Owners) /\ Once(Tail(storeQueue))
        /\ Head(storeQueue) = storeQueue[1] /\ 1 \in DOMAIN storeQueue
        /\ \A k \in DOMAIN storeQueue' : \E j \in DOMAIN storeQueue :
              storeQueue'[k] = storeQueue[j] /\ storeQueue[j] # Head(storeQueue)
    BY <1>0, <2>1, TailOnce DEF WorkTypeOK, QueueOrder
  <2>3. Once(storeQueue)'
    BY <2>1, <2>2 DEF Once
  <2>4. CASE Head(storeQueue) \in Requests
    <3> PICK r \in Requests : r = Head(storeQueue)
      BY <2>4
    <3>1. To(r, "sending") /\ UNCHANGED <<turns, stage>> /\ request[r].at = "mutation"
      BY <1>0, <1>9, <2>2 DEF mutate, QueueOrder, job
    <3>2. /\ request' \in [Requests -> Handlers] /\ request'[r].client = request[r].client
          /\ \A s \in Requests : s # r => request'[s] = request[s]
      BY <1>0, <3>1, ToMoves
    <3>3. \A k \in DOMAIN storeQueue' :
            \/ storeQueue'[k] \in Requests /\ request'[storeQueue'[k]].at = "mutation"
            \/ storeQueue'[k] = job /\ stage \in {"claim", "settle"}
      BY <1>0, <2>2, <3>2 DEF QueueOrder
    <3>4. Once(turns)' /\ \A k \in DOMAIN turns : turns[k] # r
      BY <1>0, <3>1 DEF QueueOrder, Once
    <3>5. WorkTypeOK' /\ QueueOrder'
      BY <1>0, <2>2, <2>3, <3>1, <3>2, <3>3, <3>4 DEF WorkTypeOK, QueueOrder
    <3>6. \A s \in Requests : Connected(s)' => Connected(s)
      BY <3>1, <3>2 DEF Connected, Busy
    <3> QED BY <1>0, <2>1, <3>1, <3>5, <3>6, ShutdownKept DEF ProcessInv, ShutdownOrder
  <2>5. CASE Head(storeQueue) = job
    <3>1. stage \in {"claim", "settle"} /\ turns # <<>>
      BY <1>0, <2>2, <2>5 DEF QueueOrder, job
    <3>2. CASE stage' = "apple" /\ UNCHANGED <<request, turns>>
      <4>1. \A k \in DOMAIN storeQueue' :
              storeQueue'[k] \in Requests /\ request'[storeQueue'[k]].at = "mutation"
        BY <1>0, <2>2, <2>5, <3>2 DEF QueueOrder
      <4>2. WorkTypeOK' /\ QueueOrder'
        BY <1>0, <2>2, <2>3, <3>1, <3>2, <4>1 DEF WorkTypeOK, QueueOrder, Once
      <4>3. \A r \in Requests : Connected(r)' => Connected(r)
        BY <3>2 DEF Connected, Busy
      <4>4. shutdown \notin {"store", "log", "complete"}
        BY <1>0, <3>1 DEF ShutdownOrder
      <4> QED BY <1>0, <2>1, <4>2, <4>3, <4>4, ShutdownKept DEF ProcessInv
    <3>3. CASE TurnEnds
      <4>1. /\ WorkTypeOK' /\ QueueOrder' /\ stage' = "idle"
            /\ \A r \in Requests : Connected(r)' => Connected(r)
        BY <2>1, <2>5, <3>1, <3>3, TurnEndsInOrder
      <4> QED BY <1>0, <2>1, <4>1, ShutdownKept DEF ProcessInv
    <3> QED BY <1>9, <2>5, <3>2, <3>3 DEF mutate, job
  <2> QED BY <2>2, <2>4, <2>5 DEF Owners
<1>10. CASE Drain \/ Diagnose \/ Deadline \/ ProcessEnds
  <2>1. UNCHANGED <<work, server, stopped, shutdown, hosted>>
    BY <1>10 DEF Drain, Diagnose, Deadline, ProcessEnds, running, ending
  <2> QED BY <1>0, <2>1, WorkKept, ShutdownKept DEF ProcessInv, ShutdownOrder, work
<1>11. CASE Signal
  <2>1. /\ UNCHANGED work /\ server' = "closing" /\ stopped' = TRUE
        /\ shutdown' = IF hosted THEN "background" ELSE "server"
        /\ UNCHANGED hosted
    BY <1>11 DEF Signal, running
  <2> QED BY <2>1, WorkKept DEF ProcessInv, ShutdownOrder
<1>12. CASE ServerClosed
  <2>1. /\ UNCHANGED <<work, stopped, shutdown, hosted>> /\ server' = "closed"
        /\ \A r \in Requests : ~Connected(r)
    BY <1>12 DEF ServerClosed, running, ending
  <2> QED BY <1>0, <2>1, WorkKept DEF ProcessInv, ShutdownOrder, work
<1>13. CASE cleanup
  <2>1. UNCHANGED <<hosted, server, storeQueue, turns, stage, stopped>>
    BY <1>13 DEF cleanup, running
  <2>2. CASE AfterStore /\ hosted
    <3>1. /\ shutdown = "store" /\ shutdown' = "complete"
          /\ request' = [r \in Requests |-> [at |->
                            IF request[r].at = "sending" THEN "done" ELSE request[r].at,
                            client |-> FALSE]]
      BY <2>2 DEF AfterStore
    <3>2. WorkTypeOK'
      BY <1>0, <2>1, <3>1 DEF WorkTypeOK, Handlers
    <3>3. QueueOrder'
      BY <1>0, <2>1, <3>1 DEF QueueOrder, Once
    <3>4. \A r \in Requests : ~Connected(r)'
      BY <3>1 DEF Connected
    <3> QED BY <1>0, <2>1, <2>2, <3>1, <3>2, <3>3, <3>4 DEF ProcessInv, ShutdownOrder
  <2>3. CASE AfterServer \/ AfterBackground \/ (AfterStore /\ ~hosted) \/ AfterLog
    <3>1. UNCHANGED request
      BY <2>3 DEF AfterServer, AfterBackground, AfterStore, AfterLog
    <3>2. WorkTypeOK' /\ QueueOrder' /\ \A r \in Requests : Connected(r)' = Connected(r)
      BY <2>1, <3>1, WorkKept DEF work
    <3>3. turns = <<>> => stage = "idle"
      BY <1>0 DEF QueueOrder
    <3>4. ShutdownOrder'
      BY <1>0, <2>1, <2>3, <3>2, <3>3
      DEF ShutdownOrder, AfterServer, AfterBackground, AfterStore, AfterLog
    <3> QED BY <3>2, <3>4 DEF ProcessInv
  <2> QED BY <1>13, <2>2, <2>3 DEF cleanup
<1>14. CASE UNCHANGED vars
  <2>1. UNCHANGED <<work, server, stopped, shutdown, hosted>>
    BY <1>14 DEF vars, ending
  <2> QED BY <1>0, <2>1, WorkKept, ShutdownKept DEF ProcessInv, ShutdownOrder, work
<1> QED BY <1>1, <1>2, <1>3, <1>4, <1>5, <1>6, <1>7, <1>8, <1>9, <1>10, <1>11, <1>12, <1>13,
           <1>14 DEF Next, Client, Handle, Background

(* When the local shutdown completes, every client that stayed has its      *)
(* answer, no generation is under way and no mutation of one waits          *)
(* (createGracefulShutdown, waitForIdle).                                   *)
THEOREM ACompleteShutdownIsDone == Spec => []CompleteMeansDone
<1>1. ProcessInv => CompleteMeansDone
  BY ProcessAssumption
  DEF ProcessInv, QueueOrder, ShutdownOrder, CompleteMeansDone, ToSet, job
<1> QED BY ProcessInvInit, ProcessInvNext, <1>1, PTL DEF Spec

-----------------------------------------------------------------------------
(* The lines of the log.                                                    *)

Fields == {"logged", "queue", "drain", "disk", "written", "dropped", "faults"}

(* Every line that was logged is written, dropped, or still queued.         *)
Accounted(l) ==
    /\ DOMAIN l = Fields
    /\ l.logged \in Nat /\ l.queue \in Seq(Nat)
    /\ \A n \in 1..l.logged :
        n \in l.written \/ n \in l.dropped \/ \E k \in DOMAIN l.queue : l.queue[k] = n

(* l and m have the same lines in the same places.                          *)
SameLines(l, m) ==
    /\ DOMAIN m = DOMAIN l
    /\ m.logged = l.logged /\ m.queue = l.queue
    /\ m.written = l.written /\ m.dropped = l.dropped

LEMMA TakenKeepsTheLines ==
    ASSUME NEW l, DOMAIN l = Fields PROVE SameLines(l, Taken(l))
BY DEF Taken, SameLines, Fields

LEMMA SameLinesAccounted ==
    ASSUME NEW l, NEW m, Accounted(l), SameLines(l, m) PROVE Accounted(m)
BY DEF Accounted, SameLines

LEMMA TailHasTheRest ==
    ASSUME NEW queue \in Seq(Nat), queue # <<>>
    PROVE  /\ Tail(queue) \in Seq(Nat)
           /\ \A k \in DOMAIN queue :
                queue[k] = Head(queue) \/ \E j \in DOMAIN Tail(queue) : Tail(queue)[j] = queue[k]
<1>1. Tail(queue) \in Seq(Nat) /\ Len(Tail(queue)) = Len(queue) - 1
  OBVIOUS
<1>2. ASSUME NEW k \in DOMAIN queue, k # 1
      PROVE  \E j \in DOMAIN Tail(queue) : Tail(queue)[j] = queue[k]
  <2>1. k - 1 \in DOMAIN Tail(queue)
    BY <1>1, <1>2
  <2>2. Tail(queue)[k - 1] = queue[k]
    BY <1>2, <2>1
  <2> QED BY <2>1, <2>2
<1> QED BY <1>1, <1>2

(* The head of the queue may leave it once it is written or dropped.        *)
LEMMA ShiftedAccounted ==
    ASSUME NEW l, Accounted(l), l.drain.line \in l.written \cup l.dropped
    PROVE  Accounted(Shifted(l)) /\ DOMAIN Shifted(l) = Fields
<1>1. CASE l.queue # <<>> /\ Head(l.queue) = l.drain.line
  <2>1. Shifted(l) = [l EXCEPT !.queue = Tail(@)]
    BY <1>1 DEF Shifted
  <2>2. /\ DOMAIN Shifted(l) = Fields /\ Shifted(l).queue = Tail(l.queue)
        /\ Shifted(l).logged = l.logged
        /\ Shifted(l).written = l.written /\ Shifted(l).dropped = l.dropped
    BY <2>1 DEF Accounted, Fields
  <2>3. /\ Tail(l.queue) \in Seq(Nat)
        /\ \A k \in DOMAIN l.queue : l.queue[k] = Head(l.queue)
                \/ \E j \in DOMAIN Tail(l.queue) : Tail(l.queue)[j] = l.queue[k]
    BY <1>1, TailHasTheRest DEF Accounted
  <2>4. \A n \in 1..l.logged :
            n \in l.written \/ n \in l.dropped
            \/ \E j \in DOMAIN Tail(l.queue) : Tail(l.queue)[j] = n
    BY <1>1, <2>3 DEF Accounted
  <2> QED BY <2>2, <2>3, <2>4 DEF Accounted
<1>2. CASE ~(l.queue # <<>> /\ Head(l.queue) = l.drain.line)
  BY <1>2 DEF Shifted, Accounted
<1> QED BY <1>1, <1>2

(* A file operation that ends accounts for the line it was about.           *)
LEMMA DrainedAccounted ==
    ASSUME NEW l, Accounted(l), NEW ok \in BOOLEAN
    PROVE  Accounted(Drained(l, ok))
<1> DEFINE m == [l EXCEPT !.faults = IF ok THEN @ ELSE @ + 1]
<1>1. Accounted(m)
  BY SameLinesAccounted DEF Accounted, SameLines, Fields
<1> HIDE DEF m
<1>2. Accounted(readSize(m, ok))
  <2>1. SameLines(m, readSize(m, ok))
    BY <1>1 DEF Accounted, SameLines, Fields, readSize
  <2> QED BY <1>1, <2>1, SameLinesAccounted
<1>3. Accounted(rotate(m, ok))
  <2>1. SameLines(m, rotate(m, ok))
    BY <1>1 DEF Accounted, SameLines, Fields, rotate
  <2> QED BY <1>1, <2>1, SameLinesAccounted
<1>4. Accounted(append(m, ok))
  <2> DEFINE n == m.drain.line
             x == IF ok THEN [m EXCEPT !.disk.size = Grown(@),
                                       !.disk.files[0] = Append(@, n), !.written = @ \cup {n}]
                  ELSE [m EXCEPT !.disk.size = Unknown, !.dropped = @ \cup {n}]
  <2>1. append(m, ok) = Taken(Shifted(x))
    BY DEF append
  <2>2. /\ DOMAIN x = Fields /\ x.logged = m.logged /\ x.queue = m.queue /\ x.drain = m.drain
        /\ m.written \subseteq x.written /\ m.dropped \subseteq x.dropped
        /\ n \in x.written \cup x.dropped
    BY <1>1 DEF Accounted, Fields
  <2> HIDE DEF x
  <2>3. Accounted(x) /\ x.drain.line \in x.written \cup x.dropped
    BY <1>1, <2>2 DEF Accounted
  <2> QED BY <2>1, <2>3, ShiftedAccounted, TakenKeepsTheLines, SameLinesAccounted
<1> QED BY <1>2, <1>3, <1>4 DEF Drained, m

(* A line that is logged is queued, with the oldest one dropped if full.    *)
LEMMA LoggedAccounted ==
    ASSUME NEW l, Accounted(l) PROVE Accounted(lifecycleLog(l))
<1> DEFINE n == l.logged + 1
           queue == Append(l.queue, n)
           full == Len(queue) > MaxQueued
           queued == [l EXCEPT !.logged = n,
                               !.queue = IF full THEN Tail(queue) ELSE queue,
                               !.dropped = IF full THEN @ \cup {Head(queue)} ELSE @]
<1>1. /\ n \in Nat /\ queue \in Seq(Nat) /\ queue # <<>>
      /\ \A k \in DOMAIN l.queue : k \in DOMAIN queue /\ queue[k] = l.queue[k]
      /\ \E k \in DOMAIN queue : queue[k] = n
  <2>1. Len(l.queue) + 1 \in DOMAIN queue /\ queue[Len(l.queue) + 1] = n
    BY DEF Accounted
  <2> QED BY <2>1 DEF Accounted
<1>2. /\ DOMAIN queued = Fields /\ queued.logged = n /\ queued.written = l.written
      /\ queued.queue = (IF full THEN Tail(queue) ELSE queue)
      /\ queued.dropped = (IF full THEN l.dropped \cup {Head(queue)} ELSE l.dropped)
  BY DEF Accounted, Fields
<1>3. lifecycleLog(l) = IF l.drain = Idle THEN Taken(queued) ELSE queued
  BY DEF lifecycleLog
<1> HIDE DEF queue, full, queued
<1>4. \A i \in 1..n : i \in l.written \/ i \in l.dropped \/ \E k \in DOMAIN queue : queue[k] = i
  <2> SUFFICES ASSUME NEW i \in 1..n
               PROVE  i \in l.written \/ i \in l.dropped \/ \E k \in DOMAIN queue : queue[k] = i
    OBVIOUS
  <2>1. i \in 1..l.logged \/ i = n
    BY DEF Accounted
  <2> QED BY <1>1, <2>1 DEF Accounted
<1>5. Accounted(queued)
  <2>1. CASE full
    <3>1. /\ Tail(queue) \in Seq(Nat)
          /\ \A k \in DOMAIN queue : queue[k] = Head(queue)
                \/ \E j \in DOMAIN Tail(queue) : Tail(queue)[j] = queue[k]
      BY <1>1, TailHasTheRest
    <3>2. \A i \in 1..n : i \in l.written \/ i \in l.dropped \cup {Head(queue)}
                            \/ \E j \in DOMAIN Tail(queue) : Tail(queue)[j] = i
      BY <1>4, <3>1
    <3> QED BY <1>1, <1>2, <2>1, <3>1, <3>2 DEF Accounted
  <2>2. CASE ~full
    BY <1>1, <1>2, <1>4, <2>2 DEF Accounted
  <2> QED BY <2>1, <2>2
<1> QED BY <1>2, <1>3, <1>5, TakenKeepsTheLines, SameLinesAccounted

LEMMA FlushedAccounts ==
    ASSUME NEW l, Accounted(l), NEW ok \in BOOLEAN
    PROVE  /\ DOMAIN Flushed(l, ok) = Fields /\ Flushed(l, ok).logged = l.logged
           /\ 1..l.logged \subseteq Flushed(l, ok).written \cup Flushed(l, ok).dropped
<1>1. \A n \in 1..l.logged : n \in l.written \cup l.dropped \cup ToSet(l.queue)
  BY DEF Accounted, ToSet
<1>2. CASE ok
  <2>1. /\ DOMAIN Flushed(l, ok) = Fields /\ Flushed(l, ok).logged = l.logged
        /\ Flushed(l, ok).written = l.written \cup ToSet(l.queue)
        /\ Flushed(l, ok).dropped = l.dropped
    BY <1>2 DEF Flushed, Accounted, Fields
  <2> QED BY <1>1, <2>1
<1>3. CASE ~ok
  <2>1. /\ DOMAIN Flushed(l, ok) = Fields /\ Flushed(l, ok).logged = l.logged
        /\ Flushed(l, ok).written = l.written
        /\ Flushed(l, ok).dropped = l.dropped \cup ToSet(l.queue)
    BY <1>3 DEF Flushed, Accounted, Fields
  <2> QED BY <1>1, <2>1
<1> QED BY <1>2, <1>3

LEMMA InFlightKeepsTheLines ==
    ASSUME NEW l, DOMAIN l = Fields PROVE SameLines(l, InFlight(l))
BY DEF InFlight, SameLines, Fields

(* The exit hooks account for every line, those they log included.          *)
LEMMA ExitsAccount ==
    ASSUME NEW l, Accounted(l), NEW lines \in Nat, NEW ok \in BOOLEAN,
           NEW x \in Exits(l, lines, ok)
    PROVE  1..x.logged \subseteq x.written \cup x.dropped
<1> DEFINE last == [k \in 1..lines |-> l.logged + k]
           more == [l EXCEPT !.logged = @ + lines, !.queue = @ \o last]
<1>1. x \in {Flushed(InFlight(more), ok), InFlight(Flushed(more, ok)),
            [Flushed(more, ok) EXCEPT !.drain = Idle]}
  BY DEF Exits
<1>2. /\ DOMAIN more = Fields /\ more.logged = l.logged + lines /\ more.queue = l.queue \o last
      /\ more.written = l.written /\ more.dropped = l.dropped
  BY DEF Accounted, Fields
<1>3. last \in Seq(Nat) /\ Len(last) = lines
  BY DEF Accounted
<1>4. /\ l.queue \o last \in Seq(Nat)
      /\ \A k \in DOMAIN l.queue :
            k \in DOMAIN (l.queue \o last) /\ (l.queue \o last)[k] = l.queue[k]
      /\ \A k \in 1..lines : Len(l.queue) + k \in DOMAIN (l.queue \o last)
                            /\ (l.queue \o last)[Len(l.queue) + k] = l.logged + k
  BY <1>3 DEF Accounted
<1>5. Accounted(more)
  <2>1. more.logged \in Nat /\ more.queue \in Seq(Nat)
    BY <1>2, <1>4 DEF Accounted
  <2>2. ASSUME NEW n \in 1..more.logged
        PROVE  \/ n \in more.written \/ n \in more.dropped
               \/ \E k \in DOMAIN more.queue : more.queue[k] = n
    <3>1. CASE n \in 1..l.logged
      BY <1>2, <1>4, <3>1 DEF Accounted
    <3>2. CASE n \notin 1..l.logged
      <4>1. n - l.logged \in 1..lines
        <5>1. n \in 1..(l.logged + lines) /\ l.logged \in Nat
          BY <1>2 DEF Accounted
        <5> QED BY <3>2, <5>1
      <4>2. (l.queue \o last)[Len(l.queue) + (n - l.logged)] = l.logged + (n - l.logged)
            /\ Len(l.queue) + (n - l.logged) \in DOMAIN (l.queue \o last)
        BY <1>4, <4>1
      <4>3. l.logged + (n - l.logged) = n
        BY DEF Accounted
      <4> HIDE DEF last
      <4> QED BY <1>2, <4>2, <4>3
    <3> QED BY <3>1, <3>2
  <2> QED BY <1>2, <2>1, <2>2 DEF Accounted
<1> HIDE DEF more
<1>6. CASE x = Flushed(InFlight(more), ok)
  <2>1. Accounted(InFlight(more))
    BY <1>2, <1>5, InFlightKeepsTheLines, SameLinesAccounted
  <2> QED BY <1>6, <2>1, FlushedAccounts
<1>7. CASE x = InFlight(Flushed(more, ok))
  BY <1>5, <1>7, FlushedAccounts, InFlightKeepsTheLines DEF SameLines
<1>8. CASE x = [Flushed(more, ok) EXCEPT !.drain = Idle]
  <2> DEFINE y == Flushed(more, ok)
  <2>1. DOMAIN y = Fields /\ 1..y.logged \subseteq y.written \cup y.dropped
    BY <1>5, FlushedAccounts
  <2> HIDE DEF y
  <2>2. x.logged = y.logged /\ x.written = y.written /\ x.dropped = y.dropped
    BY <1>8, <2>1 DEF Fields, y
  <2> QED BY <2>1, <2>2
<1> QED BY <1>1, <1>6, <1>7, <1>8

LogInv ==
    /\ exit = "running" => Accounted(log)
    /\ hosted => log = NewLog
    /\ LoggedLinesReachTheDisk

LEMMA NewLogAccounted == Accounted(NewLog) /\ NewLog.logged = 0 /\ NewLog.drain = Idle
BY DEF Accounted, NewLog, Fields

LEMMA LogInvNext ==
    ASSUME LogInv, [Next]_vars
    PROVE  LogInv'
<1>0. exit = "running" => Accounted(log)
  BY DEF LogInv
<1>1. CASE running /\ (log' = log \/ Says)
  <2>1. Accounted(log)'
    BY <1>0, <1>1, LoggedAccounted DEF running, Says, Accounted
  <2>2. hosted' => log' = NewLog
    BY <1>1 DEF running, Says, LogInv
  <2> QED BY <1>1, <2>1, <2>2 DEF LogInv, running, LoggedLinesReachTheDisk
<1>2. CASE Drain
  <2> PICK ok \in BOOLEAN : log' = Drained(log, ok)
    BY <1>2 DEF Drain
  <2>1. exit = "running" /\ exit' = "running" /\ hosted' = hosted /\ log.drain # Idle
    BY <1>2 DEF Drain, running
  <2>2. ~hosted
    BY <2>1, NewLogAccounted DEF LogInv
  <2>3. Accounted(Drained(log, ok))
    BY <1>0, <2>1, DrainedAccounted
  <2>4. Accounted(log)'
    BY <2>3 DEF Accounted
  <2> QED BY <2>1, <2>2, <2>4 DEF LogInv, LoggedLinesReachTheDisk
<1>3. CASE Deadline \/ ProcessEnds
  <2>1. exit = "running" /\ exit' # "running" /\ hosted' = hosted
    BY <1>3 DEF Deadline, ProcessEnds
  <2>2. CASE hosted
    <3>1. log' = NewLog
      BY <1>3, <2>2 DEF Deadline, ProcessEnds, LogInv
    <3>2. log'.logged = 0
      BY <3>1, NewLogAccounted
    <3> QED BY <2>1, <3>1, <3>2 DEF LogInv, LoggedLinesReachTheDisk
  <2>3. CASE ~hosted
    <3>2. CASE Deadline
      <4> PICK ok \in BOOLEAN : log' \in Exits(lifecycleLog(log), 1, ok)
        BY <2>3, <3>2 DEF Deadline
      <4>1. Accounted(lifecycleLog(log))
        BY <1>0, <2>1, LoggedAccounted
      <4>2. 1..log'.logged \subseteq log'.written \cup log'.dropped
        BY <4>1, ExitsAccount
      <4> QED BY <2>1, <2>3, <4>2 DEF LogInv, LoggedLinesReachTheDisk
    <3>3. CASE ProcessEnds
      <4> PICK ok \in BOOLEAN : log' \in Exits(log, 2, ok)
        BY <2>3, <3>3 DEF ProcessEnds
      <4>2. 1..log'.logged \subseteq log'.written \cup log'.dropped
        BY <1>0, <2>1, ExitsAccount
      <4> QED BY <2>1, <2>3, <4>2 DEF LogInv, LoggedLinesReachTheDisk
    <3> QED BY <1>3, <3>2, <3>3
  <2> QED BY <2>2, <2>3
<1>4. CASE UNCHANGED vars
  BY <1>4 DEF vars, LogInv, LoggedLinesReachTheDisk, Accounted
<1>5. ASSUME NEW r \in Requests, Client(r) \/ Handle(r)
      PROVE  running /\ (log' = log \/ Says)
  BY <1>5 DEF Client, Handle, Arrive, Disconnect, Sent, Answer, Mutate, manualOne, MaySay
<1>6. tick \/ Background \/ Diagnose \/ Signal \/ ServerClosed \/ cleanup =>
        running /\ (log' = log \/ Says)
  BY DEF tick, Background, perform, Generated, mutate, MaySay, Diagnose, Signal, ServerClosed,
         cleanup
<1> QED BY <1>1, <1>2, <1>3, <1>4, <1>5, <1>6 DEF Next

(* Once the process has ended, however it did, every line ever logged was   *)
(* written, overflowed the queue, or was refused by the disk (schedule,     *)
(* lifecycleLog, flushSync).                                                *)
THEOREM EveryLineIsAccountedFor == Spec => []LoggedLinesReachTheDisk
<1>1. Init => LogInv
  BY NewLogAccounted DEF Init, LogInv, LoggedLinesReachTheDisk, Accounted
<1>2. LogInv => LoggedLinesReachTheDisk
  BY DEF LogInv
<1> QED BY <1>1, <1>2, LogInvNext, PTL DEF Spec

-----------------------------------------------------------------------------
(* The files of the log.                                                    *)

On(file, n) == \E i \in DOMAIN file : file[i] = n

(* The newest of the lines W, as many as fill a file.                       *)
Latest(W) == {n \in W : Cardinality({k \in W : k > n}) < MaxBytes}

(* The files f hold lines of W, in order; the current one a last part of W, *)
(* and it and the first backup the newest.                                  *)
Shelf(f, W) ==
    /\ f \in [Slots -> Seq(Nat)]
    /\ IsFiniteSet(W) /\ W \in SUBSET Nat
    /\ \A s, t \in Slots : \A i \in DOMAIN f[s], j \in DOMAIN f[t] :
        s > t \/ (s = t /\ i < j) => f[s][i] < f[t][j]
    /\ \A s \in Slots : \A i \in DOMAIN f[s] : f[s][i] \in W
    /\ \A i \in DOMAIN f[0], m \in W : m > f[0][i] => On(f[0], m)
    /\ \A n \in Latest(W) : On(f[0], n) \/ On(f[1], n)

(* A size that is known is that of the current file.                        *)
DiskOK(d, W) ==
    /\ DOMAIN d = {"size", "files"}
    /\ d.size \in Nat \cup {Unknown}
    /\ d.size # Unknown => d.size = Len(d.files[0])
    /\ Shelf(d.files, W)

Rising(q) == \A j, k \in DOMAIN q : j < k => q[j] < q[k]

LinesOK(l) ==
    /\ DOMAIN l = Fields
    /\ l.logged \in Nat /\ l.queue \in Seq(Nat) /\ Rising(l.queue)
    /\ \A n \in l.written : n <= l.logged
    /\ \A k \in DOMAIN l.queue : l.queue[k] <= l.logged
    /\ DiskOK(l.disk, l.written)

(* What is queued is newer than all that was written.                       *)
QueueOK(l) ==
    /\ LinesOK(l)
    /\ \A n \in l.written, k \in DOMAIN l.queue : n < l.queue[k]

(* The line being written comes between the two, and a rotation that is not *)
(* over has still the full current file.                                    *)
DrainOK(l) ==
    /\ DOMAIN l.drain = {"at", "line", "slot"}
    /\ l.drain.at # "idle" =>
        /\ l.drain.line \in 0..l.logged
        /\ \A n \in l.written : n < l.drain.line
        /\ \A k \in DOMAIN l.queue : l.drain.line <= l.queue[k]
        /\ l.drain.slot \in Slots
    /\ l.drain.at = "rotate" => MaxBytes <= Len(l.disk.files[0])

(* A set of numbers has a least one.                                        *)
LEMMA LeastNumber ==
    ASSUME NEW S \in SUBSET Nat, S # {}
    PROVE  \E m \in S : \A x \in S : m <= x
<1>1. PICK m \in S : \A x \in S : ~ <<x, m>> \in OpToRel(<, Nat)
  BY WFMin, NatLessThanWellFounded, Zenon
<1>2. \A x \in S : <<x, m>> \in OpToRel(<, Nat) <=> x < m
  BY DEF OpToRel
<1>3. \A x \in S : ~ x < m
  BY <1>1, <1>2, Zenon
<1>4. m \in Nat /\ \A x \in S : x \in Nat
  OBVIOUS
<1> QED BY <1>3, <1>4

(* What Max is of a set of numbers up to a bound.                           *)
LEMMA MaxOfNumbers ==
    ASSUME NEW b \in Nat, NEW S \in SUBSET (1..b), S # {}
    PROVE  Max(S) \in S /\ \A x \in S : Max(S) >= x
<1> DEFINE T == {b - u : u \in S}
<1>1. T \in SUBSET Nat /\ T # {}
  <2>1. \A u \in S : u \in Nat /\ u <= b /\ b - u \in Nat
    OBVIOUS
  <2> QED BY <2>1
<1>2. PICK t \in T : \A x \in T : t <= x
  BY <1>1, LeastNumber
<1>3. PICK m \in S : t = b - m
  BY <1>2
<1>4. \A x \in S : t <= b - x
  BY <1>2
<1>5. \E y \in S : \A x \in S : y >= x
  BY <1>3, <1>4
<1> QED BY <1>5 DEF Max

(* A full current file has all the newest lines.                            *)
LEMMA FullHasTheLatest ==
    ASSUME NEW f, NEW W, Shelf(f, W), MaxBytes <= Len(f[0]), NEW n \in Latest(W)
    PROVE  On(f[0], n)
<1> SUFFICES ASSUME ~ On(f[0], n) PROVE FALSE
  OBVIOUS
<1>1. PICK file : file = f[0]
  OBVIOUS
<1>2. /\ file \in Seq(Nat) /\ 0 \in Slots /\ MaxBytes \in Nat
      /\ IsFiniteSet(W) /\ W \in SUBSET Nat /\ n \in W
  BY <1>1, LogAssumption DEF Shelf, Slots, Latest
<1>3. \A i \in DOMAIN file : file[i] \in W
  BY <1>1, <1>2 DEF Shelf
<1>4. \A i, j \in DOMAIN file : i < j => file[i] < file[j]
  BY <1>1, <1>2 DEF Shelf
<1>5. \A i \in DOMAIN file : file[i] > n
  <2> SUFFICES ASSUME NEW i \in DOMAIN file, ~ file[i] > n PROVE FALSE
    OBVIOUS
  <2>1. file[i] # n
    BY <1>1 DEF On
  <2>2. file[i] \in Nat /\ n \in Nat
    BY <1>2
  <2>3. n > file[i]
    BY <2>1, <2>2
  <2> QED BY <1>1, <1>2, <2>3 DEF Shelf
<1>6. PICK K : K = {k \in W : k > n}
  OBVIOUS
<1>7. IsFiniteSet(K) /\ Cardinality(K) < MaxBytes
  BY <1>2, <1>6, FS_Subset DEF Latest
<1>8. PICK L : L = Len(file)
  OBVIOUS
<1>9. L \in Nat /\ DOMAIN file = 1..L
  BY <1>2, <1>8
<1>10. file \in Injection(1..L, K)
  <2>1. file \in [1..L -> K]
    BY <1>2, <1>3, <1>5, <1>6, <1>9
  <2>2. \A i, j \in 1..L : file[i] = file[j] => i = j
    <3> SUFFICES ASSUME NEW i \in 1..L, NEW j \in 1..L, file[i] = file[j], i # j PROVE FALSE
      OBVIOUS
    <3>1. i < j \/ j < i
      BY <1>9
    <3>2. file[i] \in Nat /\ file[j] \in Nat
      BY <1>2, <1>9
    <3> QED BY <1>4, <1>9, <3>1, <3>2
  <2> QED BY <2>1, <2>2 DEF Injection, IsInjective
<1>11. Cardinality(1..L) <= Cardinality(K)
  BY <1>7, <1>10, FS_Injection
<1>12. Cardinality(1..L) = L /\ Cardinality(K) \in Nat
  BY <1>7, <1>9, FS_Interval, FS_CardinalityType
<1> QED BY <1>1, <1>2, <1>7, <1>8, <1>9, <1>11, <1>12

(* The newest lines, after a newer one was written.                         *)
LEMMA LatestGrows ==
    ASSUME NEW W, IsFiniteSet(W), W \in SUBSET Nat, NEW n \in Nat, \A m \in W : m < n,
           NEW x \in Latest(W \cup {n}), x # n
    PROVE  x \in Latest(W)
<1>1. x \in W /\ MaxBytes \in Nat
  BY LogAssumption DEF Latest
<1>2. PICK A, B : A = {k \in W : k > x} /\ B = {k \in W \cup {n} : k > x}
  OBVIOUS
<1>3. A \in SUBSET B /\ B \in SUBSET (W \cup {n})
  BY <1>2
<1>4. IsFiniteSet(W \cup {n})
  BY FS_AddElement
<1>5. IsFiniteSet(B) /\ IsFiniteSet(A) /\ Cardinality(A) <= Cardinality(B)
  BY <1>3, <1>4, FS_Subset
<1>6. Cardinality(A) \in Nat /\ Cardinality(B) \in Nat
  BY <1>5, FS_CardinalityType
<1>7. Cardinality(B) < MaxBytes
  BY <1>2 DEF Latest
<1> QED BY <1>1, <1>2, <1>5, <1>6, <1>7 DEF Latest

(* A newer line is appended to the current file.                            *)
LEMMA ShelfAppended ==
    ASSUME MaxBackups > 0, NEW f, NEW W, Shelf(f, W), NEW n \in Nat, \A m \in W : m < n
    PROVE  Shelf([f EXCEPT ![0] = Append(@, n)], W \cup {n})
<1>1. PICK g, X, L : g = [f EXCEPT ![0] = Append(@, n)] /\ X = W \cup {n} /\ L = Len(f[0])
  OBVIOUS
<1>2. /\ f \in [Slots -> Seq(Nat)] /\ 0 \in Slots /\ 1 \in Slots /\ \A s \in Slots : s \in Nat
      /\ IsFiniteSet(W) /\ W \in SUBSET Nat /\ L \in Nat /\ DOMAIN f[0] = 1..L
  BY <1>1, LogAssumption DEF Shelf, Slots
<1>3. /\ g \in [Slots -> Seq(Nat)]
      /\ \A s \in Slots : s # 0 => g[s] = f[s]
      /\ DOMAIN g[0] = 1..(L + 1)
      /\ g[0][L + 1] = n
      /\ \A i \in 1..L : g[0][i] = f[0][i]
  BY <1>1, <1>2
<1>4. IsFiniteSet(X) /\ X \in SUBSET Nat
  BY <1>1, <1>2, FS_AddElement
<1>5. /\ \A s \in Slots : \A i \in DOMAIN f[s] : f[s][i] \in W /\ f[s][i] \in Nat
      /\ \A s, t \in Slots : \A i \in DOMAIN f[s], j \in DOMAIN f[t] :
            s > t \/ (s = t /\ i < j) => f[s][i] < f[t][j]
      /\ \A i \in DOMAIN f[0], m \in W : m > f[0][i] => On(f[0], m)
      /\ \A x \in Latest(W) : On(f[0], x) \/ On(f[1], x)
  BY <1>2 DEF Shelf
<1>6. \A s \in Slots : \A i \in DOMAIN g[s] :
        \/ i \in DOMAIN f[s] /\ g[s][i] = f[s][i]
        \/ s = 0 /\ i = L + 1 /\ g[s][i] = n
  <2> SUFFICES ASSUME NEW s \in Slots, NEW i \in DOMAIN g[s]
               PROVE  \/ i \in DOMAIN f[s] /\ g[s][i] = f[s][i]
                      \/ s = 0 /\ i = L + 1 /\ g[s][i] = n
    OBVIOUS
  <2>1. CASE s # 0
    BY <1>3, <2>1
  <2>2. CASE s = 0
    <3>1. i \in 1..L \/ i = L + 1
      BY <1>2, <1>3, <2>2
    <3> QED BY <1>2, <1>3, <2>2, <3>1
  <2> QED BY <2>1, <2>2
<1>7. \A x : On(f[0], x) => On(g[0], x)
  <2>1. \A i \in DOMAIN f[0] : i \in DOMAIN g[0] /\ g[0][i] = f[0][i]
    BY <1>2, <1>3
  <2> QED BY <2>1 DEF On
<1>8. On(g[0], n)
  <2>1. L + 1 \in DOMAIN g[0]
    BY <1>2, <1>3
  <2> QED BY <1>3, <2>1 DEF On
<1>9. ASSUME NEW s \in Slots, NEW t \in Slots, NEW i \in DOMAIN g[s], NEW j \in DOMAIN g[t],
             s > t \/ (s = t /\ i < j)
      PROVE  g[s][i] < g[t][j]
  <2>1. CASE t = 0 /\ j = L + 1 /\ g[t][j] = n
    <3>1. i \in DOMAIN f[s] /\ g[s][i] = f[s][i]
      BY <1>2, <1>6, <1>9, <2>1
    <3> QED BY <1>5, <2>1, <3>1
  <2>2. CASE j \in DOMAIN f[t] /\ g[t][j] = f[t][j]
    <3>1. i \in DOMAIN f[s] /\ g[s][i] = f[s][i]
      <4> SUFFICES ASSUME s = 0, i = L + 1 PROVE FALSE
        BY <1>6
      <4>1. t = 0 /\ i < j
        BY <1>2, <1>9
      <4>2. j \in 1..L
        BY <1>2, <2>2, <4>1
      <4> QED BY <1>2, <4>1, <4>2
    <3> QED BY <1>5, <1>9, <2>2, <3>1
  <2> QED BY <1>6, <2>1, <2>2
<1>10. \A s \in Slots : \A i \in DOMAIN g[s] : g[s][i] \in X
  BY <1>1, <1>5, <1>6
<1>11. ASSUME NEW i \in DOMAIN g[0], NEW m \in X, m > g[0][i]
       PROVE  On(g[0], m)
  <2>1. CASE m = n
    BY <1>8, <2>1
  <2>2. CASE m # n
    <3>1. m \in W /\ m < n /\ m \in Nat
      BY <1>1, <1>2, <2>2
    <3>2. g[0][i] # n
      BY <1>2, <1>11, <3>1
    <3>3. i \in DOMAIN f[0] /\ g[0][i] = f[0][i]
      BY <1>2, <1>6, <3>2
    <3> QED BY <1>5, <1>7, <1>11, <3>1, <3>3
  <2> QED BY <2>1, <2>2
<1>12. ASSUME NEW x \in Latest(X) PROVE On(g[0], x) \/ On(g[1], x)
  <2>1. CASE x = n
    BY <1>8, <2>1
  <2>2. CASE x # n
    <3>1. x \in Latest(W)
      BY <1>1, <1>2, <2>2, LatestGrows
    <3> QED BY <1>2, <1>3, <1>5, <1>7, <3>1
  <2> QED BY <2>1, <2>2
<1>13. Shelf(g, X)
  BY <1>3, <1>4, <1>9, <1>10, <1>11, <1>12 DEF Shelf
<1> QED BY <1>1, <1>13

(* One step of rotate: with the current file full, neither the last file,   *)
(* nor one a failed step left to be overwritten, holds a newest line.       *)
LEMMA ShelfMoved ==
    ASSUME MaxBackups > 0, NEW f, NEW W, Shelf(f, W), MaxBytes <= Len(f[0]), NEW k \in Slots
    PROVE  /\ Shelf(Moved(f, k), W)
           /\ k > 0 => Moved(f, k)[0] = f[0]
           /\ k = 0 /\ f[0] # <<>> => Moved(f, k)[0] = <<>>
<1>1. PICK g : g = Moved(f, k)
  OBVIOUS
<1>2. /\ f \in [Slots -> Seq(Nat)] /\ 0 \in Slots /\ 1 \in Slots /\ \A s \in Slots : s \in Nat
      /\ IsFiniteSet(W) /\ W \in SUBSET Nat /\ MaxBackups \in Nat
      /\ \A s \in Slots : s <= MaxBackups
  BY LogAssumption DEF Shelf, Slots
<1>3. \A x \in Latest(W) : On(f[0], x)
  BY FullHasTheLatest
<1>4. /\ \A s \in Slots : \A i \in DOMAIN f[s] : f[s][i] \in W
      /\ \A s, t \in Slots : \A i \in DOMAIN f[s], j \in DOMAIN f[t] :
            s > t \/ (s = t /\ i < j) => f[s][i] < f[t][j]
      /\ \A i \in DOMAIN f[0], m \in W : m > f[0][i] => On(f[0], m)
  BY DEF Shelf
<1>5. CASE k = MaxBackups
  <2>1. g = [f EXCEPT ![k] = <<>>]
    BY <1>1, <1>5 DEF Moved
  <2>2. /\ g \in [Slots -> Seq(Nat)] /\ g[0] = f[0]
        /\ \A s \in Slots : DOMAIN g[s] = {} \/ g[s] = f[s]
    BY <1>2, <1>5, <2>1
  <2>3. Shelf(g, W)
    BY <1>2, <1>3, <1>4, <2>2 DEF Shelf
  <2> QED BY <1>1, <1>2, <1>5, <2>2, <2>3
<1>6. CASE k # MaxBackups /\ f[k] = <<>>
  BY <1>6 DEF Moved
<1>7. CASE k # MaxBackups /\ f[k] # <<>>
  <2>1. g = [f EXCEPT ![k + 1] = f[k], ![k] = <<>>]
    BY <1>1, <1>7 DEF Moved
  <2>2. k + 1 \in Slots /\ k \in Nat /\ k + 1 # k
    BY <1>2, <1>7 DEF Slots
  <2>3. /\ g \in [Slots -> Seq(Nat)] /\ g[k] = <<>> /\ g[k + 1] = f[k]
        /\ \A s \in Slots : s # k /\ s # k + 1 => g[s] = f[s]
    BY <1>2, <2>1, <2>2
  <2>4. DOMAIN g[k] = {} /\ \A i : i \notin DOMAIN g[k]
    BY <2>3
  <2>5. ASSUME NEW s \in Slots, NEW t \in Slots, NEW i \in DOMAIN g[s], NEW j \in DOMAIN g[t],
               s > t \/ (s = t /\ i < j)
        PROVE  g[s][i] < g[t][j]
    <3>1. s # k /\ t # k
      BY <2>4
    <3>2. PICK u \in Slots : g[s] = f[u] /\ u = IF s = k + 1 THEN k ELSE s
      BY <2>3, <3>1
    <3>3. PICK v \in Slots : g[t] = f[v] /\ v = IF t = k + 1 THEN k ELSE t
      BY <2>3, <3>1
    <3>4. u > v \/ (u = v /\ i < j)
      BY <1>2, <2>2, <2>5, <3>1, <3>2, <3>3
    <3> QED BY <1>4, <3>2, <3>3, <3>4
  <2>6. \A s \in Slots : \A i \in DOMAIN g[s] : g[s][i] \in W
    BY <1>4, <2>3, <2>4
  <2>7. k > 0 => g[0] = f[0]
    BY <1>2, <2>2, <2>3
  <2>8. k = 0 => g[0] = <<>> /\ g[1] = f[0]
    BY <2>3
  <2>9. \A i \in DOMAIN g[0], m \in W : m > g[0][i] => On(g[0], m)
    BY <1>2, <1>4, <2>2, <2>4, <2>7
  <2>10. \A x \in Latest(W) : On(g[0], x) \/ On(g[1], x)
    BY <1>2, <1>3, <2>2, <2>7, <2>8
  <2>11. Shelf(g, W)
    BY <1>2, <2>3, <2>5, <2>6, <2>9, <2>10 DEF Shelf
  <2> QED BY <1>1, <2>7, <2>8, <2>11
<1> QED BY <1>5, <1>6, <1>7

(* The rotation of writeEntrySync.                                          *)
LEMMA ShelfTurned ==
    ASSUME MaxBackups > 0, NEW f, NEW W, Shelf(f, W), MaxBytes <= Len(f[0])
    PROVE  Shelf([k \in Slots |-> IF k = 0 THEN <<>> ELSE f[k - 1]], W)
<1>1. PICK g : g = [k \in Slots |-> IF k = 0 THEN <<>> ELSE f[k - 1]]
  OBVIOUS
<1>2. /\ f \in [Slots -> Seq(Nat)] /\ 0 \in Slots /\ 1 \in Slots /\ \A s \in Slots : s \in Nat
      /\ IsFiniteSet(W) /\ W \in SUBSET Nat
      /\ \A s \in Slots : s # 0 => s - 1 \in Slots
  BY LogAssumption DEF Shelf, Slots
<1>3. \A x \in Latest(W) : On(f[0], x)
  BY FullHasTheLatest
<1>4. /\ \A s \in Slots : \A i \in DOMAIN f[s] : f[s][i] \in W
      /\ \A s, t \in Slots : \A i \in DOMAIN f[s], j \in DOMAIN f[t] :
            s > t \/ (s = t /\ i < j) => f[s][i] < f[t][j]
  BY DEF Shelf
<1>5. /\ g \in [Slots -> Seq(Nat)] /\ g[0] = <<>> /\ DOMAIN g[0] = {}
      /\ \A s \in Slots : s # 0 => g[s] = f[s - 1]
      /\ g[1] = f[0]
  BY <1>1, <1>2
<1>6. ASSUME NEW s \in Slots, NEW t \in Slots, NEW i \in DOMAIN g[s], NEW j \in DOMAIN g[t],
             s > t \/ (s = t /\ i < j)
      PROVE  g[s][i] < g[t][j]
  <2>1. s # 0 /\ t # 0
    BY <1>5
  <2>2. PICK u \in Slots, v \in Slots : u = s - 1 /\ v = t - 1
    BY <1>2, <2>1
  <2>3. g[s] = f[u] /\ g[t] = f[v] /\ (u > v \/ (u = v /\ i < j))
    BY <1>2, <1>5, <1>6, <2>1, <2>2
  <2> QED BY <1>4, <2>3
<1>7. \A s \in Slots : \A i \in DOMAIN g[s] : g[s][i] \in W
  BY <1>2, <1>4, <1>5
<1>8. Shelf(g, W)
  BY <1>2, <1>3, <1>5, <1>6, <1>7 DEF Shelf
<1> QED BY <1>1, <1>8

-----------------------------------------------------------------------------
(* writeEntrySync, line by line.                                            *)

(* One line.                                                                *)
LEMMA EntryWritten ==
    ASSUME MaxBackups > 0, NEW d, NEW W, DiskOK(d, W), NEW n \in Nat, \A m \in W : m < n
    PROVE  DiskOK(writeEntrySync(d, n), W \cup {n})
<1>1. PICK f : f = d.files
  OBVIOUS
<1>2. PICK size : size = IF d.size = Unknown THEN Len(f[0]) ELSE d.size
  OBVIOUS
<1>3. PICK h : h = [k \in Slots |-> IF k = 0 THEN <<>> ELSE f[k - 1]]
  OBVIOUS
<1>4. PICK g : g = IF needsRotation(size) THEN h ELSE f
  OBVIOUS
<1>5. PICK known : known = IF ~needsRotation(size) THEN size
                           ELSE IF f[0] = <<>> THEN Unknown ELSE 0
  OBVIOUS
<1>6. PICK e : e = [g EXCEPT ![0] = Append(@, n)]
  OBVIOUS
<1>7. writeEntrySync(d, n) = [size |-> Grown(known), files |-> e]
  BY <1>1, <1>2, <1>3, <1>4, <1>5, <1>6 DEF writeEntrySync
<1>8. /\ Shelf(f, W) /\ f \in [Slots -> Seq(Nat)] /\ 0 \in Slots
      /\ size = Len(f[0]) /\ size \in Nat /\ MaxBytes \in Nat
  BY <1>1, <1>2, LogAssumption DEF DiskOK, Shelf, Slots
<1>9. Shelf(g, W) /\ known = Len(g[0]) /\ known \in Nat
  <2>1. CASE needsRotation(size)
    <3>1. size > 0 /\ MaxBytes <= size
      BY <1>8, <2>1 DEF needsRotation
    <3>2. Shelf(g, W)
      BY <1>3, <1>4, <1>8, <2>1, <3>1, ShelfTurned
    <3>3. g[0] = <<>> /\ f[0] # <<>>
      BY <1>3, <1>4, <1>8, <2>1, <3>1
    <3> QED BY <1>5, <2>1, <3>2, <3>3
  <2>2. CASE ~needsRotation(size)
    BY <1>4, <1>5, <1>8, <2>2
  <2> QED BY <2>1, <2>2
<1>10. Shelf(e, W \cup {n})
  BY <1>6, <1>9, ShelfAppended
<1>11. Len(e[0]) = known + 1
  BY <1>6, <1>8, <1>9 DEF Shelf
<1>12. Grown(known) = known + 1
  BY <1>9 DEF Grown, Unknown
<1> QED BY <1>7, <1>9, <1>10, <1>11, <1>12 DEF DiskOK

(* What FoldLeft makes of the first m lines of q, as a function of the      *)
(* positions that have been folded.                                         *)
Folded(d, q, m, g) ==
    g = [s \in SUBSET (1..m) |->
            IF s = {} THEN d ELSE writeEntrySync(g[s \ {Max(s)}], q[Max(s)])]

(* What is left of a set of numbers without its greatest.                   *)
LEMMA WithoutMax ==
    ASSUME NEW m \in Nat, NEW s \in SUBSET (1..(m + 1)), s # {}
    PROVE  s \ {Max(s)} \in SUBSET (1..m)
<1>1. m + 1 \in Nat
  OBVIOUS
<1>2. Max(s) \in s /\ \A x \in s : Max(s) >= x
  BY <1>1, MaxOfNumbers
<1> SUFFICES ASSUME NEW x \in s, x # Max(s) PROVE x \in 1..m
  OBVIOUS
<1>3. PICK y : y = Max(s)
  OBVIOUS
<1>4. x \in 1..(m + 1) /\ y \in 1..(m + 1) /\ y >= x /\ x # y
  BY <1>2, <1>3
<1> QED BY <1>4

(* The recursion of FoldLeft defines a function: the numbers that had none  *)
(* would have a least one.                                                  *)
LEMMA FoldExists ==
    ASSUME NEW d, NEW q, NEW n \in Nat
    PROVE  \E g : Folded(d, q, n, g)
<1> DEFINE Missing == {m \in Nat : ~ \E g : Folded(d, q, m, g)}
<1> SUFFICES ASSUME Missing # {} PROVE FALSE
  OBVIOUS
<1>1. PICK m \in Missing : \A x \in Missing : m <= x
  BY LeastNumber
<1>2. m # 0
  <2>1. Folded(d, q, 0, [s \in {{}} |-> d])
    <3>1. SUBSET (1..0) = {{}}
      OBVIOUS
    <3> QED BY <3>1 DEF Folded
  <2> QED BY <2>1
<1>3. PICK k \in Nat : m = k + 1
  BY <1>1, <1>2
<1>4. PICK g : Folded(d, q, k, g)
  <2>1. k \notin Missing
    BY <1>1, <1>3
  <2> QED BY <2>1
<1>5. PICK h : h = [s \in SUBSET (1..m) |->
                      IF s = {} THEN d ELSE writeEntrySync(g[s \ {Max(s)}], q[Max(s)])]
  OBVIOUS
<1>6. \A s \in SUBSET (1..k) : h[s] = g[s]
  <2>1. \A s \in SUBSET (1..k) : s \in SUBSET (1..m)
    BY <1>3
  <2> QED BY <1>4, <1>5, <2>1 DEF Folded
<1>7. \A s \in SUBSET (1..m) : s # {} => h[s \ {Max(s)}] = g[s \ {Max(s)}]
  BY <1>3, <1>6, WithoutMax
<1>8. h = [s \in SUBSET (1..m) |->
            IF s = {} THEN d ELSE writeEntrySync(h[s \ {Max(s)}], q[Max(s)])]
  BY <1>5, <1>7
<1>9. Folded(d, q, m, h)
  BY <1>8 DEF Folded
<1> QED BY <1>1, <1>9

(* e comes of d by writing the lines of q one after the other.              *)
LineByLine(d, q, e) ==
    \E g : /\ e = g[Len(q)]
           /\ g[0] = d
           /\ \A k \in 1..Len(q) : g[k] = writeEntrySync(g[k - 1], q[k])

(* So does FoldLeft.                                                        *)
LEMMA FoldedLineByLine ==
    ASSUME NEW d, NEW q \in Seq(Nat)
    PROVE  LineByLine(d, q, FoldLeft(writeEntrySync, d, q))
<1>e. PICK e : e = FoldLeft(writeEntrySync, d, q)
  OBVIOUS
<1>1. PICK n \in Nat : n = Len(q) /\ DOMAIN q = 1..n
  OBVIOUS
<1>2. PICK h : h = CHOOSE g : Folded(d, q, n, g)
  OBVIOUS
<1>3. Folded(d, q, n, h)
  BY <1>2, FoldExists
<1>4. e = h[1..n]
  <2>1. FoldLeft(writeEntrySync, d, q) = h[1..n]
    BY <1>1, <1>2 DEF FoldLeft, MapThenFoldSet, Folded
  <2> QED BY <1>e, <2>1
<1>5. PICK g : g = [k \in 0..n |-> h[1..k]]
  OBVIOUS
<1>6. g[0] = d
  <2>1. 1..0 = {} /\ {} \in SUBSET (1..n)
    OBVIOUS
  <2>2. h[{}] = d
    BY <1>3, <2>1 DEF Folded
  <2> QED BY <1>5, <2>1, <2>2
<1>7. ASSUME NEW k \in 1..n PROVE g[k] = writeEntrySync(g[k - 1], q[k])
  <2>0. k \in Nat /\ 1 <= k /\ k <= n /\ k \in 0..n /\ k - 1 \in 0..n
    OBVIOUS
  <2>1. k \in Nat /\ k \in 1..k /\ 1..k \in SUBSET (1..n) /\ 1..k # {}
    <3>1. \A i \in 1..k : i \in 1..n
      BY <2>0
    <3>2. k \in 1..k
      BY <2>0
    <3> QED BY <2>0, <3>1, <3>2
  <2>2. Max(1..k) = k
    <3>1. Max(1..k) \in 1..k /\ \A x \in 1..k : Max(1..k) >= x
      BY <2>1, MaxOfNumbers
    <3> QED BY <2>1, <3>1
  <2>3. (1..k) \ {k} = 1..(k - 1)
    BY <2>1
  <2>4. h[1..k] = writeEntrySync(h[(1..k) \ {Max(1..k)}], q[Max(1..k)])
    BY <1>3, <2>1 DEF Folded
  <2> QED BY <1>5, <2>0, <2>2, <2>3, <2>4
<1>8. g[n] = h[1..n]
  BY <1>5
<1>9. LineByLine(d, q, e)
  BY <1>1, <1>4, <1>6, <1>7, <1>8 DEF LineByLine
<1> QED BY <1>e, <1>9

(* flushSync keeps the newest lines and their order.                        *)
LEMMA AllWritten ==
    ASSUME MaxBackups > 0, NEW d, NEW W, DiskOK(d, W), NEW q \in Seq(Nat),
           \A m \in W, k \in DOMAIN q : m < q[k],
           Rising(q)
    PROVE  DiskOK(FoldLeft(writeEntrySync, d, q), W \cup ToSet(q))
<1>1. PICK n \in Nat : n = Len(q) /\ DOMAIN q = 1..n
  OBVIOUS
<1>e. PICK e : e = FoldLeft(writeEntrySync, d, q)
  OBVIOUS
<1>f. PICK g : /\ e = g[Len(q)]
               /\ g[0] = d
               /\ \A k \in 1..Len(q) : g[k] = writeEntrySync(g[k - 1], q[k])
  <2>1. LineByLine(d, q, e)
    BY <1>e, FoldedLineByLine
  <2> QED BY <2>1 DEF LineByLine
<1>2. /\ e = g[n]
      /\ g[0] = d
      /\ \A k \in 1..n : g[k] = writeEntrySync(g[k - 1], q[k])
  BY <1>1, <1>f
<1> DEFINE First(k) == {q[i] : i \in 1..k}
           Bad == {k \in 0..n : ~ DiskOK(g[k], W \cup First(k))}
<1>3. ASSUME Bad # {} PROVE FALSE
  <2>1. Bad \in SUBSET Nat
    OBVIOUS
  <2>2. PICK k \in Bad : \A x \in Bad : k <= x
    BY <1>3, <2>1, LeastNumber
  <2>3. k # 0
    <3>1. W \cup First(0) = W
      OBVIOUS
    <3> QED BY <1>2, <2>2, <3>1
  <2>4. k \in 1..n /\ k - 1 \in 0..n /\ k - 1 \notin Bad
    <3>1. k \in 0..n
      BY <2>2
    <3>2. k \in 1..n /\ k - 1 \in 0..n /\ ~ k <= k - 1
      BY <2>3, <3>1
    <3> HIDE DEF Bad
    <3> QED BY <2>2, <3>2
  <2>5. DiskOK(g[k - 1], W \cup First(k - 1))
    BY <2>4
  <2>6. q[k] \in Nat /\ \A m \in W \cup First(k - 1) : m < q[k]
    <3>1. k \in DOMAIN q /\ q[k] \in Nat
      BY <1>1, <2>4
    <3>2. \A i \in 1..(k - 1) : i \in DOMAIN q /\ i < k
      BY <1>1, <2>4
    <3> QED BY <3>1, <3>2 DEF Rising
  <2>7. W \cup First(k) = (W \cup First(k - 1)) \cup {q[k]}
    <3>1. 1..k = (1..(k - 1)) \cup {k}
      BY <2>4
    <3> QED BY <3>1
  <2> HIDE DEF First
  <2>8. DiskOK(g[k], (W \cup First(k - 1)) \cup {q[k]})
    <3>1. PICK V, c, x : V = W \cup First(k - 1) /\ c = g[k - 1] /\ x = q[k]
      OBVIOUS
    <3>2. DiskOK(writeEntrySync(c, x), V \cup {x})
      BY <2>5, <2>6, <3>1, EntryWritten
    <3>3. g[k] = writeEntrySync(c, x)
      BY <1>2, <2>4, <3>1
    <3> QED BY <3>1, <3>2, <3>3
  <2> QED BY <2>2, <2>7, <2>8
<1>4. ToSet(q) = First(n)
  BY <1>1 DEF ToSet
<1>5. DiskOK(g[n], W \cup First(n))
  <2>1. n \in 0..n
    OBVIOUS
  <2> QED BY <1>3, <2>1
<1>6. DiskOK(e, W \cup ToSet(q))
  BY <1>2, <1>4, <1>5
<1> QED BY <1>e, <1>6

-----------------------------------------------------------------------------
(* The steps of the logger.                                                 *)

(* A queue that loses its head, or grows by a newer line, still rises.      *)
LEMMA TailRises ==
    ASSUME NEW q \in Seq(Nat), q # <<>>, Rising(q)
    PROVE  /\ Tail(q) \in Seq(Nat) /\ Rising(Tail(q))
           /\ Head(q) = q[1] /\ 1 \in DOMAIN q
           /\ \A k \in DOMAIN Tail(q) :
                k + 1 \in DOMAIN q /\ Tail(q)[k] = q[k + 1] /\ q[1] < Tail(q)[k]
BY DEF Rising

LEMMA AppendRises ==
    ASSUME NEW q \in Seq(Nat), Rising(q), NEW n \in Nat, \A k \in DOMAIN q : q[k] < n
    PROVE  /\ Append(q, n) \in Seq(Nat) /\ Rising(Append(q, n)) /\ Append(q, n) # <<>>
           /\ \A k \in DOMAIN Append(q, n) :
                Append(q, n)[k] = n \/ (k \in DOMAIN q /\ Append(q, n)[k] = q[k])
BY DEF Rising

(* The loop takes the next line.                                            *)
LEMMA TakenOK ==
    ASSUME NEW l, QueueOK(l) PROVE QueueOK(Taken(l)) /\ DrainOK(Taken(l))
<1>1. PICK x : x = Taken(l)
  OBVIOUS
<1>2. /\ DOMAIN l = Fields /\ l.queue \in Seq(Nat) /\ Rising(l.queue) /\ l.logged \in Nat
      /\ DiskOK(l.disk, l.written) /\ MaxBytes \in Nat /\ MaxBackups \in Slots
      /\ \A n \in l.written, k \in DOMAIN l.queue : n < l.queue[k]
      /\ \A k \in DOMAIN l.queue : l.queue[k] <= l.logged
  BY LogAssumption DEF QueueOK, LinesOK, Slots
<1>3. /\ DOMAIN x = Fields /\ x.logged = l.logged /\ x.queue = l.queue
      /\ x.written = l.written /\ x.disk = l.disk
  BY <1>1, <1>2 DEF Taken, Fields
<1>4. QueueOK(x)
  BY <1>3 DEF QueueOK, LinesOK
<1>5. CASE l.queue = <<>>
  <2>1. x.drain = Idle
    BY <1>1, <1>2, <1>5 DEF Taken, Fields
  <2> QED BY <1>1, <1>4, <2>1 DEF DrainOK, Idle
<1>6. CASE l.queue # <<>>
  <2>1. x.drain = [at |-> IF l.disk.size = Unknown THEN "stat" ELSE Sized(l.disk.size),
                   line |-> Head(l.queue), slot |-> MaxBackups]
    BY <1>1, <1>2, <1>6 DEF Taken, Fields
  <2>2. /\ DOMAIN x.drain = {"at", "line", "slot"}
        /\ x.drain.line = l.queue[1] /\ x.drain.slot = MaxBackups /\ 1 \in DOMAIN l.queue
        /\ x.drain.at = "rotate" => l.disk.size # Unknown /\ needsRotation(l.disk.size)
    BY <1>2, <1>6, <2>1 DEF Sized
  <2>3. \A k \in DOMAIN l.queue : l.queue[1] <= l.queue[k]
    <3> SUFFICES ASSUME NEW k \in DOMAIN l.queue, k # 1 PROVE l.queue[1] < l.queue[k]
      BY <1>2, <2>2
    <3>1. 1 < k
      BY <1>2
    <3> QED BY <1>2, <2>2, <3>1 DEF Rising
  <2>4. /\ l.queue[1] \in Nat /\ l.queue[1] <= l.logged
        /\ \A n \in l.written : n < l.queue[1]
    BY <1>2, <2>2
  <2>5. x.drain.at = "rotate" => MaxBytes <= Len(l.disk.files[0])
    BY <1>2, <2>2 DEF DiskOK, needsRotation
  <2>6. DrainOK(x)
    BY <1>2, <1>3, <2>2, <2>3, <2>4, <2>5 DEF DrainOK
  <2> QED BY <1>1, <1>4, <2>6
<1> QED BY <1>5, <1>6

(* The end of an iteration: the line leaves the queue.                      *)
LEMMA ShiftedOK ==
    ASSUME NEW l, LinesOK(l), NEW n \in Nat, l.drain.line = n,
           \A k \in DOMAIN l.queue : n <= l.queue[k],
           \A m \in l.written, k \in DOMAIN l.queue : m < l.queue[k] \/ m = n
    PROVE  QueueOK(Shifted(l))
<1>1. PICK x, q : x = Shifted(l) /\ q = l.queue
  OBVIOUS
<1>2. /\ DOMAIN l = Fields /\ q \in Seq(Nat) /\ Rising(q) /\ l.logged \in Nat
      /\ DiskOK(l.disk, l.written)
      /\ \A k \in DOMAIN q : q[k] <= l.logged
      /\ \A m \in l.written : m <= l.logged
  BY <1>1 DEF LinesOK
<1>3. CASE q # <<>> /\ Head(q) = n
  <2>1. x = [l EXCEPT !.queue = Tail(q)]
    BY <1>1, <1>3 DEF Shifted
  <2>2. /\ DOMAIN x = Fields /\ x.logged = l.logged /\ x.queue = Tail(q)
        /\ x.written = l.written /\ x.disk = l.disk
    BY <1>2, <2>1 DEF Fields
  <2>3. /\ Tail(q) \in Seq(Nat) /\ Rising(Tail(q))
        /\ \A k \in DOMAIN Tail(q) :
             k + 1 \in DOMAIN q /\ Tail(q)[k] = q[k + 1] /\ n < Tail(q)[k]
    BY <1>2, <1>3, TailRises
  <2>4. LinesOK(x)
    BY <1>2, <2>2, <2>3 DEF LinesOK
  <2>5. \A m \in l.written, k \in DOMAIN Tail(q) : m < Tail(q)[k]
    BY <1>1, <2>3
  <2> QED BY <1>1, <2>2, <2>4, <2>5 DEF QueueOK
<1>4. CASE ~(q # <<>> /\ Head(q) = n)
  <2>1. x = l
    BY <1>1, <1>4 DEF Shifted
  <2>2. \A k \in DOMAIN q : n < q[k]
    <3> SUFFICES ASSUME NEW k \in DOMAIN q PROVE n < q[k]
      OBVIOUS
    <3>1. 1 \in DOMAIN q /\ Head(q) = q[1] /\ q # <<>> /\ k \in Nat /\ 1 <= k /\ q[k] \in Nat
      BY <1>2
    <3>2. n < q[1]
      BY <1>1, <1>2, <1>4, <3>1
    <3>3. k = 1 \/ q[1] < q[k]
      BY <1>2, <3>1 DEF Rising
    <3> QED BY <1>2, <3>1, <3>2, <3>3
  <2> QED BY <1>1, <2>1, <2>2 DEF QueueOK
<1> QED BY <1>3, <1>4

(* The stat, a step of the rotation and the append.                         *)
LEMMA ReadSizeOK ==
    ASSUME NEW l, QueueOK(l), DrainOK(l), l.drain.at = "stat", NEW ok \in BOOLEAN
    PROVE  QueueOK(readSize(l, ok)) /\ DrainOK(readSize(l, ok))
<1>1. PICK x, f : x = readSize(l, ok) /\ f = l.disk.files
  OBVIOUS
<1>2. PICK size : size = IF ok THEN Len(f[0]) ELSE Unknown
  OBVIOUS
<1>3. /\ DOMAIN l = Fields /\ DOMAIN l.disk = {"size", "files"}
      /\ Shelf(f, l.written) /\ f[0] \in Seq(Nat) /\ MaxBytes \in Nat
  BY <1>1, LogAssumption DEF QueueOK, LinesOK, DiskOK, Shelf, Slots
<1>4. x = [l EXCEPT !.disk.size = size, !.drain.at = Sized(size)]
  BY <1>1, <1>2 DEF readSize
<1>5. /\ DOMAIN x = Fields /\ x.logged = l.logged /\ x.queue = l.queue
      /\ x.written = l.written
      /\ DOMAIN x.disk = {"size", "files"} /\ x.disk.size = size /\ x.disk.files = f
      /\ x.drain = [l.drain EXCEPT !.at = Sized(size)]
  BY <1>1, <1>3, <1>4 DEF Fields
<1>6. /\ DOMAIN x.drain = {"at", "line", "slot"} /\ x.drain.at = Sized(size)
      /\ x.drain.line = l.drain.line /\ x.drain.slot = l.drain.slot
  BY <1>5 DEF DrainOK
<1>7. size \in Nat \cup {Unknown} /\ (size # Unknown => size = Len(f[0]))
  BY <1>2, <1>3
<1>8. x.drain.at = "rotate" => MaxBytes <= Len(f[0])
  BY <1>2, <1>3, <1>6, <1>7 DEF Sized, needsRotation, Unknown
<1>9. QueueOK(x)
  BY <1>1, <1>5, <1>7 DEF QueueOK, LinesOK, DiskOK
<1>10. DrainOK(x)
  BY <1>1, <1>5, <1>6, <1>8 DEF DrainOK
<1> QED BY <1>1, <1>9, <1>10

LEMMA RotateOK ==
    ASSUME MaxBackups > 0, NEW l, QueueOK(l), DrainOK(l), l.drain.at = "rotate",
           NEW ok \in BOOLEAN
    PROVE  QueueOK(rotate(l, ok)) /\ DrainOK(rotate(l, ok))
<1>1. PICK x, f, k : x = rotate(l, ok) /\ f = l.disk.files /\ k = l.drain.slot
  OBVIOUS
<1>2. PICK g : g = IF ok THEN Moved(f, k) ELSE f
  OBVIOUS
<1>3. /\ DOMAIN l = Fields /\ DOMAIN l.disk = {"size", "files"}
      /\ Shelf(f, l.written) /\ f[0] \in Seq(Nat)
      /\ k \in Slots /\ MaxBytes <= Len(f[0]) /\ MaxBackups \in Nat
      /\ DOMAIN l.drain = {"at", "line", "slot"}
      /\ l.disk.size \in Nat \cup {Unknown}
      /\ l.disk.size # Unknown => l.disk.size = Len(f[0])
  <2>1. /\ MaxBackups \in Nat /\ 0 \in Slots
        /\ DOMAIN l = Fields /\ DiskOK(l.disk, l.written)
    BY LogAssumption DEF QueueOK, LinesOK, Slots
  <2>2. /\ DOMAIN l.disk = {"size", "files"} /\ Shelf(f, l.written)
        /\ l.disk.size \in Nat \cup {Unknown}
        /\ l.disk.size # Unknown => l.disk.size = Len(f[0])
    BY <1>1, <2>1 DEF DiskOK
  <2>3. f[0] \in Seq(Nat)
    BY <2>1, <2>2 DEF Shelf
  <2>4. /\ k \in Slots /\ MaxBytes <= Len(f[0]) /\ DOMAIN l.drain = {"at", "line", "slot"}
    BY <1>1 DEF DrainOK
  <2> QED BY <2>1, <2>2, <2>3, <2>4
<1>4. Shelf(g, l.written) /\ (k > 0 => g[0] = f[0])
      /\ (k = 0 /\ ok /\ f[0] # <<>> => g[0] = <<>>)
  BY <1>2, <1>3, ShelfMoved
<1>5. CASE k > 0
  <2>1. x = [l EXCEPT !.disk.files = g, !.drain.slot = k - 1]
    BY <1>1, <1>2, <1>5 DEF rotate
  <2>2. /\ DOMAIN x = Fields /\ x.logged = l.logged /\ x.queue = l.queue
        /\ x.written = l.written
        /\ DOMAIN x.disk = {"size", "files"} /\ x.disk.size = l.disk.size /\ x.disk.files = g
        /\ x.drain = [l.drain EXCEPT !.slot = k - 1]
    BY <1>3, <2>1 DEF Fields
  <2>3. /\ DOMAIN x.drain = {"at", "line", "slot"} /\ x.drain.at = "rotate"
        /\ x.drain.line = l.drain.line /\ x.drain.slot = k - 1
    BY <1>3, <2>2
  <2>4. k - 1 \in Slots
    BY <1>3, <1>5 DEF Slots
  <2>5. QueueOK(x)
    BY <1>3, <1>4, <1>5, <2>2 DEF QueueOK, LinesOK, DiskOK
  <2>6. DrainOK(x)
    BY <1>1, <1>3, <1>4, <1>5, <2>2, <2>3, <2>4 DEF DrainOK
  <2> QED BY <1>1, <2>5, <2>6
<1>6. CASE ~ k > 0
  <2>0. k = 0
    BY <1>3, <1>6 DEF Slots
  <2>1. PICK size : size = IF ok /\ f[0] # <<>> THEN 0 ELSE Unknown
    OBVIOUS
  <2>2. x = [l EXCEPT !.disk.files = g, !.drain.at = "append", !.disk.size = size]
    BY <1>1, <1>2, <1>6, <2>1 DEF rotate
  <2>3. /\ DOMAIN x = Fields /\ x.logged = l.logged /\ x.queue = l.queue
        /\ x.written = l.written
        /\ DOMAIN x.disk = {"size", "files"} /\ x.disk.size = size /\ x.disk.files = g
        /\ x.drain = [l.drain EXCEPT !.at = "append"]
    BY <1>3, <2>2 DEF Fields
  <2>4. /\ DOMAIN x.drain = {"at", "line", "slot"} /\ x.drain.at = "append"
        /\ x.drain.line = l.drain.line /\ x.drain.slot = k
    BY <1>1, <1>3, <2>3
  <2>5. size \in Nat \cup {Unknown} /\ (size # Unknown => size = Len(g[0]))
    BY <1>4, <2>0, <2>1
  <2>6. QueueOK(x)
    BY <1>4, <2>3, <2>5 DEF QueueOK, LinesOK, DiskOK
  <2>7. DrainOK(x)
    BY <1>1, <1>3, <2>3, <2>4 DEF DrainOK
  <2> QED BY <1>1, <2>6, <2>7
<1> QED BY <1>5, <1>6

LEMMA AppendOK ==
    ASSUME MaxBackups > 0, NEW l, QueueOK(l), DrainOK(l), l.drain.at = "append",
           NEW ok \in BOOLEAN
    PROVE  QueueOK(append(l, ok)) /\ DrainOK(append(l, ok))
<1>1. PICK n, f, W : n = l.drain.line /\ f = l.disk.files /\ W = l.written
  OBVIOUS
<1>2. PICK x : x = IF ok THEN [l EXCEPT !.disk.size = Grown(@), !.disk.files[0] = Append(@, n),
                                       !.written = @ \cup {n}]
                   ELSE [l EXCEPT !.disk.size = Unknown, !.dropped = @ \cup {n}]
  OBVIOUS
<1>3. append(l, ok) = Taken(Shifted(x))
  BY <1>1, <1>2 DEF append
<1>4. /\ DOMAIN l = Fields /\ DOMAIN l.disk = {"size", "files"}
      /\ f \in [Slots -> Seq(Nat)] /\ 0 \in Slots /\ Shelf(f, W)
      /\ n \in Nat /\ n <= l.logged
      /\ \A m \in W : m < n
      /\ \A k \in DOMAIN l.queue : n <= l.queue[k]
      /\ l.disk.size \in Nat \cup {Unknown}
      /\ l.disk.size # Unknown => l.disk.size = Len(f[0])
      /\ l.logged \in Nat /\ l.queue \in Seq(Nat) /\ Rising(l.queue)
      /\ \A m \in W : m <= l.logged
      /\ \A k \in DOMAIN l.queue : l.queue[k] <= l.logged
      /\ \A m \in W, k \in DOMAIN l.queue : m < l.queue[k]
  BY <1>1, LogAssumption DEF QueueOK, LinesOK, DiskOK, DrainOK, Shelf, Slots
<1>5. CASE ok
  <2>1. PICK g : g = [f EXCEPT ![0] = Append(@, n)]
    OBVIOUS
  <2>2. x = [l EXCEPT !.disk.size = Grown(@), !.disk.files[0] = Append(@, n),
                      !.written = @ \cup {n}]
    BY <1>2, <1>5
  <2>3. /\ DOMAIN x = Fields /\ x.logged = l.logged /\ x.queue = l.queue /\ x.drain = l.drain
        /\ x.written = W \cup {n}
        /\ DOMAIN x.disk = {"size", "files"}
        /\ x.disk.size = Grown(l.disk.size) /\ x.disk.files = g
    BY <1>1, <1>4, <2>1, <2>2 DEF Fields
  <2>4. Shelf(g, W \cup {n}) /\ Len(g[0]) = Len(f[0]) + 1 /\ Len(f[0]) \in Nat
    <3>1. Shelf(g, W \cup {n})
      BY <1>4, <2>1, ShelfAppended
    <3>2. g[0] = Append(f[0], n) /\ f[0] \in Seq(Nat)
      BY <1>4, <2>1
    <3> QED BY <1>4, <3>1, <3>2
  <2>5. DiskOK(x.disk, x.written)
    BY <1>4, <2>3, <2>4 DEF DiskOK, Grown, Unknown
  <2>6. LinesOK(x)
    BY <1>4, <2>3, <2>5 DEF LinesOK
  <2>7. \A m \in x.written, k \in DOMAIN x.queue : m < x.queue[k] \/ m = n
    BY <1>4, <2>3
  <2>8. QueueOK(Shifted(x))
    BY <1>1, <1>4, <2>3, <2>6, <2>7, ShiftedOK
  <2> QED BY <1>3, <2>8, TakenOK
<1>6. CASE ~ok
  <2>2. x = [l EXCEPT !.disk.size = Unknown, !.dropped = @ \cup {n}]
    BY <1>2, <1>6
  <2>3. /\ DOMAIN x = Fields /\ x.logged = l.logged /\ x.queue = l.queue /\ x.drain = l.drain
        /\ x.written = W
        /\ DOMAIN x.disk = {"size", "files"}
        /\ x.disk.size = Unknown /\ x.disk.files = f
    BY <1>1, <1>4, <2>2 DEF Fields
  <2>5. DiskOK(x.disk, x.written)
    BY <1>4, <2>3 DEF DiskOK
  <2>6. LinesOK(x)
    BY <1>4, <2>3, <2>5 DEF LinesOK
  <2>7. \A m \in x.written, k \in DOMAIN x.queue : m < x.queue[k] \/ m = n
    BY <1>4, <2>3
  <2>8. QueueOK(Shifted(x))
    BY <1>1, <1>4, <2>3, <2>6, <2>7, ShiftedOK
  <2> QED BY <1>3, <2>8, TakenOK
<1> QED BY <1>5, <1>6

(* A file operation of the drain ends.                                      *)
LEMMA DrainedOK ==
    ASSUME MaxBackups > 0, NEW l, QueueOK(l), DrainOK(l), NEW ok \in BOOLEAN
    PROVE  QueueOK(Drained(l, ok)) /\ DrainOK(Drained(l, ok))
<1>1. PICK m : m = [l EXCEPT !.faults = IF ok THEN @ ELSE @ + 1]
  OBVIOUS
<1>2. /\ DOMAIN m = Fields /\ m.logged = l.logged /\ m.queue = l.queue /\ m.drain = l.drain
      /\ m.written = l.written /\ m.disk = l.disk
  BY <1>1 DEF QueueOK, LinesOK, Fields
<1>3. QueueOK(m) /\ DrainOK(m)
  BY <1>2 DEF QueueOK, LinesOK, DrainOK
<1>4. CASE l.drain.at = "stat"
  BY <1>1, <1>2, <1>3, <1>4, ReadSizeOK DEF Drained
<1>5. CASE l.drain.at = "rotate"
  BY <1>1, <1>2, <1>3, <1>5, RotateOK DEF Drained
<1>6. CASE l.drain.at = "append"
  BY <1>1, <1>2, <1>3, <1>6, AppendOK DEF Drained
<1>7. CASE l.drain.at \notin {"stat", "rotate", "append"}
  <2>1. Drained(l, ok) = l
    BY <1>7 DEF Drained
  <2> QED BY <2>1
<1> QED BY <1>4, <1>5, <1>6, <1>7

(* A line is logged.                                                        *)
LEMMA LoggedOK ==
    ASSUME NEW l, QueueOK(l), DrainOK(l)
    PROVE  QueueOK(lifecycleLog(l)) /\ DrainOK(lifecycleLog(l))
<1>1. PICK n, queue : n = l.logged + 1 /\ queue = Append(l.queue, n)
  OBVIOUS
<1>2. PICK q, x : /\ q = IF Len(queue) > MaxQueued THEN Tail(queue) ELSE queue
                  /\ x = [l EXCEPT !.logged = n, !.queue = q,
                            !.dropped = IF Len(queue) > MaxQueued THEN @ \cup {Head(queue)} ELSE @]
  OBVIOUS
<1>3. lifecycleLog(l) = IF l.drain = Idle THEN Taken(x) ELSE x
  BY <1>1, <1>2 DEF lifecycleLog
<1>4. /\ DOMAIN l = Fields /\ l.logged \in Nat /\ l.queue \in Seq(Nat) /\ Rising(l.queue)
      /\ n \in Nat /\ l.logged < n
      /\ \A m \in l.written : m <= l.logged
      /\ \A k \in DOMAIN l.queue : l.queue[k] <= l.logged /\ l.queue[k] \in Nat
      /\ DiskOK(l.disk, l.written)
      /\ \A m \in l.written, k \in DOMAIN l.queue : m < l.queue[k]
      /\ l.written \in SUBSET Nat
  BY <1>1 DEF QueueOK, LinesOK, DiskOK, Shelf
<1>5. /\ DOMAIN x = Fields /\ x.logged = n /\ x.queue = q /\ x.drain = l.drain
      /\ x.written = l.written /\ x.disk = l.disk
  BY <1>2, <1>4 DEF Fields
<1>6. \A k \in DOMAIN l.queue : l.queue[k] < n
  BY <1>4
<1>7. /\ queue \in Seq(Nat) /\ Rising(queue) /\ queue # <<>>
      /\ \A k \in DOMAIN queue :
            queue[k] = n \/ (k \in DOMAIN l.queue /\ queue[k] = l.queue[k])
  BY <1>1, <1>4, <1>6, AppendRises
<1>8. /\ q \in Seq(Nat) /\ Rising(q)
      /\ \A k \in DOMAIN q : q[k] = n \/ \E j \in DOMAIN l.queue : q[k] = l.queue[j]
  <2>1. CASE Len(queue) > MaxQueued
    <3>1. /\ Tail(queue) \in Seq(Nat) /\ Rising(Tail(queue))
          /\ \A k \in DOMAIN Tail(queue) :
                k + 1 \in DOMAIN queue /\ Tail(queue)[k] = queue[k + 1]
      BY <1>7, TailRises
    <3>2. q = Tail(queue)
      BY <1>2, <2>1
    <3> QED BY <1>7, <3>1, <3>2
  <2>2. CASE ~ Len(queue) > MaxQueued
    BY <1>2, <1>7, <2>2
  <2> QED BY <2>1, <2>2
<1>9. /\ \A m \in l.written : m < n /\ m <= n
      /\ \A k \in DOMAIN q : q[k] <= n
      /\ \A m \in l.written, k \in DOMAIN q : m < q[k]
  <2>1. \A m \in l.written : m \in Nat /\ m < n /\ m <= n
    BY <1>4
  <2>2. ASSUME NEW k \in DOMAIN q
        PROVE  q[k] <= n /\ \A m \in l.written : m < q[k]
    <3>1. CASE q[k] = n
      BY <1>4, <2>1, <3>1
    <3>2. CASE \E j \in DOMAIN l.queue : q[k] = l.queue[j]
      BY <1>4, <3>2
    <3> QED BY <1>8, <3>1, <3>2
  <2> QED BY <2>1, <2>2
<1>10. QueueOK(x)
  BY <1>4, <1>5, <1>8, <1>9 DEF QueueOK, LinesOK
<1>11. CASE l.drain = Idle
  BY <1>3, <1>10, <1>11, TakenOK
<1>12. CASE l.drain # Idle
  <2>1. l.drain.at # "idle" =>
            /\ l.drain.line \in 0..n
            /\ \A m \in l.written : m < l.drain.line
            /\ \A k \in DOMAIN q : l.drain.line <= q[k]
            /\ l.drain.slot \in Slots
    <3> SUFFICES ASSUME l.drain.at # "idle"
                 PROVE  /\ l.drain.line \in 0..n
                        /\ \A m \in l.written : m < l.drain.line
                        /\ \A k \in DOMAIN q : l.drain.line <= q[k]
                        /\ l.drain.slot \in Slots
      OBVIOUS
    <3>1. /\ l.drain.line \in 0..l.logged
          /\ \A m \in l.written : m < l.drain.line
          /\ \A k \in DOMAIN l.queue : l.drain.line <= l.queue[k]
          /\ l.drain.slot \in Slots
      BY DEF DrainOK
    <3>2. l.drain.line \in 0..n /\ l.drain.line <= n
      BY <1>4, <3>1
    <3>3. \A k \in DOMAIN q : l.drain.line <= q[k]
      BY <1>8, <3>1, <3>2
    <3> QED BY <3>1, <3>2, <3>3
  <2>2. DrainOK(x)
    BY <1>5, <2>1 DEF DrainOK
  <2> QED BY <1>3, <1>10, <1>12, <2>2
<1> QED BY <1>11, <1>12

(* flushSync, whether it fails or not.                                      *)
LEMMA FlushedOK ==
    ASSUME MaxBackups > 0, NEW l, QueueOK(l), NEW ok \in BOOLEAN
    PROVE  /\ DOMAIN Flushed(l, ok) = Fields
           /\ Shelf(Flushed(l, ok).disk.files, Flushed(l, ok).written)
           /\ Flushed(l, ok).drain = l.drain
<1>1. /\ DOMAIN l = Fields /\ DOMAIN l.disk = {"size", "files"} /\ l.queue \in Seq(Nat)
      /\ Rising(l.queue) /\ DiskOK(l.disk, l.written)
      /\ \A m \in l.written, k \in DOMAIN l.queue : m < l.queue[k]
  BY DEF QueueOK, LinesOK, DiskOK
<1>2. CASE ok
  <2>1. PICK e : e = FoldLeft(writeEntrySync, l.disk, l.queue)
    OBVIOUS
  <2>2. DiskOK(e, l.written \cup ToSet(l.queue))
    BY <1>1, <2>1, AllWritten
  <2>3. Flushed(l, ok) = [l EXCEPT !.queue = <<>>, !.disk = e,
                                   !.written = @ \cup ToSet(l.queue)]
    BY <1>2, <2>1 DEF Flushed
  <2>4. /\ DOMAIN Flushed(l, ok) = Fields /\ Flushed(l, ok).disk = e
        /\ Flushed(l, ok).written = l.written \cup ToSet(l.queue)
        /\ Flushed(l, ok).drain = l.drain
    BY <1>1, <2>3 DEF Fields
  <2> QED BY <2>2, <2>4 DEF DiskOK
<1>3. CASE ~ok
  <2>1. Flushed(l, ok) = [l EXCEPT !.queue = <<>>, !.disk.size = Unknown,
                                   !.dropped = @ \cup ToSet(l.queue)]
    BY <1>3 DEF Flushed
  <2>2. /\ DOMAIN Flushed(l, ok) = Fields /\ Flushed(l, ok).disk.files = l.disk.files
        /\ Flushed(l, ok).written = l.written
        /\ Flushed(l, ok).drain = l.drain
    BY <1>1, <2>1 DEF Fields
  <2> QED BY <1>1, <2>2 DEF DiskOK
<1> QED BY <1>2, <1>3

(* The exit hooks of a process whose drain is idle.                         *)
LEMMA ExitsOK ==
    ASSUME MaxBackups > 0, NEW l, QueueOK(l), l.drain = Idle, NEW lines \in Nat,
           NEW ok \in BOOLEAN, NEW x \in Exits(l, lines, ok)
    PROVE  Shelf(x.disk.files, x.written)
<1>1. PICK last : last = [k \in 1..lines |-> l.logged + k]
  OBVIOUS
<1>2. PICK more : more = [l EXCEPT !.logged = @ + lines, !.queue = @ \o last]
  OBVIOUS
<1>3. x \in {Flushed(InFlight(more), ok), InFlight(Flushed(more, ok)),
             [Flushed(more, ok) EXCEPT !.drain = Idle]}
  BY <1>1, <1>2 DEF Exits
<1>4. PICK q : q = l.queue \o last
  OBVIOUS
<1>5. /\ DOMAIN l = Fields /\ l.logged \in Nat /\ l.queue \in Seq(Nat) /\ Rising(l.queue)
      /\ \A m \in l.written : m <= l.logged
      /\ \A k \in DOMAIN l.queue : l.queue[k] <= l.logged /\ l.queue[k] \in Nat
      /\ DiskOK(l.disk, l.written)
      /\ \A m \in l.written, k \in DOMAIN l.queue : m < l.queue[k]
      /\ l.written \in SUBSET Nat
  BY DEF QueueOK, LinesOK, DiskOK, Shelf
<1>6. PICK L \in Nat : L = Len(l.queue) /\ DOMAIN l.queue = 1..L
  BY <1>5
<1>7. last \in Seq(Nat) /\ Len(last) = lines /\ \A k \in 1..lines : last[k] = l.logged + k
  BY <1>1, <1>5
<1>8. /\ q \in Seq(Nat) /\ DOMAIN q = 1..(L + lines)
      /\ \A k \in 1..L : q[k] = l.queue[k]
      /\ \A k \in 1..(L + lines) : k > L => q[k] = l.logged + (k - L)
  <2>1. q \in Seq(Nat) /\ Len(q) = L + lines
    <3>1. PICK p : p = l.queue
      OBVIOUS
    <3>2. p \in Seq(Nat) /\ last \in Seq(Nat) /\ q = p \o last
      BY <1>4, <1>5, <1>7, <3>1
    <3>3. q \in Seq(Nat) /\ Len(q) = Len(p) + Len(last)
      BY <3>2
    <3> QED BY <1>6, <1>7, <3>1, <3>3
  <2>2. \A k \in 1..L : q[k] = l.queue[k]
    BY <1>4, <1>5, <1>6, <1>7
  <2>3. ASSUME NEW k \in 1..(L + lines), k > L PROVE q[k] = l.logged + (k - L)
    <3>1. k - L \in 1..lines
      BY <1>6, <2>3
    <3>2. q[k] = last[k - L]
      BY <1>4, <1>5, <1>6, <1>7, <2>3
    <3> QED BY <1>7, <3>1, <3>2
  <2> QED BY <2>1, <2>2, <2>3
<1>9. ASSUME NEW k \in 1..(L + lines)
      PROVE  q[k] <= l.logged + lines /\ \A m \in l.written : m < q[k]
  <2>1. CASE k > L
    <3>1. q[k] = l.logged + (k - L) /\ k - L \in 1..lines
      BY <1>6, <1>8, <2>1
    <3>2. /\ l.logged \in Nat
          /\ \A m \in l.written : m \in Nat /\ m <= l.logged
      BY <1>5
    <3> QED BY <3>1, <3>2
  <2>2. CASE ~ k > L
    <3>1. k \in 1..L /\ q[k] = l.queue[k]
      BY <1>6, <1>8, <2>2
    <3>2. /\ l.queue[k] <= l.logged /\ l.queue[k] \in Nat /\ l.logged \in Nat
          /\ \A m \in l.written : m < l.queue[k]
      BY <1>5, <1>6, <3>1
    <3> QED BY <3>1, <3>2
  <2> QED BY <2>1, <2>2
<1>10. Rising(q)
  <2> SUFFICES ASSUME NEW j \in 1..(L + lines), NEW k \in 1..(L + lines), j < k
               PROVE  q[j] < q[k]
    BY <1>8 DEF Rising
  <2>1. CASE k <= L
    <3>1. j \in 1..L /\ k \in 1..L
      BY <1>6, <2>1
    <3> QED BY <1>5, <1>6, <1>8, <3>1 DEF Rising
  <2>2. CASE k > L /\ j <= L
    <3>1. j \in 1..L /\ q[j] = l.queue[j] /\ q[k] = l.logged + (k - L) /\ k - L \in 1..lines
      BY <1>6, <1>8, <2>2
    <3>2. l.queue[j] <= l.logged /\ l.queue[j] \in Nat /\ l.logged \in Nat
      BY <1>5, <1>6, <3>1
    <3> QED BY <3>1, <3>2
  <2>3. CASE j > L
    <3>1. k > L /\ j \in Nat /\ k \in Nat /\ L \in Nat /\ l.logged \in Nat
      BY <1>5, <1>6, <2>3
    <3>2. q[j] = l.logged + (j - L) /\ q[k] = l.logged + (k - L)
      BY <1>8, <2>3, <3>1
    <3> QED BY <3>1, <3>2
  <2> QED BY <1>6, <2>1, <2>2, <2>3
<1>11. /\ DOMAIN more = Fields /\ more.logged = l.logged + lines /\ more.queue = q
       /\ more.written = l.written /\ more.disk = l.disk /\ more.drain = Idle
  BY <1>2, <1>4, <1>5 DEF Fields
<1>12. QueueOK(more)
  BY <1>5, <1>8, <1>9, <1>10, <1>11 DEF QueueOK, LinesOK
<1>13. CASE x = Flushed(InFlight(more), ok)
  <2>1. PICK y : y = InFlight(more)
    OBVIOUS
  <2>2. y = [more EXCEPT !.drain = Idle]
    BY <1>11, <2>1 DEF InFlight, Idle
  <2>3. /\ DOMAIN y = Fields /\ y.logged = more.logged /\ y.queue = more.queue
        /\ y.written = more.written /\ y.disk = more.disk
    BY <1>11, <2>2 DEF Fields
  <2>4. QueueOK(y)
    BY <1>12, <2>3 DEF QueueOK, LinesOK
  <2> QED BY <1>13, <2>1, <2>4, FlushedOK
<1>14. CASE x \in {InFlight(Flushed(more, ok)), [Flushed(more, ok) EXCEPT !.drain = Idle]}
  <2>1. PICK y : y = Flushed(more, ok)
    OBVIOUS
  <2>2. DOMAIN y = Fields /\ Shelf(y.disk.files, y.written) /\ y.drain = Idle
    BY <1>11, <1>12, <2>1, FlushedOK
  <2>3. x = [y EXCEPT !.drain = Idle]
    BY <1>14, <2>1, <2>2 DEF InFlight, Idle
  <2> QED BY <2>2, <2>3 DEF Fields
<1> QED BY <1>3, <1>13, <1>14

-----------------------------------------------------------------------------

(* The log of a process that starts.                                        *)
LEMMA NewLogOK == MaxBackups > 0 => QueueOK(NewLog) /\ DrainOK(NewLog)
<1> SUFFICES ASSUME MaxBackups > 0 PROVE QueueOK(NewLog) /\ DrainOK(NewLog)
  OBVIOUS
<1>1. PICK f : f = [s \in Slots |-> <<>>]
  OBVIOUS
<1>2. 0 \in Slots /\ 1 \in Slots
  BY LogAssumption DEF Slots
<1>3. f \in [Slots -> Seq(Nat)] /\ \A s \in Slots : f[s] = <<>> /\ DOMAIN f[s] = {}
  BY <1>1
<1>4. Shelf(f, {})
  BY <1>2, <1>3, FS_EmptySet DEF Shelf, Latest
<1>5. /\ DOMAIN NewLog = Fields /\ NewLog.logged = 0 /\ NewLog.queue = <<>>
      /\ NewLog.written = {} /\ NewLog.drain = Idle
      /\ NewLog.disk = [size |-> Unknown, files |-> f]
  BY <1>1 DEF NewLog, Fields
<1>6. DiskOK(NewLog.disk, {})
  BY <1>4, <1>5 DEF DiskOK
<1>7. <<>> \in Seq(Nat) /\ DOMAIN <<>> = {}
  OBVIOUS
<1> QED BY <1>5, <1>6, <1>7 DEF QueueOK, LinesOK, DrainOK, Idle, Rising

(* The log of a process that runs, and what it leaves unless it is forced.  *)
RotInv ==
    MaxBackups > 0 =>
        /\ exit = "running" => QueueOK(log) /\ DrainOK(log)
        /\ exit # "forced" => Shelf(log.disk.files, log.written)

LEMMA RotInvNext ==
    ASSUME RotInv, [Next]_vars PROVE RotInv'
<1> SUFFICES ASSUME MaxBackups > 0
             PROVE  /\ exit' = "running" => QueueOK(log') /\ DrainOK(log')
                    /\ exit' # "forced" => Shelf(log'.disk.files, log'.written)
  BY DEF RotInv, QueueOK, LinesOK, DrainOK, DiskOK, Shelf, Latest, On, Rising
<1>0. /\ exit = "running" => QueueOK(log) /\ DrainOK(log)
      /\ exit # "forced" => Shelf(log.disk.files, log.written)
  BY DEF RotInv
<1>a. ASSUME NEW l, QueueOK(l) PROVE Shelf(l.disk.files, l.written)
  BY <1>a DEF QueueOK, LinesOK, DiskOK
<1>1. CASE running /\ (log' = log \/ Says)
  <2>1. PICK l : l = log'
    OBVIOUS
  <2>2. QueueOK(l) /\ DrainOK(l)
    BY <1>0, <1>1, <2>1, LoggedOK DEF running, Says
  <2> QED BY <1>a, <2>1, <2>2
<1>2. CASE Drain
  <2> PICK ok \in BOOLEAN : log' = Drained(log, ok)
    BY <1>2 DEF Drain
  <2>1. QueueOK(log) /\ DrainOK(log)
    BY <1>0, <1>2 DEF Drain, running
  <2>2. QueueOK(log') /\ DrainOK(log')
    BY <2>1, DrainedOK
  <2> QED BY <1>a, <2>2
<1>3. CASE Deadline
  BY <1>3 DEF Deadline
<1>4. CASE ProcessEnds
  <2>1. exit = "running" /\ exit' = "clean" /\ log.drain = Idle
    BY <1>4 DEF ProcessEnds, LoopEmpty
  <2>2. Shelf(log'.disk.files, log'.written)
    <3>1. CASE hosted
      BY <1>0, <1>4, <2>1, <3>1 DEF ProcessEnds
    <3>2. CASE ~hosted
      <4>1. PICK ok \in BOOLEAN : log' \in Exits(log, 2, ok)
        BY <1>4, <3>2 DEF ProcessEnds
      <4> QED BY <1>0, <2>1, <4>1, ExitsOK
    <3> QED BY <3>1, <3>2
  <2> QED BY <2>1, <2>2
<1>5. CASE UNCHANGED vars
  BY <1>0, <1>5 DEF vars
<1>6. ASSUME NEW r \in Requests, Client(r) \/ Handle(r)
      PROVE  running /\ (log' = log \/ Says)
  BY <1>6 DEF Client, Handle, Arrive, Disconnect, Sent, Answer, Mutate, manualOne, MaySay
<1>7. tick \/ Background \/ Diagnose \/ Signal \/ ServerClosed \/ cleanup =>
        running /\ (log' = log \/ Says)
  BY DEF tick, Background, perform, Generated, mutate, MaySay, Diagnose, Signal, ServerClosed,
         cleanup
<1> QED BY <1>1, <1>2, <1>3, <1>4, <1>5, <1>6, <1>7 DEF Next

(* Rotation never costs the newest lines and keeps the order in which they  *)
(* were logged, whatever file operations fail on the way, unless the exit   *)
(* is forced (rotate, writeEntrySync, flushSync).                           *)
THEOREM TheNewestLinesAreKept == Spec => []RotationKeepsTheNewest
<1>1. Init => RotInv
  BY NewLogOK DEF Init, RotInv, QueueOK, LinesOK, DiskOK
<1>2. RotInv => RotationKeepsTheNewest
  <2> SUFFICES ASSUME RotInv, exit # "forced", MaxBackups > 0
               PROVE  /\ \A n \in Newest : \E s \in Slots : n \in ToSet(log.disk.files[s])
                      /\ \A s, t \in Slots :
                          \A i \in DOMAIN log.disk.files[s], j \in DOMAIN log.disk.files[t] :
                            s > t \/ (s = t /\ i < j) =>
                                log.disk.files[s][i] < log.disk.files[t][j]
    BY DEF RotationKeepsTheNewest
  <2>1. Shelf(log.disk.files, log.written)
    BY DEF RotInv
  <2>2. Newest = Latest(log.written)
    BY DEF Newest, Latest
  <2>3. 0 \in Slots /\ 1 \in Slots
    BY LogAssumption DEF Slots
  <2>4. \A n \in Newest : \E s \in Slots : n \in ToSet(log.disk.files[s])
    BY <2>1, <2>2, <2>3 DEF Shelf, On, ToSet
  <2> QED BY <2>1, <2>4 DEF Shelf
<1> QED BY <1>1, <1>2, RotInvNext, PTL DEF Spec

-----------------------------------------------------------------------------
(* The types.                                                               *)

(* The steps of the logger keep its shape.                                  *)
LEMMA UpdatesAreTyped ==
    ASSUME NEW l \in Logs
    PROVE  /\ \A q \in Seq(Nat) : [l EXCEPT !.queue = q] \in Logs
           /\ \A d \in Drains : [l EXCEPT !.drain = d] \in Logs
           /\ \A d \in Disks : [l EXCEPT !.disk = d] \in Logs
           /\ \A n \in Nat : [l EXCEPT !.logged = n] \in Logs
           /\ \A n \in Nat : [l EXCEPT !.faults = n] \in Logs
           /\ \A W \in SUBSET Nat : [l EXCEPT !.written = W] \in Logs
           /\ \A W \in SUBSET Nat : [l EXCEPT !.dropped = W] \in Logs
BY DEF Logs

LEMMA TakenIsTyped ==
    ASSUME NEW l \in Logs PROVE Taken(l) \in Logs
<1>1. Idle \in Drains
  BY LogAssumption DEF Idle, Drains, Slots
<1>2. CASE l.queue = <<>>
  BY <1>1, <1>2, UpdatesAreTyped DEF Taken
<1>3. CASE l.queue # <<>>
  <2>1. Head(l.queue) \in Nat /\ MaxBackups \in Slots
    BY <1>3, LogAssumption DEF Logs, Slots
  <2>2. [at |-> IF l.disk.size = Unknown THEN "stat" ELSE Sized(l.disk.size),
         line |-> Head(l.queue), slot |-> MaxBackups] \in Drains
    BY <2>1 DEF Drains, Sized
  <2> QED BY <1>3, <2>2, UpdatesAreTyped DEF Taken
<1> QED BY <1>2, <1>3

LEMMA MovedIsTyped ==
    ASSUME NEW files \in [Slots -> Seq(Nat)], NEW k \in Slots
    PROVE  Moved(files, k) \in [Slots -> Seq(Nat)]
<1>1. k # MaxBackups => k + 1 \in Slots
  BY LogAssumption DEF Slots
<1>2. <<>> \in Seq(Nat)
  OBVIOUS
<1> QED BY <1>1, <1>2 DEF Moved

LEMMA DrainedIsTyped ==
    ASSUME NEW l \in Logs, NEW ok \in BOOLEAN
    PROVE  Drained(l, ok) \in Logs
<1>1. PICK m : m = [l EXCEPT !.faults = IF ok THEN @ ELSE @ + 1]
  OBVIOUS
<1>2. m \in Logs /\ m.disk \in Disks /\ m.drain \in Drains /\ m.queue \in Seq(Nat)
      /\ m.written \in SUBSET Nat /\ m.dropped \in SUBSET Nat
  <2>1. (IF ok THEN l.faults ELSE l.faults + 1) \in Nat
    BY DEF Logs
  <2>2. m \in Logs
    BY <1>1, <2>1, UpdatesAreTyped
  <2> QED BY <2>2 DEF Logs
<1>3. /\ m.disk.files \in [Slots -> Seq(Nat)] /\ m.disk.size \in Nat \cup {Unknown}
      /\ 0 \in Slots /\ m.drain.slot \in Slots /\ m.drain.line \in Nat
  BY <1>2, LogAssumption DEF Disks, Drains, Slots
<1>s. ASSUME NEW files \in [Slots -> Seq(Nat)], NEW size \in Nat \cup {Unknown}
      PROVE  [size |-> size, files |-> files] \in Disks
  BY DEF Disks
<1>4. readSize(m, ok) \in Logs
  <2>1. PICK size : size = IF ok THEN Len(m.disk.files[0]) ELSE Unknown
    OBVIOUS
  <2>2. size \in Nat \cup {Unknown}
    BY <1>3, <2>1
  <2>3. [m.disk EXCEPT !.size = size] \in Disks
    BY <1>2, <2>2 DEF Disks
  <2>4. [m.drain EXCEPT !.at = Sized(size)] \in Drains
    BY <1>2 DEF Drains, Sized
  <2>5. readSize(m, ok) = [m EXCEPT !.disk.size = size, !.drain.at = Sized(size)]
    BY <2>1 DEF readSize
  <2> QED BY <1>2, <2>3, <2>4, <2>5 DEF Logs
<1>5. rotate(m, ok) \in Logs
  <2>1. PICK k, files : k = m.drain.slot /\ files = IF ok THEN Moved(m.disk.files, k) ELSE m.disk.files
    OBVIOUS
  <2>2. files \in [Slots -> Seq(Nat)] /\ k \in Slots
    BY <1>3, <2>1, MovedIsTyped
  <2>3. CASE k > 0
    <3>1. rotate(m, ok) = [m EXCEPT !.disk.files = files, !.drain.slot = k - 1]
      BY <2>1, <2>3 DEF rotate
    <3>2. [m.disk EXCEPT !.files = files] \in Disks
      BY <1>2, <2>2 DEF Disks
    <3>3. k - 1 \in Slots
      BY <2>2, <2>3, LogAssumption DEF Slots
    <3>4. [m.drain EXCEPT !.slot = k - 1] \in Drains
      BY <1>2, <3>3 DEF Drains
    <3> QED BY <1>2, <3>1, <3>2, <3>4 DEF Logs
  <2>4. CASE ~(k > 0)
    <3>1. PICK size : size = IF ok /\ m.disk.files[0] # <<>> THEN 0 ELSE Unknown
      OBVIOUS
    <3>2. rotate(m, ok) = [m EXCEPT !.disk.files = files, !.drain.at = "append", !.disk.size = size]
      BY <2>1, <2>4, <3>1 DEF rotate
    <3>3. [m.disk EXCEPT !.files = files, !.size = size] \in Disks
      BY <1>2, <2>2, <3>1 DEF Disks
    <3>4. [m.drain EXCEPT !.at = "append"] \in Drains
      BY <1>2 DEF Drains
    <3> QED BY <1>2, <3>2, <3>3, <3>4 DEF Logs
  <2> QED BY <2>3, <2>4
<1>6. append(m, ok) \in Logs
  <2>1. PICK n : n = m.drain.line
    OBVIOUS
  <2>2. PICK x : x = IF ok THEN [m EXCEPT !.disk.size = Grown(@), !.disk.files[0] = Append(@, n),
                                          !.written = @ \cup {n}]
                     ELSE [m EXCEPT !.disk.size = Unknown, !.dropped = @ \cup {n}]
    OBVIOUS
  <2>3. append(m, ok) = Taken(Shifted(x))
    BY <2>1, <2>2 DEF append
  <2>4. n \in Nat /\ m.written \cup {n} \in SUBSET Nat /\ m.dropped \cup {n} \in SUBSET Nat
    BY <1>2, <1>3, <2>1
  <2>5. x \in Logs
    <3>1. CASE ok
      <4>1. PICK files : files = [m.disk.files EXCEPT ![0] = Append(@, n)]
        OBVIOUS
      <4>2. PICK disk : disk = [m.disk EXCEPT !.size = Grown(@), !.files = files]
        OBVIOUS
      <4>3. Grown(m.disk.size) \in Nat \cup {Unknown} /\ files \in [Slots -> Seq(Nat)]
        BY <1>3, <2>4, <4>1 DEF Grown
      <4>4. disk \in Disks
        BY <1>2, <4>2, <4>3 DEF Disks
      <4>5. x = [m EXCEPT !.disk = disk, !.written = m.written \cup {n}]
        BY <1>2, <2>2, <3>1, <4>1, <4>2 DEF Logs, Disks
      <4> QED BY <1>2, <2>4, <4>4, <4>5 DEF Logs
    <3>2. CASE ~ok
      <4>1. [m.disk EXCEPT !.size = Unknown] \in Disks
        BY <1>2 DEF Disks
      <4> QED BY <1>2, <2>2, <2>4, <3>2, <4>1 DEF Logs
    <3> QED BY <3>1, <3>2
  <2>6. Shifted(x) \in Logs
    <3>1. x.queue \in Seq(Nat) /\ (x.queue # <<>> => Tail(x.queue) \in Seq(Nat))
      BY <2>5 DEF Logs
    <3> QED BY <2>5, <3>1, UpdatesAreTyped DEF Shifted
  <2> QED BY <2>3, <2>6, TakenIsTyped
<1> QED BY <1>1, <1>4, <1>5, <1>6 DEF Drained

LEMMA LoggedIsTyped ==
    ASSUME NEW l \in Logs PROVE lifecycleLog(l) \in Logs
<1>1. PICK n : n = l.logged + 1
  OBVIOUS
<1>2. PICK queue : queue = Append(l.queue, n)
  OBVIOUS
<1>3. PICK full : full = (Len(queue) > MaxQueued)
  OBVIOUS
<1>4. PICK rest, lost : rest = (IF full THEN Tail(queue) ELSE queue)
                        /\ lost = (IF full THEN l.dropped \cup {Head(queue)} ELSE l.dropped)
  OBVIOUS
<1>5. PICK queued : queued = [l EXCEPT !.logged = n, !.queue = rest, !.dropped = lost]
  OBVIOUS
<1>6. l.logged \in Nat /\ l.queue \in Seq(Nat) /\ l.dropped \in SUBSET Nat
  BY DEF Logs
<1>7. n \in Nat /\ queue \in Seq(Nat) /\ queue # <<>>
  BY <1>1, <1>2, <1>6
<1>8. Head(queue) \in Nat /\ Tail(queue) \in Seq(Nat)
  BY <1>7
<1>9. rest \in Seq(Nat) /\ lost \in SUBSET Nat
  BY <1>4, <1>6, <1>7, <1>8
<1>10. queued \in Logs
  BY <1>5, <1>7, <1>9 DEF Logs
<1>11. lifecycleLog(l) = IF l.drain = Idle THEN Taken(queued) ELSE queued
  BY <1>1, <1>2, <1>3, <1>4, <1>5 DEF lifecycleLog
<1> QED BY <1>10, <1>11, TakenIsTyped

LEMMA EntryIsTyped ==
    ASSUME NEW d \in Disks, NEW n \in Nat PROVE writeEntrySync(d, n) \in Disks
<1>1. d.files \in [Slots -> Seq(Nat)] /\ d.size \in Nat \cup {Unknown} /\ 0 \in Slots
  BY LogAssumption DEF Disks, Slots
<1>2. PICK size : size = IF d.size = Unknown THEN Len(d.files[0]) ELSE d.size
  OBVIOUS
<1>3. PICK turned : turned = [k \in Slots |-> IF k = 0 THEN <<>> ELSE d.files[k - 1]]
  OBVIOUS
<1>4. PICK files : files = IF needsRotation(size) THEN turned ELSE d.files
  OBVIOUS
<1>5. PICK known : known = IF ~needsRotation(size) THEN size
                           ELSE IF d.files[0] = <<>> THEN Unknown ELSE 0
  OBVIOUS
<1>6. writeEntrySync(d, n) = [size |-> Grown(known), files |-> [files EXCEPT ![0] = Append(@, n)]]
  BY <1>2, <1>3, <1>4, <1>5 DEF writeEntrySync
<1>7. turned \in [Slots -> Seq(Nat)]
  <2>1. \A k \in Slots : k # 0 => k - 1 \in Slots
    BY LogAssumption DEF Slots
  <2>2. <<>> \in Seq(Nat)
    OBVIOUS
  <2> QED BY <1>1, <1>3, <2>1, <2>2
<1>8. size \in Nat
  BY <1>1, <1>2
<1>9. Grown(known) \in Nat \cup {Unknown}
  BY <1>5, <1>8 DEF Grown, Unknown
<1>10. [files EXCEPT ![0] = Append(@, n)] \in [Slots -> Seq(Nat)]
  BY <1>1, <1>4, <1>7
<1> QED BY <1>6, <1>9, <1>10 DEF Disks

(* A flush writes line after line, so the first disk out of shape would be  *)
(* the work of a single line.                                               *)
LEMMA FoldIsTyped ==
    ASSUME NEW d \in Disks, NEW q \in Seq(Nat)
    PROVE  FoldLeft(writeEntrySync, d, q) \in Disks
<1>1. PICK n \in Nat : n = Len(q) /\ DOMAIN q = 1..n
  OBVIOUS
<1>e. PICK e : e = FoldLeft(writeEntrySync, d, q)
  OBVIOUS
<1>2. PICK g : /\ e = g[Len(q)]
               /\ g[0] = d
               /\ \A k \in 1..Len(q) : g[k] = writeEntrySync(g[k - 1], q[k])
  <2>1. LineByLine(d, q, e)
    BY <1>e, FoldedLineByLine
  <2> QED BY <2>1 DEF LineByLine
<1> DEFINE Bad == {k \in 0..n : g[k] \notin Disks}
<1>3. ASSUME Bad # {} PROVE FALSE
  <2>1. PICK k \in Bad : \A x \in Bad : k <= x
    <3>1. Bad \in SUBSET Nat
      OBVIOUS
    <3> QED BY <1>3, <3>1, LeastNumber
  <2>2. k # 0
    BY <1>2, <2>1
  <2>3. k \in 1..n /\ k - 1 \in 0..n /\ k - 1 \notin Bad
    <3>1. k \in 0..n
      BY <2>1
    <3>2. k \in 1..n /\ k - 1 \in 0..n /\ ~ k <= k - 1
      BY <2>2, <3>1
    <3> HIDE DEF Bad
    <3> QED BY <2>1, <3>2
  <2>4. PICK c, x : c = g[k - 1] /\ x = q[k]
    OBVIOUS
  <2>5. c \in Disks /\ x \in Nat /\ g[k] = writeEntrySync(c, x)
    BY <1>1, <1>2, <2>3, <2>4
  <2> QED BY <2>1, <2>5, EntryIsTyped
<1>4. g[n] \in Disks
  <2>1. n \in 0..n
    OBVIOUS
  <2> QED BY <1>3, <2>1
<1> QED BY <1>1, <1>2, <1>4, <1>e

LEMMA FlushedIsTyped ==
    ASSUME NEW l \in Logs, NEW ok \in BOOLEAN PROVE Flushed(l, ok) \in Logs
<1>1. /\ l.queue \in Seq(Nat) /\ l.disk \in Disks /\ l.written \in SUBSET Nat
      /\ l.dropped \in SUBSET Nat /\ <<>> \in Seq(Nat)
  BY DEF Logs
<1>2. PICK e : e = FoldLeft(writeEntrySync, l.disk, l.queue)
  OBVIOUS
<1>3. e \in Disks
  BY <1>1, <1>2, FoldIsTyped
<1>4. PICK W : W = ToSet(l.queue)
  OBVIOUS
<1>5. W \in SUBSET Nat
  BY <1>1, <1>4 DEF ToSet
<1>6. CASE ok
  <2>1. Flushed(l, ok) = [l EXCEPT !.queue = <<>>, !.disk = e, !.written = @ \cup W]
    BY <1>2, <1>4, <1>6 DEF Flushed
  <2> QED BY <1>1, <1>3, <1>5, <2>1 DEF Logs
<1>7. CASE ~ok
  <2>1. Flushed(l, ok) = [l EXCEPT !.queue = <<>>, !.disk.size = Unknown, !.dropped = @ \cup W]
    BY <1>4, <1>7 DEF Flushed
  <2>2. [l.disk EXCEPT !.size = Unknown] \in Disks
    BY <1>1 DEF Disks
  <2> QED BY <1>1, <1>5, <2>1, <2>2 DEF Logs
<1> QED BY <1>6, <1>7

LEMMA InFlightIsTyped ==
    ASSUME NEW l \in Logs PROVE InFlight(l) \in Logs
<1>1. /\ l.disk \in Disks /\ l.disk.files \in [Slots -> Seq(Nat)] /\ 0 \in Slots
      /\ l.drain.slot \in Slots /\ l.drain.line \in Nat /\ Idle \in Drains
  BY LogAssumption DEF Logs, Disks, Drains, Slots, Idle
<1>2. CASE l.drain.at = "rotate"
  <2>1. PICK files : files = Moved(l.disk.files, l.drain.slot)
    OBVIOUS
  <2>2. [l.disk EXCEPT !.files = files] \in Disks
    BY <1>1, <2>1, MovedIsTyped DEF Disks
  <2>3. InFlight(l) = [l EXCEPT !.disk.files = files, !.drain = Idle]
    BY <1>2, <2>1 DEF InFlight
  <2> QED BY <1>1, <2>2, <2>3 DEF Logs
<1>3. CASE l.drain.at = "append"
  <2>1. PICK files : files = [l.disk.files EXCEPT ![0] = Append(@, l.drain.line)]
    OBVIOUS
  <2>2. files \in [Slots -> Seq(Nat)]
    BY <1>1, <2>1
  <2>3. [l.disk EXCEPT !.files = files] \in Disks
    BY <1>1, <2>2 DEF Disks
  <2>4. InFlight(l) = [l EXCEPT !.disk.files[0] = Append(@, l.drain.line), !.drain = Idle]
    BY <1>3 DEF InFlight
  <2>5. InFlight(l) = [l EXCEPT !.disk = [l.disk EXCEPT !.files = files], !.drain = Idle]
    BY <1>1, <2>1, <2>4 DEF Logs
  <2> QED BY <1>1, <2>3, <2>5 DEF Logs
<1>4. CASE l.drain.at \notin {"rotate", "append"}
  BY <1>1, <1>4, UpdatesAreTyped DEF InFlight
<1> QED BY <1>2, <1>3, <1>4

(* So do the exit hooks, in whatever order the operation in flight ends.    *)
LEMMA ExitsAreTyped ==
    ASSUME NEW l \in Logs, NEW lines \in Nat, NEW ok \in BOOLEAN
    PROVE  Exits(l, lines, ok) \subseteq Logs
<1>1. PICK more : more = [l EXCEPT !.logged = @ + lines,
                                   !.queue = @ \o [k \in 1..lines |-> l.logged + k]]
  OBVIOUS
<1>2. l.logged + lines \in Nat /\ l.queue \o [k \in 1..lines |-> l.logged + k] \in Seq(Nat)
  <2>1. l.logged \in Nat /\ l.queue \in Seq(Nat)
    BY DEF Logs
  <2>2. [k \in 1..lines |-> l.logged + k] \in Seq(Nat)
    BY <2>1
  <2> QED BY <2>1, <2>2
<1>3. more \in Logs
  BY <1>1, <1>2 DEF Logs
<1>4. Exits(l, lines, ok) = {Flushed(InFlight(more), ok), InFlight(Flushed(more, ok)),
                             [Flushed(more, ok) EXCEPT !.drain = Idle]}
  BY <1>1 DEF Exits
<1>5. Idle \in Drains
  BY LogAssumption DEF Idle, Drains, Slots
<1> QED BY <1>3, <1>4, <1>5, FlushedIsTyped, InFlightIsTyped, UpdatesAreTyped

(* Requests and queues have their types by ProcessInv.                      *)
LEMMA TypesNext ==
    ASSUME TypeOK, ProcessInv, [Next]_vars
    PROVE  TypeOK'
<1> DEFINE Flags == exit \in {"running", "clean", "forced"} /\ hosted \in BOOLEAN
                    /\ stopped \in BOOLEAN
           Stages == /\ server \in {"open", "closing", "closed"}
                     /\ stage \in {"idle", "claim", "apple", "settle"}
                     /\ shutdown \in {"none", "server", "background", "store", "log", "complete"}
                     /\ awaited \in Nat
<1>1. WorkTypeOK'
  BY ProcessInvNext DEF ProcessInv
<1>2. log \in Logs /\ Flags /\ Stages /\ storeQueue \in Seq(Owners)
  BY DEF TypeOK
<1>3. Says => log' \in Logs
  BY <1>2, LoggedIsTyped DEF Says
<1>4. MaySay => log' \in Logs
  BY <1>2, <1>3 DEF MaySay
<1>5. log' \in Logs
  <2>1. ASSUME NEW r \in Requests, Client(r) \/ Handle(r) PROVE log' \in Logs
    BY <1>2, <1>4, <2>1 DEF Client, Handle, Arrive, Disconnect, Sent, Answer, Mutate, manualOne
  <2>2. CASE tick \/ Diagnose \/ Signal \/ ServerClosed \/ cleanup
    BY <1>2, <1>3, <2>2 DEF tick, Diagnose, Signal, ServerClosed, cleanup
  <2>3. CASE Background
    BY <1>2, <1>4, <2>3 DEF Background, perform, Generated, mutate
  <2>4. CASE Drain
    BY <1>2, <2>4, DrainedIsTyped DEF Drain
  <2>5. CASE Deadline
    <3>1. CASE hosted
      BY <1>2, <2>5, <3>1 DEF Deadline
    <3>2. CASE ~hosted
      BY <1>2, <2>5, <3>2, LoggedIsTyped, ExitsAreTyped DEF Deadline
    <3> QED BY <3>1, <3>2
  <2>6. CASE ProcessEnds
    <3>1. CASE hosted
      BY <1>2, <2>6, <3>1 DEF ProcessEnds
    <3>2. CASE ~hosted
      BY <1>2, <2>6, <3>2, ExitsAreTyped DEF ProcessEnds
    <3> QED BY <3>1, <3>2
  <2>7. CASE UNCHANGED vars
    BY <1>2, <2>7 DEF vars
  <2> QED BY <2>1, <2>2, <2>3, <2>4, <2>5, <2>6, <2>7 DEF Next
<1>6. Flags'
  <2>1. ASSUME NEW r \in Requests, Client(r) \/ Handle(r) PROVE UNCHANGED <<exit, hosted, stopped>>
    BY <2>1 DEF Client, Handle, Arrive, Disconnect, Sent, Answer, Mutate, manualOne, running
  <2>2. CASE tick \/ Diagnose \/ ServerClosed \/ cleanup \/ Background \/ Drain
    <3>1. UNCHANGED <<exit, hosted, stopped>>
      BY <2>2 DEF tick, Diagnose, ServerClosed, cleanup, Background, perform, Generated, mutate,
                  Drain, running
    <3> QED BY <1>2, <3>1
  <2>3. CASE Signal
    <3>1. UNCHANGED <<exit, hosted>> /\ stopped' = TRUE
      BY <2>3 DEF Signal, running
    <3> QED BY <1>2, <3>1
  <2>4. CASE Deadline \/ ProcessEnds
    <3>1. UNCHANGED <<hosted, stopped>> /\ exit' \in {"forced", "clean"}
      BY <2>4 DEF Deadline, ProcessEnds
    <3> QED BY <1>2, <3>1
  <2>5. CASE UNCHANGED vars
    BY <1>2, <2>5 DEF vars
  <2> QED BY <1>2, <2>1, <2>2, <2>3, <2>4, <2>5 DEF Next
<1>7. Stages'
  <2>1. ASSUME NEW r \in Requests, Client(r) \/ Handle(r)
        PROVE  UNCHANGED <<server, stage, shutdown, awaited>>
    BY <2>1 DEF Client, Handle, Arrive, Disconnect, Sent, Answer, Mutate, manualOne, ending
  <2>2. CASE tick \/ Diagnose \/ Drain \/ Deadline \/ ProcessEnds
    <3>1. UNCHANGED <<server, stage, shutdown, awaited>>
      BY <2>2 DEF tick, Diagnose, Drain, Deadline, ProcessEnds, work, ending
    <3> QED BY <1>2, <3>1
  <2>3. CASE Signal \/ ServerClosed
    <3>1. UNCHANGED <<stage, awaited>> /\ server' \in {"closing", "closed"}
          /\ shutdown' \in {shutdown, "background", "server"}
      BY <2>3 DEF Signal, ServerClosed, work, ending
    <3> QED BY <1>2, <3>1
  <2>4. CASE Background
    <3>1. UNCHANGED <<server, shutdown>>
      BY <2>4 DEF Background, perform, Generated, mutate, ending
    <3>2. stage' \in {stage, "idle", "claim", "apple", "settle"}
      BY <2>4 DEF Background, perform, Generated, mutate, TurnEnds
    <3>3. awaited' \in Nat
      BY <1>2, <2>4 DEF Background, perform, Generated, mutate, ending
    <3> QED BY <1>2, <3>1, <3>2, <3>3
  <2>5. CASE cleanup
    <3>1. Len(storeQueue) \in Nat
      BY <1>2
    <3>2. UNCHANGED <<server, stage>>
      BY <2>5 DEF cleanup
    <3>3. shutdown' \in {"background", "store", "log", "complete"}
      BY <2>5 DEF cleanup, AfterServer, AfterBackground, AfterStore, AfterLog
    <3>4. awaited' \in Nat
      BY <1>2, <2>5, <3>1 DEF cleanup, AfterServer, AfterBackground, AfterStore, AfterLog
    <3> QED BY <1>2, <3>2, <3>3, <3>4
  <2>6. CASE UNCHANGED vars
    BY <1>2, <2>6 DEF vars, work, ending
  <2> QED BY <1>2, <2>1, <2>2, <2>3, <2>4, <2>5, <2>6 DEF Next
<1> QED BY <1>1, <1>5, <1>6, <1>7 DEF TypeOK, WorkTypeOK

(* Log, files, requests, queues, stages and shutdown keep their types in    *)
(* both editions, with any number of backups, none included, and whatever   *)
(* exit hooks run.                                                          *)
THEOREM TypeCorrect == Spec => []TypeOK
<1>1. ASSUME Init PROVE TypeOK
  <2>1. NewLog \in Logs
    <3>1. Idle \in Drains /\ <<>> \in Seq(Nat) /\ {} \in SUBSET Nat
      BY LogAssumption DEF Idle, Drains, Slots
    <3>2. [size |-> Unknown, files |-> [s \in Slots |-> <<>>]] \in Disks
      BY <3>1 DEF Disks
    <3> QED BY <3>1, <3>2 DEF NewLog, Logs
  <2>2. WorkTypeOK
    BY <1>1, ProcessInvInit DEF ProcessInv
  <2>3. hosted \in BOOLEAN /\ stopped \in BOOLEAN /\ awaited \in Nat
    BY <1>1 DEF Init
  <2>4. /\ log = NewLog /\ exit = "running" /\ server = "open" /\ stage = "idle" /\ shutdown = "none"
    BY <1>1 DEF Init
  <2> QED BY <2>1, <2>2, <2>3, <2>4 DEF TypeOK, WorkTypeOK
<1>2. TypeOK /\ ProcessInv /\ [Next]_vars => TypeOK' /\ ProcessInv'
  BY TypesNext, ProcessInvNext
<1> QED BY <1>1, <1>2, ProcessInvInit, PTL DEF Spec

=============================================================================
