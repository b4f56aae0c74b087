---------------------------- MODULE LabelSequence ---------------------------
(***************************************************************************)
(* The numbers in the labels of new hidden addresses, hme-001 and on, for  *)
(* one prefix: generateHideMyEmail and nextReservedHideMyEmailLabel of the *)
(* local edition (server.mjs), AccountICloud.generate of the hosted one    *)
(* (lib/hosted/icloud.mjs).                                                *)
(*                                                                         *)
(* The local edition lets Apple mint an address, takes the next number     *)
(* from a file under a queue, and reserves the address with it.  The       *)
(* hosted edition takes the number first, in a mutation of its store.      *)
(* Requests fail, their answers are lost, and the process restarts.        *)
(***************************************************************************)
EXTENDS Naturals, Sequences

CONSTANTS
    Generations,    \* generations
    MaxNumber,      \* bound on the numbers a caller asks for
    MaxRestarts     \* bound on the restarts

ASSUME LabelAssumption == MaxNumber \in Nat /\ MaxRestarts \in Nat

VARIABLES
    generation,     \* where each generation is
    sequence,       \* the number on disk; 0: no file, no entry
    labelQueue,     \* the local queue of the sequence file
    known,          \* the highest number the inventory has
    labels,         \* at Apple: the addresses reserved, with their numbers
    restarts,
    hostedLabels    \* which edition runs

labelVars == <<generation, sequence, labelQueue, known, labels, restarts, hostedLabels>>

GenerationStates ==
    [at : {"none", "minting", "queued", "read", "labelled", "reserving", "ended"},
     wanted : Nat, number : Nat]

LabelTypeOK ==
    /\ generation \in [Generations -> GenerationStates]
    /\ sequence \in Nat
    /\ labelQueue \in Seq(Generations)
    /\ known \in Nat
    /\ labels \subseteq (Generations \X Nat)
    /\ restarts \in 0..MaxRestarts
    /\ hostedLabels \in BOOLEAN

LabelInit ==
    /\ generation = [g \in Generations |-> [at |-> "none", wanted |-> 0, number |-> 0]]
    /\ sequence = 0 /\ labelQueue = <<>>
    /\ known \in 0..MaxNumber
    /\ labels = {}
    /\ restarts = 0
    /\ hostedLabels \in BOOLEAN

Larger(a, b) == IF a > b THEN a ELSE b

Goes(g, at) == generation' = [generation EXCEPT ![g].at = at]

-----------------------------------------------------------------------------
(* The local edition.                                                       *)

generateHideMyEmail(g) ==
    /\ ~hostedLabels
    /\ generation[g].at = "none"
    /\ \E n \in 1..MaxNumber :
        generation' = [generation EXCEPT ![g] = [@ EXCEPT !.at = "minting", !.wanted = n]]
    /\ UNCHANGED <<sequence, labelQueue, known, labels, restarts, hostedLabels>>

(* Apple has minted the address; the generation waits for a number.         *)
Minted(g) ==
    /\ generation[g].at = "minting"
    /\ Goes(g, "queued")
    /\ labelQueue' = Append(labelQueue, g)
    /\ UNCHANGED <<sequence, known, labels, restarts, hostedLabels>>

Turn_Shared(g) == \E k \in DOMAIN labelQueue : labelQueue[k] = g       \* mutant

Turn(g) == labelQueue # <<>> /\ Head(labelQueue) = g

NextNumber(g) == Larger(sequence + 1, generation[g].wanted)

ReadSequence(g) ==
    /\ generation[g].at = "queued" /\ Turn(g)
    /\ generation' = [generation EXCEPT ![g].at = "read", ![g].number = NextNumber(g)]
    /\ UNCHANGED <<sequence, labelQueue, known, labels, restarts, hostedLabels>>

Leaves == labelQueue' = Tail(labelQueue)

WriteSequence(g) ==
    /\ generation[g].at = "read"
    /\ sequence' = generation[g].number
    /\ Goes(g, "labelled") /\ Leaves
    /\ UNCHANGED <<known, labels, restarts, hostedLabels>>

(* The file is corrupt, or cannot be written.                               *)
SequenceFails(g) ==
    /\ generation[g].at \in {"queued", "read"} /\ Turn(g)
    /\ Goes(g, "ended") /\ Leaves
    /\ UNCHANGED <<sequence, known, labels, restarts, hostedLabels>>

-----------------------------------------------------------------------------
(* The hosted edition: the number is durable before the first request.      *)

generate(g) ==
    /\ hostedLabels
    /\ generation[g].at = "none"
    /\ \E n \in 1..MaxNumber :
        LET number == Larger(Larger(sequence, known), n - 1) + 1
        IN  /\ sequence' = number
            /\ generation' = [generation EXCEPT ![g] =
                                [at |-> "labelled", wanted |-> n, number |-> number]]
    /\ UNCHANGED <<labelQueue, known, labels, restarts, hostedLabels>>

-----------------------------------------------------------------------------
(* The reservation, which the local edition sends again, with the same      *)
(* address and number, when its answer is lost; Apple keeps the first.      *)
Reserve(g) ==
    /\ generation[g].at \in {"labelled", "reserving"}
    /\ Goes(g, "reserving")
    /\ labels' = labels \cup {<<g, generation[g].number>>}
    /\ UNCHANGED <<sequence, labelQueue, known, restarts, hostedLabels>>

(* The answer, or the last failure; the inventory gets the address.         *)
Reserved(g) ==
    /\ generation[g].at = "reserving"
    /\ Goes(g, "ended")
    /\ known' = Larger(known, generation[g].number)
    /\ UNCHANGED <<sequence, labelQueue, labels, restarts, hostedLabels>>

GenerationFails(g) ==
    /\ generation[g].at \in {"minting", "labelled", "reserving"}
    /\ Goes(g, "ended")
    /\ UNCHANGED <<sequence, labelQueue, known, labels, restarts, hostedLabels>>

(* The process restarts; a reservation it had sent may still arrive.        *)
RestartLabels ==
    /\ restarts < MaxRestarts
    /\ restarts' = restarts + 1
    /\ \E late \in SUBSET {g \in Generations : generation[g].at = "labelled"} :
        labels' = labels \cup {<<g, generation[g].number>> : g \in late}
    /\ generation' = [g \in Generations |->
            IF generation[g].at = "none" THEN generation[g]
            ELSE [generation[g] EXCEPT !.at = "ended"]]
    /\ labelQueue' = <<>>
    /\ UNCHANGED <<sequence, known, hostedLabels>>

LabelStep(g) ==
    \/ generateHideMyEmail(g) \/ Minted(g) \/ ReadSequence(g) \/ WriteSequence(g)
    \/ SequenceFails(g) \/ generate(g)
    \/ Reserve(g) \/ Reserved(g) \/ GenerationFails(g)

LabelNext == RestartLabels \/ \E g \in Generations : LabelStep(g)

LabelSpec == LabelInit /\ [][LabelNext]_labelVars

-----------------------------------------------------------------------------
(* No number is ever reserved for two addresses, whatever generations run   *)
(* at once, fail between number and reservation, are sent twice or are cut  *)
(* off by a restart (nextReservedHideMyEmailLabel, AccountICloud.generate). *)
NoLabelTwice ==
    \A a, b \in labels : a[2] = b[2] => a[1] = b[1]

=============================================================================
