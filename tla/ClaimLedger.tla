---------------------------- MODULE ClaimLedger ----------------------------
(***************************************************************************)
(* What POST /v1/claims and its release promise the jobs that call them: a *)
(* ledger of claims in which an address is held by one claim at a time and *)
(* a key stands for one claim until that claim is archived.  Every step is *)
(* atomic; files, crashes and the sweep do not show.                       *)
(***************************************************************************)
CONSTANTS Emails, ClaimIds, Keys, None

VARIABLES
    status,     \* "none", then "active", "released", "archived"
    address,    \* what an active or released claim is for
    claimOf     \* the claim a key stands for

ledger == <<status, address, claimOf>>

Init ==
    /\ status = [c \in ClaimIds |-> "none"]
    /\ address = [c \in ClaimIds |-> None]
    /\ claimOf = [k \in Keys |-> None]

With(s) == {c \in ClaimIds : status[c] = s}

(* Any step can also archive a set of claims that are released by then.     *)
Archive(S, st, addr, keys) ==
    /\ \A c \in S : st[c] = "released"
    /\ status' = [c \in ClaimIds |-> IF c \in S THEN "archived" ELSE st[c]]
    /\ address' = [c \in ClaimIds |-> IF c \in S THEN None ELSE addr[c]]
    /\ claimOf' = [k \in Keys |-> IF keys[k] \in S THEN None ELSE keys[k]]

Claim(k, e, c, S) ==
    /\ claimOf[k] = None
    /\ status[c] = "none"
    /\ \A d \in With("active") : address[d] # e
    /\ Archive(S, [status EXCEPT ![c] = "active"], [address EXCEPT ![c] = e],
               [claimOf EXCEPT ![k] = c])

Release(c, S) ==
    /\ status[c] = "active"
    /\ Archive(S, [status EXCEPT ![c] = "released"], address, claimOf)

Forget(S) == Archive(S, status, address, claimOf)

Next ==
    \E S \in SUBSET ClaimIds :
        \/ \E k \in Keys, e \in Emails, c \in ClaimIds : Claim(k, e, c, S)
        \/ \E c \in ClaimIds : Release(c, S)
        \/ Forget(S)

Spec == Init /\ [][Next]_ledger

=============================================================================
