------------------------------- MODULE MCLocal ------------------------------
(* Four components that share no state in one run: each behaviour is one of *)
(* theirs, and the other three stay where they start.                       *)
EXTENDS CookieBridge, LabelSequence, MailboxScan, DashboardPage

VARIABLE part

Init ==
    /\ part \in {"bridge", "labels", "mailbox", "page"}
    /\ BridgeInit /\ LabelInit /\ MailboxInit /\ PageInit
    /\ part # "labels" => known = 0 /\ ~hostedLabels
    /\ part # "page" => rows = [r \in Rows |-> CHOOSE t \in Remarks : TRUE]

Next ==
    /\ UNCHANGED part
    /\ \/ part = "bridge" /\ BridgeNext /\ UNCHANGED <<labelVars, mailboxVars, pageVars>>
       \/ part = "labels" /\ LabelNext /\ UNCHANGED <<bridgeVars, mailboxVars, pageVars>>
       \/ part = "mailbox" /\ MailboxNext /\ UNCHANGED <<bridgeVars, labelVars, pageVars>>
       \/ part = "page" /\ PageNext /\ UNCHANGED <<bridgeVars, labelVars, mailboxVars>>

FairSpec ==
    /\ Init /\ [][Next]_<<part, bridgeVars, labelVars, mailboxVars, pageVars>>
    /\ part = "bridge" => BridgeFairness
    /\ part = "page" => PageFairness

=============================================================================
