------------------------------- MODULE MCHosted -----------------------------
(* Three components that share no state in one run: each behaviour is one   *)
(* of theirs, and the other two stay where they start.                      *)
EXTENDS AdminLogin, HostedAccounts, InboxPage, TLC

VARIABLE part

Init ==
    /\ part \in {"admin", "accounts", "inbox"}
    /\ AdminInit /\ AccountsInit /\ InboxInit
    /\ part # "admin" => admin.password = CHOOSE p \in Passwords : TRUE
    /\ part # "accounts" => appleIdOf = CHOOSE f \in [Dsids -> AppleIds] :
                                            \A d, e \in Dsids : f[d] = f[e] => d = e
    /\ part # "inbox" => active = Shares /\ cookieShare = NoShare

Next ==
    /\ UNCHANGED part
    /\ \/ part = "admin" /\ AdminNext /\ UNCHANGED <<accountVars, inboxVars>>
       \/ part = "accounts" /\ AccountsNext /\ UNCHANGED <<adminVars, inboxVars>>
       \/ part = "inbox" /\ InboxNext /\ UNCHANGED <<adminVars, accountVars>>

Spec == Init /\ [][Next]_<<part, adminVars, accountVars, inboxVars>>

=============================================================================
