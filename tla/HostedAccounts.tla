--------------------------- MODULE HostedAccounts ---------------------------
(***************************************************************************)
(* The Apple accounts of the hosted edition (lib/hosted/platform.mjs):     *)
(* their creation, the keys of the browser extensions, and the uploads of  *)
(* cookies with the verification at Apple that binds an account.           *)
(*                                                                         *)
(* Mutations of the platform file are serialized (state.mjs); only the one *)
(* that adds an account awaits something, the creation of the inventory    *)
(* file.  Apple knows a user by a permanent dsid; the Apple ID she logs in *)
(* with can be renamed, and be taken over by another user.                 *)
(***************************************************************************)
EXTENDS Naturals

CONSTANTS
    Accounts,       \* accounts of the platform
    AppleIds,       \* e-mail addresses that are Apple IDs
    Dsids,          \* users of Apple
    Keys,           \* upload keys
    Uploads,        \* uploads of cookies
    Nobody,         \* no user, no account, no Apple ID
    MaxDisruptions  \* bound on renamings and restarts

ASSUME AccountsAssumption ==
    /\ Nobody \notin Accounts \cup AppleIds \cup Dsids
    /\ MaxDisruptions \in Nat
    /\ Keys # {} /\ Dsids # {}

VARIABLES
    accounts,       \* state.accounts on disk
    files,          \* the accounts that have an inventory file
    adding,         \* the mutation of addAccount under way
    keys,           \* whose each key is, and whether it is revoked
    upload,         \* where each upload is
    arrivals,       \* how many uploads have joined syncQueues so far
    appleIdOf,      \* Apple: the Apple ID of each user
    disruptions     \* history: renamings and restarts

accountVars == <<accounts, files, adding, keys, upload, arrivals, appleIdOf, disruptions>>

(* identity.dsid, and the user and number of the upload of cookieHeader.    *)
NoAccount == [expectedAppleId |-> Nobody, dsid |-> Nobody, cookiesOf |-> Nobody, number |-> 0]
AccountRecords == [expectedAppleId : AppleIds \cup {Nobody}, dsid : Dsids \cup {Nobody},
                   cookiesOf : Dsids \cup {Nobody}, number : Nat]
UploadStates == [at : {"none", "queued", "verified", "done"}, key : Keys, cookiesOf : Dsids,
                 number : Nat, appleId : AppleIds \cup {Nobody}]

AccountsTypeOK ==
    /\ accounts \in [Accounts -> AccountRecords]
    /\ files \subseteq Accounts
    /\ adding \in [account : Accounts \cup {Nobody}, appleId : AppleIds \cup {Nobody}]
    /\ keys \in [Keys -> [account : Accounts \cup {Nobody}, revoked : BOOLEAN]]
    /\ upload \in [Uploads -> UploadStates]
    /\ arrivals \in Nat
    /\ appleIdOf \in [Dsids -> AppleIds]
    /\ disruptions \in 0..MaxDisruptions

NotAdding == [account |-> Nobody, appleId |-> Nobody]
Unsent == [at |-> "none", key |-> CHOOSE k \in Keys : TRUE,
           cookiesOf |-> CHOOSE d \in Dsids : TRUE, number |-> 0, appleId |-> Nobody]

AccountsInit ==
    /\ accounts = [a \in Accounts |-> NoAccount]
    /\ files = {} /\ adding = NotAdding
    /\ keys = [k \in Keys |-> [account |-> Nobody, revoked |-> FALSE]]
    /\ upload = [u \in Uploads |-> Unsent]
    /\ arrivals = 0
    /\ appleIdOf \in {f \in [Dsids -> AppleIds] : \A d, e \in Dsids : f[d] = f[e] => d = e}
    /\ disruptions = 0

Exists(a) == accounts[a] # NoAccount
mutates == adding = NotAdding       \* the mutation has its turn in the queue

-----------------------------------------------------------------------------
(* addAccount: the mutation finds the Apple ID unused ...                   *)
addAccount ==
    /\ mutates
    /\ \E a \in Accounts, id \in AppleIds :
        /\ a \notin files /\ ~Exists(a)
        /\ \A b \in Accounts : accounts[b].expectedAppleId # id
        /\ adding' = [account |-> a, appleId |-> id]
    /\ UNCHANGED <<accounts, files, keys, upload, arrivals, appleIdOf, disruptions>>

InventoryReady_Never == TRUE        \* mutant

(* ... creates the inventory file, and only with that there                 *)
InventoryReady == adding.account \in files

createInventory ==
    /\ adding # NotAdding /\ adding.account \notin files
    /\ files' = files \cup {adding.account}
    /\ UNCHANGED <<accounts, adding, keys, upload, arrivals, appleIdOf, disruptions>>

(* ... is the platform file with the account written.                       *)
AccountWritten ==
    /\ adding # NotAdding /\ InventoryReady
    /\ accounts' = [accounts EXCEPT ![adding.account].expectedAppleId = adding.appleId]
    /\ adding' = NotAdding
    /\ UNCHANGED <<files, keys, upload, arrivals, appleIdOf, disruptions>>

(* Either write fails; the file may stay behind.                            *)
AddFails ==
    /\ adding # NotAdding
    /\ adding' = NotAdding
    /\ UNCHANGED <<accounts, files, keys, upload, arrivals, appleIdOf, disruptions>>

createKey ==
    /\ mutates
    /\ \E k \in Keys, a \in Accounts :
        /\ keys[k].account = Nobody /\ Exists(a)
        /\ keys' = [keys EXCEPT ![k].account = a]
    /\ UNCHANGED <<accounts, files, adding, upload, arrivals, appleIdOf, disruptions>>

revoke ==
    /\ mutates
    /\ \E k \in Keys :
        /\ keys[k].account # Nobody
        /\ keys' = [keys EXCEPT ![k].revoked = TRUE]
    /\ UNCHANGED <<accounts, files, adding, upload, arrivals, appleIdOf, disruptions>>

-----------------------------------------------------------------------------
(* syncCookies.                                                             *)

AccountOf(u) == keys[upload[u].key].account

(* authenticateKey, and the upload joins the queue of its account.  A user  *)
(* may upload with a key of an account that is not hers.                    *)
syncCookies(u) ==
    /\ upload[u].at = "none"
    /\ \E k \in Keys, d \in Dsids :
        /\ keys[k].account # Nobody /\ ~keys[k].revoked
        /\ upload' = [upload EXCEPT ![u] = [at |-> "queued", key |-> k, cookiesOf |-> d,
                                            number |-> arrivals + 1, appleId |-> Nobody]]
    /\ arrivals' = arrivals + 1
    /\ UNCHANGED <<accounts, files, adding, keys, appleIdOf, disruptions>>

Waiting(u) == upload[u].at \in {"queued", "verified"}

First_OfItsKey(u) ==                                \* mutant
    \A v \in Uploads : Waiting(v) /\ upload[v].key = upload[u].key =>
        upload[v].number >= upload[u].number

(* syncQueues: the uploads of an account take turns as they arrived.        *)
First(u) ==
    \A v \in Uploads : Waiting(v) /\ AccountOf(v) = AccountOf(u) =>
        upload[v].number >= upload[u].number

(* verifyAppleIdentity: Apple says whose cookies these are.                 *)
verifyAppleIdentity(u) ==
    /\ upload[u].at = "queued" /\ First(u)
    /\ upload' = [upload EXCEPT ![u].at = "verified", ![u].appleId = appleIdOf[upload[u].cookiesOf]]
    /\ UNCHANGED <<accounts, files, adding, keys, arrivals, appleIdOf, disruptions>>

Done(u) == upload' = [upload EXCEPT ![u] = [Unsent EXCEPT !.at = "done"]]

Accepted_AnyIdentity(u, a) ==                       \* mutant
    /\ ~keys[upload[u].key].revoked
    /\ upload[u].appleId = accounts[a].expectedAppleId
    /\ \A b \in Accounts \ {a} : accounts[b].dsid # upload[u].cookiesOf

(* What the mutation checks again, or for the first time.                   *)
Accepted(u, a) ==
    /\ ~keys[upload[u].key].revoked
    /\ upload[u].appleId = accounts[a].expectedAppleId
    /\ accounts[a].dsid \in {Nobody, upload[u].cookiesOf}
    /\ \A b \in Accounts \ {a} : accounts[b].dsid # upload[u].cookiesOf

StoreCookies(u) ==
    /\ mutates
    /\ upload[u].at = "verified" /\ Accepted(u, AccountOf(u))
    /\ accounts' = [accounts EXCEPT ![AccountOf(u)] =
            [@ EXCEPT !.dsid = upload[u].cookiesOf, !.cookiesOf = upload[u].cookiesOf,
                      !.number = upload[u].number]]
    /\ Done(u)
    /\ UNCHANGED <<files, adding, keys, arrivals, appleIdOf, disruptions>>

(* Apple does not verify the cookies, the mutation refuses them, or its     *)
(* write fails.                                                             *)
SyncFails(u) ==
    /\ Waiting(u) /\ First(u)
    /\ Done(u)
    /\ UNCHANGED <<accounts, files, adding, keys, arrivals, appleIdOf, disruptions>>

-----------------------------------------------------------------------------
(* Apple renames a user; the address may have been another's.               *)
Rename ==
    /\ disruptions < MaxDisruptions
    /\ disruptions' = disruptions + 1
    /\ \E d \in Dsids, id \in AppleIds :
        /\ \A e \in Dsids : appleIdOf[e] # id
        /\ appleIdOf' = [appleIdOf EXCEPT ![d] = id]
    /\ UNCHANGED <<accounts, files, adding, keys, upload, arrivals>>

(* The process restarts and forgets its queues.                             *)
PlatformRestarts ==
    /\ disruptions < MaxDisruptions
    /\ disruptions' = disruptions + 1
    /\ adding' = NotAdding
    /\ upload' = [u \in Uploads |-> IF upload[u].at = "none" THEN Unsent
                                    ELSE [Unsent EXCEPT !.at = "done"]]
    /\ UNCHANGED <<accounts, files, keys, arrivals, appleIdOf>>

AccountsNext ==
    \/ addAccount \/ createInventory \/ AccountWritten \/ AddFails
    \/ createKey \/ revoke
    \/ \E u \in Uploads :
        syncCookies(u) \/ verifyAppleIdentity(u) \/ StoreCookies(u) \/ SyncFails(u)
    \/ Rename \/ PlatformRestarts

AccountsSpec == AccountsInit /\ [][AccountsNext]_accountVars

-----------------------------------------------------------------------------
(* An account belongs to one user of Apple for good, two accounts never to  *)
(* the same one, and the cookies of an account are its user's, also when    *)
(* Apple IDs change hands while accounts are added and cookies verified     *)
(* (addAccount, syncCookies).                                               *)
Apart ==
    \A a, b \in Accounts :
        /\ accounts[a].cookiesOf = accounts[a].dsid
        /\ a # b /\ Exists(a) => accounts[a].expectedAppleId # accounts[b].expectedAppleId
        /\ a # b /\ accounts[a].dsid # Nobody => accounts[a].dsid # accounts[b].dsid

AccountsStayApart ==
    [][ Apart' /\ \A a \in Accounts :
            accounts[a].dsid # Nobody => accounts'[a].dsid = accounts[a].dsid ]_accountVars

(* However long Apple takes, the cookies of an account are never replaced   *)
(* by ones that were uploaded before them, nor by an upload whose key has   *)
(* been revoked meanwhile (syncCookies).                                    *)
CookiesNeverGoBack ==
    [][ \A a \in Accounts : accounts'[a].number # accounts[a].number =>
            /\ accounts'[a].number > accounts[a].number
            /\ \E u \in Uploads :
                upload[u].number = accounts'[a].number /\ ~keys[upload[u].key].revoked
      ]_accountVars

(* An account on disk has its inventory file, wherever a failure or restart *)
(* cuts its creation off: a missing file means damage, never a new account  *)
(* (addAccount; runtime opens the file with allowMissing: false).           *)
EveryAccountHasItsInventory ==
    \A a \in Accounts : Exists(a) => a \in files

=============================================================================
