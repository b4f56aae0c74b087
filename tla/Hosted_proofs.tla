---------------------------- MODULE Hosted_proofs ----------------------------
(***************************************************************************)
(* For any calls, accounts, uploads and shares: that sessions know the     *)
(* password in force (AdminLogin), that accounts stay apart, keep their    *)
(* inventory and never go back to older cookies (HostedAccounts), and that *)
(* the reader's page shows the mailbox opened last (InboxPage).            *)
(***************************************************************************)
EXTENDS AdminLogin, HostedAccounts, InboxPage, TLAPS

-----------------------------------------------------------------------------
(* AdminLogin.                                                              *)

(* What somebody read of the administrator is the current record, or has an *)
(* older version.                                                           *)
Outlived(s) == s = admin \/ s.version < admin.version

SessionInv ==
    /\ AdminTypeOK
    /\ \A s \in adminSessions : Outlived(s)
    /\ \A c \in Calls : call[c].at = "login" => Outlived(call[c].read)

LEMMA SessionInvInit == AdminInit => SessionInv
BY AdminAssumption
DEF AdminInit, SessionInv, AdminTypeOK, Admins, NoCall

LEMMA SessionInvNext ==
    ASSUME SessionInv, [AdminNext]_adminVars
    PROVE  SessionInv'
<1> USE AdminAssumption DEF SessionInv, AdminTypeOK, Outlived, Becomes
<1>1. ASSUME NEW c \in Calls, AdminLogin(c) PROVE SessionInv'
  BY <1>1 DEF AdminLogin, NoCall, VerifyingCalls, Admins
<1>2. ASSUME NEW c \in Calls, createSession(c) PROVE SessionInv'
  BY <1>2 DEF createSession, Session, NoCall, VerifyingCalls, HashingCalls, Admins
<1>3. ASSUME NEW c \in Calls, ChangePassword(c) PROVE SessionInv'
  BY <1>3 DEF ChangePassword, NoCall, VerifyingCalls, HashingCalls, Admins
<1>4. ASSUME NEW c \in Calls, HashPassword(c) PROVE SessionInv'
  BY <1>4 DEF HashPassword, NoCall, VerifyingCalls, HashingCalls, Admins
<1>5. ASSUME NEW c \in Calls, PasswordChanged(c) PROVE SessionInv'
  BY <1>5 DEF PasswordChanged, NoCall, VerifyingCalls, HashingCalls, Admins
<1>6. ASSUME NEW c \in Calls, CallFails(c) PROVE SessionInv'
  BY <1>6 DEF CallFails, NoCall, VerifyingCalls, HashingCalls, Admins
<1>7. CASE SessionEnds
  BY <1>7 DEF SessionEnds
<1>8. CASE ServerRestarts
  BY <1>8 DEF ServerRestarts, NoCall
<1>9. CASE UNCHANGED adminVars
  BY <1>9 DEF adminVars
<1> QED BY <1>1, <1>2, <1>3, <1>4, <1>5, <1>6, <1>7, <1>8, <1>9 DEF AdminNext

(* However many logins and password changes overlap, a session that         *)
(* requests are accepted with was opened with the password in force         *)
(* (hosted.mjs: login, the version of the principal).                       *)
THEOREM SessionsAlwaysKnowThePassword == AdminSpec => []SessionsKnowThePassword
<1>1. SessionInv => SessionsKnowThePassword
  BY DEF SessionInv, Outlived, SessionsKnowThePassword, LoggedIn, AdminTypeOK, Admins
<1> QED BY SessionInvInit, SessionInvNext, <1>1, PTL DEF AdminSpec

(* The administrator, her sessions and the calls under way keep their types *)
(* (hosted.mjs: login, the change of the password).                         *)
THEOREM AdminAlwaysTyped == AdminSpec => []AdminTypeOK
<1>1. SessionInv => AdminTypeOK
  BY DEF SessionInv
<1> QED BY SessionInvInit, SessionInvNext, <1>1, PTL DEF AdminSpec

-----------------------------------------------------------------------------
(* HostedAccounts.                                                          *)

Free(a) == accounts[a].expectedAppleId = Nobody

(* The account that is being added does not exist yet, nor its Apple ID.    *)
AddingInv ==
    adding # NotAdding =>
        /\ adding.account \in Accounts /\ adding.appleId \in AppleIds
        /\ Free(adding.account)
        /\ \A b \in Accounts : accounts[b].expectedAppleId # adding.appleId

(* Uploads under way come after the cookies their account has, in an order. *)
QueueInv ==
    /\ \A a \in Accounts : accounts[a].number <= arrivals
    /\ \A u \in Uploads : Waiting(u) =>
        /\ AccountOf(u) \in Accounts
        /\ upload[u].number <= arrivals /\ accounts[AccountOf(u)].number < upload[u].number
        /\ upload[u].at = "verified" => upload[u].appleId \in AppleIds /\ First(u)
    /\ \A u, v \in Uploads :
        Waiting(u) /\ Waiting(v) /\ upload[u].number = upload[v].number => u = v

AccountsInv ==
    /\ AccountsTypeOK /\ Apart
    /\ \A a \in Accounts : Free(a) => accounts[a] = NoAccount
    /\ \A a \in Accounts : ~Free(a) => a \in files
    /\ AddingInv /\ QueueInv

LEMMA UnsentIsTyped == Unsent \in UploadStates /\ [Unsent EXCEPT !.at = "done"] \in UploadStates
BY AccountsAssumption DEF Unsent, UploadStates

LEMMA NotFreeExists ==
    ASSUME AccountsInv, NEW a \in Accounts
    PROVE  Exists(a) <=> ~Free(a)
BY DEF AccountsInv, Exists, Free, NoAccount

LEMMA AccountsInvInit == AccountsInit => AccountsInv
BY AccountsAssumption, UnsentIsTyped
DEF AccountsInit, AccountsInv, AccountsTypeOK, AccountRecords, Apart, AddingInv, QueueInv,
    NoAccount, NotAdding, Exists, Free, Waiting, Unsent

(* What a step leaves alone it keeps in order.                              *)
LEMMA QueueKept ==
    ASSUME AccountsInv, AccountsTypeOK', UNCHANGED <<upload, arrivals>>,
           \A a \in Accounts : accounts'[a].number = accounts[a].number,
           \A k \in Keys : keys[k].account \in Accounts => keys'[k].account = keys[k].account
    PROVE  QueueInv'
<1>1. \A u \in Uploads : Waiting(u) => AccountOf(u)' = AccountOf(u)
  BY DEF AccountsInv, QueueInv, AccountsTypeOK, UploadStates, AccountOf
<1> QED BY <1>1 DEF AccountsInv, QueueInv, Waiting, First

(* With the first of an account's uploads gone, the others are still newer  *)
(* than its cookies.                                                        *)
LEMMA QueueWithoutTheFirst ==
    ASSUME AccountsInv, AccountsTypeOK', NEW u \in Uploads, Waiting(u), First(u), Done(u),
           UNCHANGED <<keys, arrivals>>,
           \A a \in Accounts :
              accounts'[a].number # accounts[a].number =>
                a = AccountOf(u) /\ accounts'[a].number = upload[u].number
    PROVE  QueueInv'
<1>1. upload'[u].at = "done" /\ \A v \in Uploads : v # u => upload'[v] = upload[v]
  BY DEF Done, AccountsInv, AccountsTypeOK, Unsent
<1>2. \A v \in Uploads : v # u => (Waiting(v)' <=> Waiting(v)) /\ AccountOf(v)' = AccountOf(v)
  BY <1>1 DEF Waiting, AccountOf
<1>3. ~Waiting(u)'
  BY <1>1 DEF Waiting
<1>4. \A v \in Uploads : Waiting(v)' /\ AccountOf(v) = AccountOf(u) =>
        upload[u].number < upload[v].number
  <2> SUFFICES ASSUME NEW v \in Uploads, Waiting(v)', AccountOf(v) = AccountOf(u)
               PROVE  upload[u].number < upload[v].number
    OBVIOUS
  <2>1. v # u /\ Waiting(v)
    BY <1>2, <1>3
  <2>2. upload[v].number >= upload[u].number
    BY <2>1 DEF First
  <2>3. upload[v].number # upload[u].number
    BY <2>1 DEF AccountsInv, QueueInv
  <2>4. upload[v].number \in Nat /\ upload[u].number \in Nat
    BY DEF AccountsInv, AccountsTypeOK, UploadStates
  <2> QED BY <2>2, <2>3, <2>4
<1>5. \A a \in Accounts : accounts'[a].number <= arrivals'
  BY DEF AccountsInv, QueueInv
<1>6. \A v \in Uploads : Waiting(v)' =>
        /\ AccountOf(v)' \in Accounts
        /\ upload'[v].number <= arrivals' /\ accounts'[AccountOf(v)'].number < upload'[v].number
  BY <1>1, <1>2, <1>3, <1>4 DEF AccountsInv, QueueInv
<1>7. \A v \in Uploads : Waiting(v)' /\ upload'[v].at = "verified" =>
        upload'[v].appleId \in AppleIds /\ First(v)'
  BY <1>1, <1>2, <1>3 DEF AccountsInv, QueueInv, First
<1>8. \A v, w \in Uploads :
        Waiting(v)' /\ Waiting(w)' /\ upload'[v].number = upload'[w].number => v = w
  BY <1>1, <1>2, <1>3 DEF AccountsInv, QueueInv
<1> QED BY <1>5, <1>6, <1>7, <1>8 DEF QueueInv

LEMMA AccountsInvNext ==
    ASSUME AccountsInv, [AccountsNext]_accountVars
    PROVE  AccountsInv'
<1> USE AccountsAssumption
<1> DEFINE Rest == /\ Apart
                   /\ \A a \in Accounts : Free(a) => accounts[a] = NoAccount
                   /\ \A a \in Accounts : ~Free(a) => a \in files
<1>0. AccountsTypeOK /\ Rest /\ AddingInv /\ QueueInv
  BY DEF AccountsInv
<1>1. CASE addAccount
  <2> PICK a \in Accounts, id \in AppleIds :
        /\ a \notin files /\ ~Exists(a)
        /\ \A b \in Accounts : accounts[b].expectedAppleId # id
        /\ adding' = [account |-> a, appleId |-> id]
    BY <1>1 DEF addAccount
  <2>1. UNCHANGED <<accounts, files, keys, upload, arrivals, appleIdOf, disruptions>>
    BY <1>1 DEF addAccount
  <2>2. AccountsTypeOK'
    BY <1>0, <2>1 DEF AccountsTypeOK
  <2>3. QueueInv'
    BY <2>1, <2>2, QueueKept
  <2>4. AddingInv'
    BY <2>1, NotFreeExists DEF AddingInv, Free
  <2>5. Rest'
    BY <1>0, <2>1 DEF Apart, Free, Exists
  <2> QED BY <2>2, <2>3, <2>4, <2>5 DEF AccountsInv
<1>2. CASE createInventory
  <2>1. AccountsTypeOK'
    BY <1>0, <1>2 DEF createInventory, AccountsTypeOK, AddingInv
  <2>2. QueueInv'
    BY <1>2, <2>1, QueueKept DEF createInventory
  <2>3. Rest' /\ AddingInv'
    BY <1>0, <1>2 DEF createInventory, Apart, Free, Exists, AddingInv
  <2> QED BY <2>1, <2>2, <2>3 DEF AccountsInv
<1>3. CASE AccountWritten
  <2> DEFINE a == adding.account
  <2>1. /\ a \in Accounts /\ adding.appleId \in AppleIds /\ a \in files
        /\ accounts[a] = NoAccount
        /\ \A b \in Accounts : accounts[b].expectedAppleId # adding.appleId
    BY <1>0, <1>3 DEF AccountWritten, AddingInv, InventoryReady
  <2>2. /\ accounts' = [accounts EXCEPT ![a].expectedAppleId = adding.appleId]
        /\ adding' = NotAdding
        /\ UNCHANGED <<files, keys, upload, arrivals, appleIdOf, disruptions>>
    BY <1>3 DEF AccountWritten
  <2>3. /\ accounts'[a] = [NoAccount EXCEPT !.expectedAppleId = adding.appleId]
        /\ \A b \in Accounts : b # a => accounts'[b] = accounts[b]
    BY <1>0, <2>1, <2>2 DEF AccountsTypeOK
  <2>4. AccountsTypeOK'
    BY <1>0, <2>1, <2>2 DEF AccountsTypeOK, AccountRecords, NotAdding
  <2>5. QueueInv'
    BY <2>1, <2>2, <2>3, <2>4, QueueKept DEF NoAccount
  <2>6. Rest'
    BY <1>0, <2>1, <2>2, <2>3 DEF Apart, Free, Exists, NoAccount
  <2>7. AddingInv'
    BY <2>2 DEF AddingInv
  <2> QED BY <2>4, <2>5, <2>6, <2>7 DEF AccountsInv
<1>4. CASE AddFails
  <2>1. AccountsTypeOK'
    BY <1>0, <1>4 DEF AddFails, AccountsTypeOK, NotAdding
  <2>2. QueueInv'
    BY <1>4, <2>1, QueueKept DEF AddFails
  <2>3. Rest' /\ AddingInv'
    BY <1>0, <1>4 DEF AddFails, Apart, Free, Exists, AddingInv
  <2> QED BY <2>1, <2>2, <2>3 DEF AccountsInv
<1>5. CASE createKey \/ revoke
  <2>1. UNCHANGED <<accounts, files, adding, upload, arrivals, appleIdOf, disruptions>>
    BY <1>5 DEF createKey, revoke
  <2>2. AccountsTypeOK'
    <3>1. CASE createKey
      BY <1>0, <2>1, <3>1 DEF createKey, AccountsTypeOK
    <3>2. CASE revoke
      <4> PICK k \in Keys : keys' = [keys EXCEPT ![k].revoked = TRUE]
        BY <3>2 DEF revoke
      <4>1. keys' \in [Keys -> [account : Accounts \cup {Nobody}, revoked : BOOLEAN]]
        BY <1>0 DEF AccountsTypeOK
      <4> QED BY <1>0, <2>1, <4>1 DEF AccountsTypeOK
    <3> QED BY <1>5, <3>1, <3>2
  <2>3. \A k \in Keys : keys[k].account \in Accounts => keys'[k].account = keys[k].account
    BY <1>0, <1>5 DEF createKey, revoke, AccountsTypeOK
  <2>4. QueueInv'
    BY <2>1, <2>2, <2>3, QueueKept
  <2>5. Rest' /\ AddingInv'
    BY <1>0, <2>1 DEF Apart, Free, Exists, AddingInv
  <2> QED BY <2>2, <2>4, <2>5 DEF AccountsInv
<1>6. ASSUME NEW u \in Uploads, syncCookies(u) PROVE AccountsInv'
  <2> PICK k \in Keys, d \in Dsids :
        /\ keys[k].account # Nobody /\ ~keys[k].revoked
        /\ upload' = [upload EXCEPT ![u] = [at |-> "queued", key |-> k, cookiesOf |-> d,
                                            number |-> arrivals + 1, appleId |-> Nobody]]
    BY <1>6 DEF syncCookies
  <2>1. /\ arrivals' = arrivals + 1 /\ upload[u].at = "none"
        /\ UNCHANGED <<accounts, files, adding, keys, appleIdOf, disruptions>>
    BY <1>6 DEF syncCookies
  <2>2. AccountsTypeOK'
    BY <1>0, <2>1 DEF AccountsTypeOK, UploadStates
  <2>3. Rest' /\ AddingInv'
    BY <1>0, <2>1 DEF Apart, Free, Exists, AddingInv
  <2>4. /\ upload'[u] = [at |-> "queued", key |-> k, cookiesOf |-> d,
                         number |-> arrivals + 1, appleId |-> Nobody]
        /\ \A v \in Uploads : v # u => upload'[v] = upload[v]
    BY <1>0 DEF AccountsTypeOK
  <2>5. \A v \in Uploads : v # u => (Waiting(v)' <=> Waiting(v)) /\ AccountOf(v)' = AccountOf(v)
    BY <2>1, <2>4 DEF Waiting, AccountOf
  <2>6. AccountOf(u)' \in Accounts /\ ~Waiting(u) /\ upload'[u].number = arrivals + 1
        /\ upload'[u].at = "queued"
    BY <1>0, <2>1, <2>4 DEF AccountOf, Waiting, AccountsTypeOK
  <2>7. \A a \in Accounts : accounts'[a].number <= arrivals
    BY <1>0, <2>1 DEF QueueInv
  <2>8. arrivals \in Nat /\ (\A a \in Accounts : accounts'[a].number \in Nat)
        /\ (\A v \in Uploads : upload[v].number \in Nat)
    BY <1>0, <2>2 DEF AccountsTypeOK, AccountRecords, UploadStates
  <2>9. \A v \in Uploads : Waiting(v)' =>
        /\ AccountOf(v)' \in Accounts
        /\ upload'[v].number <= arrivals' /\ accounts'[AccountOf(v)'].number < upload'[v].number
    BY <1>0, <2>1, <2>4, <2>5, <2>6, <2>7, <2>8 DEF QueueInv
  <2>10. \A v \in Uploads : Waiting(v)' /\ upload'[v].at = "verified" =>
        upload'[v].appleId \in AppleIds /\ First(v)'
    BY <1>0, <2>1, <2>4, <2>5, <2>6, <2>8 DEF QueueInv, First
  <2>11. \A v, w \in Uploads :
        Waiting(v)' /\ Waiting(w)' /\ upload'[v].number = upload'[w].number => v = w
    BY <1>0, <2>1, <2>4, <2>5, <2>6, <2>8 DEF QueueInv
  <2>12. QueueInv'
    BY <2>1, <2>7, <2>8, <2>9, <2>10, <2>11 DEF QueueInv
  <2> QED BY <2>2, <2>3, <2>12 DEF AccountsInv
<1>7. ASSUME NEW u \in Uploads, verifyAppleIdentity(u) PROVE AccountsInv'
  <2>1. /\ upload[u].at = "queued" /\ First(u)
        /\ UNCHANGED <<accounts, files, adding, keys, arrivals, appleIdOf, disruptions>>
    BY <1>7 DEF verifyAppleIdentity
  <2>2. AccountsTypeOK'
    <3>1. appleIdOf[upload[u].cookiesOf] \in AppleIds
      BY <1>0 DEF AccountsTypeOK, UploadStates
    <3>2. upload' \in [Uploads -> UploadStates]
      <4>1. upload' = [upload EXCEPT ![u] = [@ EXCEPT !.at = "verified",
                                        !.appleId = appleIdOf[upload[u].cookiesOf]]]
        BY <1>0, <1>7 DEF verifyAppleIdentity, AccountsTypeOK
      <4>2. [upload[u] EXCEPT !.at = "verified", !.appleId = appleIdOf[upload[u].cookiesOf]]
                \in UploadStates
        <5>1. upload[u] \in UploadStates
          BY <1>0 DEF AccountsTypeOK
        <5> QED BY <3>1, <5>1 DEF UploadStates
      <4> QED BY <1>0, <4>1, <4>2 DEF AccountsTypeOK
    <3> QED BY <1>0, <2>1, <3>2 DEF AccountsTypeOK
  <2>3. Rest' /\ AddingInv'
    BY <1>0, <2>1 DEF Apart, Free, Exists, AddingInv
  <2>4. /\ upload'[u].at = "verified" /\ upload'[u].appleId \in AppleIds
        /\ upload'[u].key = upload[u].key /\ upload'[u].number = upload[u].number
        /\ \A v \in Uploads : v # u => upload'[v] = upload[v]
    BY <1>0, <1>7 DEF verifyAppleIdentity, AccountsTypeOK, UploadStates
  <2>5. \A v \in Uploads : /\ Waiting(v)' <=> Waiting(v)
                           /\ AccountOf(v)' = AccountOf(v)
                           /\ upload'[v].number = upload[v].number
    BY <2>1, <2>4 DEF Waiting, AccountOf
  <2>6. \A v \in Uploads : First(v)' <=> First(v)
    BY <2>5 DEF First
  <2>7. QueueInv'
    BY <1>0, <2>1, <2>4, <2>5, <2>6 DEF QueueInv
  <2> QED BY <2>2, <2>3, <2>7 DEF AccountsInv
<1>8. ASSUME NEW u \in Uploads, StoreCookies(u) PROVE AccountsInv'
  <2>0. AccountOf(u) \in Accounts
    BY <1>0, <1>8 DEF StoreCookies, QueueInv, Waiting
  <2> PICK a \in Accounts : a = AccountOf(u)
    BY <2>0
  <2>1. /\ upload[u].at = "verified" /\ Accepted(u, a) /\ Done(u)
        /\ accounts' = [accounts EXCEPT ![a] =
                [@ EXCEPT !.dsid = upload[u].cookiesOf, !.cookiesOf = upload[u].cookiesOf,
                          !.number = upload[u].number]]
        /\ UNCHANGED <<files, adding, keys, arrivals, appleIdOf, disruptions>>
    BY <1>8 DEF StoreCookies
  <2>2. /\ Waiting(u) /\ First(u) /\ a \in Accounts /\ upload[u].appleId \in AppleIds
        /\ upload[u].cookiesOf \in Dsids /\ upload[u].number \in Nat
    BY <1>0, <2>1 DEF QueueInv, Waiting, AccountsTypeOK, UploadStates
  <2>3. /\ accounts'[a] = [accounts[a] EXCEPT !.dsid = upload[u].cookiesOf,
                             !.cookiesOf = upload[u].cookiesOf, !.number = upload[u].number]
        /\ \A b \in Accounts : b # a => accounts'[b] = accounts[b]
    BY <1>0, <2>1, <2>2 DEF AccountsTypeOK
  <2>4. /\ accounts'[a].expectedAppleId = accounts[a].expectedAppleId
        /\ accounts'[a].dsid = upload[u].cookiesOf /\ accounts'[a].cookiesOf = upload[u].cookiesOf
        /\ accounts'[a].number = upload[u].number
    BY <1>0, <2>2, <2>3 DEF AccountsTypeOK, AccountRecords
  <2>5. ~Free(a) /\ ~Free(a)'
    BY <2>1, <2>2, <2>4 DEF Accepted, Free
  <2>6. AccountsTypeOK'
    <3>1. accounts' \in [Accounts -> AccountRecords]
      <4>1. accounts'[a] \in AccountRecords
        BY <1>0, <2>2, <2>3 DEF AccountsTypeOK, AccountRecords
      <4> QED BY <1>0, <2>1, <4>1 DEF AccountsTypeOK
    <3>2. upload' \in [Uploads -> UploadStates]
      BY <1>0, <2>1, UnsentIsTyped DEF AccountsTypeOK, Done
    <3> QED BY <1>0, <2>1, <3>1, <3>2 DEF AccountsTypeOK
  <2>7. QueueInv'
    <3>1. \A b \in Accounts :
            accounts'[b].number # accounts[b].number =>
                b = AccountOf(u) /\ accounts'[b].number = upload[u].number
      BY <2>3, <2>4
    <3>2. UNCHANGED <<keys, arrivals>> /\ Done(u)
      BY <2>1
    <3> QED BY <2>2, <2>6, <3>1, <3>2, QueueWithoutTheFirst
  <2>8. Apart'
    BY <1>0, <2>1, <2>2, <2>3, <2>4, <2>5, NotFreeExists DEF Apart, Accepted, Free, Exists, NoAccount
  <2>9. Rest'
    BY <1>0, <2>1, <2>3, <2>5, <2>8 DEF Free
  <2>10. AddingInv'
    BY <1>0, <2>1, <2>3, <2>4, <2>5 DEF AddingInv, Free
  <2> QED BY <2>6, <2>7, <2>9, <2>10 DEF AccountsInv
<1>9. ASSUME NEW u \in Uploads, SyncFails(u) PROVE AccountsInv'
  <2>1. /\ Waiting(u) /\ First(u) /\ Done(u)
        /\ UNCHANGED <<accounts, files, adding, keys, arrivals, appleIdOf, disruptions>>
    BY <1>9 DEF SyncFails
  <2>2. AccountsTypeOK'
    BY <1>0, <2>1, UnsentIsTyped DEF AccountsTypeOK, Done
  <2>3. QueueInv'
    <3>1. \A b \in Accounts : accounts'[b].number = accounts[b].number
      BY <2>1
    <3>2. UNCHANGED <<keys, arrivals>>
      BY <2>1
    <3> QED BY <2>1, <2>2, <3>1, <3>2, QueueWithoutTheFirst
  <2>4. Rest' /\ AddingInv'
    BY <1>0, <2>1 DEF Apart, Free, Exists, AddingInv
  <2> QED BY <2>2, <2>3, <2>4 DEF AccountsInv
<1>10. CASE Rename
  <2>1. UNCHANGED <<accounts, files, adding, keys, upload, arrivals>>
    BY <1>10 DEF Rename
  <2>2. AccountsTypeOK'
    BY <1>0, <1>10 DEF Rename, AccountsTypeOK
  <2>3. QueueInv'
    BY <2>1, <2>2, QueueKept
  <2>4. Rest' /\ AddingInv'
    BY <1>0, <2>1 DEF Apart, Free, Exists, AddingInv
  <2> QED BY <2>2, <2>3, <2>4 DEF AccountsInv
<1>11. CASE PlatformRestarts
  <2>1. adding' = NotAdding /\ UNCHANGED <<accounts, files, keys, arrivals, appleIdOf>>
    BY <1>11 DEF PlatformRestarts
  <2>2. AccountsTypeOK'
    BY <1>0, <1>11, UnsentIsTyped DEF PlatformRestarts, AccountsTypeOK, NotAdding
  <2>3. \A u \in Uploads : ~Waiting(u)'
    BY <1>11, UnsentIsTyped DEF PlatformRestarts, Waiting, Unsent
  <2>4. QueueInv'
    BY <1>0, <2>1, <2>3 DEF QueueInv
  <2>5. Rest' /\ AddingInv'
    BY <1>0, <2>1 DEF Apart, Free, Exists, AddingInv
  <2> QED BY <2>2, <2>4, <2>5 DEF AccountsInv
<1>12. CASE UNCHANGED accountVars
  <2>1. UNCHANGED <<accounts, files, adding, keys, upload, arrivals, appleIdOf, disruptions>>
    BY <1>12 DEF accountVars
  <2>2. AccountsTypeOK'
    BY <1>0, <2>1 DEF AccountsTypeOK
  <2>3. QueueInv'
    BY <2>1, <2>2, QueueKept
  <2>4. Rest' /\ AddingInv'
    BY <1>0, <2>1 DEF Apart, Free, Exists, AddingInv
  <2> QED BY <2>2, <2>3, <2>4 DEF AccountsInv
<1> QED BY <1>1, <1>2, <1>3, <1>4, <1>5, <1>6, <1>7, <1>8, <1>9, <1>10, <1>11, <1>12
        DEF AccountsNext

(* The number and the user of an account's cookies change with StoreCookies *)
(* alone.                                                                   *)
LEMMA OnlyStoreCookies ==
    ASSUME AccountsInv, [AccountsNext]_accountVars, NEW a \in Accounts
    PROVE  \/ /\ accounts'[a].number = accounts[a].number
              /\ accounts'[a].dsid = accounts[a].dsid
           \/ \E u \in Uploads :
                /\ upload[u].at = "verified" /\ a = AccountOf(u) /\ Accepted(u, a)
                /\ accounts'[a].number = upload[u].number
                /\ accounts'[a].dsid = upload[u].cookiesOf
<1> USE DEF AccountsInv, AccountsTypeOK, AccountRecords
<1>1. CASE AccountWritten
  BY <1>1 DEF AccountWritten
<1>2. ASSUME NEW u \in Uploads, StoreCookies(u)
      PROVE  \/ accounts'[a] = accounts[a]
             \/ /\ upload[u].at = "verified" /\ a = AccountOf(u) /\ Accepted(u, a)
                /\ accounts'[a].number = upload[u].number
                /\ accounts'[a].dsid = upload[u].cookiesOf
  BY <1>2 DEF StoreCookies
<1>3. CASE UNCHANGED accounts
  BY <1>3
<1> QED BY <1>1, <1>2, <1>3
        DEF AccountsNext, addAccount, createInventory, AddFails, createKey, revoke, syncCookies,
            verifyAppleIdentity, SyncFails, Rename, PlatformRestarts, accountVars

(* An account on disk has its inventory file, wherever its creation was cut *)
(* off (addAccount).                                                        *)
THEOREM AccountsAlwaysHaveTheirInventory == AccountsSpec => []EveryAccountHasItsInventory
<1>1. AccountsInv => EveryAccountHasItsInventory
  BY NotFreeExists DEF AccountsInv, EveryAccountHasItsInventory
<1> QED BY AccountsInvInit, AccountsInvNext, <1>1, PTL DEF AccountsSpec

(* An account never changes hands, and no two are the same user's, also     *)
(* when Apple IDs are renamed while accounts are added and cookies verified *)
(* (addAccount, syncCookies).                                               *)
THEOREM AccountsAlwaysStayApart == AccountsSpec => AccountsStayApart
<1>1. AccountsInv /\ AccountsInv' /\ [AccountsNext]_accountVars =>
        [ Apart' /\ \A a \in Accounts :
            accounts[a].dsid # Nobody => accounts'[a].dsid = accounts[a].dsid ]_accountVars
  BY OnlyStoreCookies DEF AccountsInv, Accepted
<1> QED BY AccountsInvInit, AccountsInvNext, <1>1, PTL DEF AccountsSpec, AccountsStayApart

(* The cookies of an account are never replaced by ones uploaded before     *)
(* them, nor with a key that was revoked meanwhile (syncCookies).           *)
THEOREM CookiesOnlyGoForward == AccountsSpec => CookiesNeverGoBack
<1>1. AccountsInv /\ [AccountsNext]_accountVars =>
        [ \A a \in Accounts : accounts'[a].number # accounts[a].number =>
            /\ accounts'[a].number > accounts[a].number
            /\ \E u \in Uploads :
                upload[u].number = accounts'[a].number /\ ~keys[upload[u].key].revoked
        ]_accountVars
  <2> SUFFICES ASSUME AccountsInv, [AccountsNext]_accountVars, NEW a \in Accounts,
                      accounts'[a].number # accounts[a].number
               PROVE  /\ accounts'[a].number > accounts[a].number
                      /\ \E u \in Uploads : upload[u].number = accounts'[a].number
                                            /\ ~keys[upload[u].key].revoked
    OBVIOUS
  <2> PICK u \in Uploads : /\ upload[u].at = "verified" /\ a = AccountOf(u) /\ Accepted(u, a)
                           /\ accounts'[a].number = upload[u].number
    BY OnlyStoreCookies
  <2>1. accounts[a].number < upload[u].number
    BY DEF AccountsInv, QueueInv, Waiting
  <2>2. accounts[a].number \in Nat /\ upload[u].number \in Nat
    BY DEF AccountsInv, AccountsTypeOK, AccountRecords, UploadStates
  <2> QED BY <2>1, <2>2 DEF Accepted
<1> QED BY AccountsInvInit, AccountsInvNext, <1>1, PTL DEF AccountsSpec, CookiesNeverGoBack

(* Accounts, keys, uploads and the account being added keep their types     *)
(* (addAccount, syncCookies).                                               *)
THEOREM AccountsAlwaysTyped == AccountsSpec => []AccountsTypeOK
<1>1. AccountsInv => AccountsTypeOK
  BY DEF AccountsInv
<1> QED BY AccountsInvInit, AccountsInvNext, <1>1, PTL DEF AccountsSpec

-----------------------------------------------------------------------------
(* InboxPage.                                                               *)

(* An action that is still up to date.                                      *)
Current(what) == busy /\ action.does = what /\ action.current

(* The cookie is that of the mailbox opened last from the login on, unless  *)
(* another link was opened or the page cleared meanwhile; and such a link   *)
(* waits with an empty page for the end of an action of the past.           *)
PageInv ==
    /\ InboxTypeOK
    /\ shown # NoShare => shown = opened /\ ~needsLogin
    /\ ~needsLogin => cookieShare = opened
    /\ Current("refresh") =>
        /\ cookieShare = opened /\ ~needsLogin
        /\ action.answer = "ok" => action.share = opened
    /\ Current("login") => action.share = opened
    /\ busy /\ action.does \in {"login", "badLink"} => needsLogin
    /\ busy /\ action.does = "login" => action.share # NoShare
    /\ pendingShareLink # NoShare =>
        /\ busy /\ ~action.current /\ needsLogin
        /\ opened = IF pendingShareLink = Bad THEN NoShare ELSE pendingShareLink

(* What runAction runs is something, and stays so until it ends.            *)
LEMMA ActionIsBusy == \A a \in Actions : a # Idle
<1> SUFFICES ASSUME NEW a \in Actions, a = Idle PROVE FALSE
  OBVIOUS
<1>1. "share" \in DOMAIN a
  BY DEF Actions
<1>2. DOMAIN Idle = {"does"}
  BY DEF Idle
<1> QED BY <1>1, <1>2

LEMMA DoesIsAction ==
    ASSUME NEW what \in {"refresh", "login", "logout", "badLink"},
           NEW share \in Shares \cup {NoShare}
    PROVE  /\ Does(what, share) \in Actions /\ Does(what, share) # Idle
           /\ Does(what, share).does = what /\ Does(what, share).share = share
           /\ Does(what, share).current /\ Does(what, share).answer = "sent"
<1>1. Does(what, share) \in Actions
  BY DEF Does, Actions
<1> QED BY <1>1, ActionIsBusy DEF Does

LEMMA PageInvInit == InboxInit => PageInv
<1> SUFFICES ASSUME InboxInit PROVE PageInv
  OBVIOUS
<1>1. /\ action \in Actions /\ action # Idle /\ action.does = "refresh"
      /\ action.share = NoShare /\ action.answer = "sent"
  BY DoesIsAction DEF InboxInit
<1> QED BY <1>1 DEF InboxInit, PageInv, InboxTypeOK, Current, busy

(* A link is opened on an empty page.                                       *)
LEMMA OpensOnAnEmptyPage ==
    ASSUME NEW link \in Shares \cup {Bad}, openPendingShare(link)
    PROVE  /\ action' \in Actions /\ action' # Idle
           /\ action'.does \in {"login", "badLink"}
           /\ action'.does = "login" => action'.share = link /\ link \in Shares
           /\ needsLogin' = TRUE /\ accessUntil' = FALSE /\ shown' = NoShare
<1>1. CASE link = Bad
  BY <1>1, DoesIsAction DEF openPendingShare, clearMailbox, Page
<1>2. CASE link # Bad
  <2>1. action' = Does("login", link) /\ link \in Shares
    BY <1>2 DEF openPendingShare, login
  <2> QED BY <1>2, <2>1, DoesIsAction DEF openPendingShare, login, clearMailbox, Page
<1> QED BY <1>1, <1>2

(* An action that ends leaves the page to the next, or to the waiting link. *)
LEMMA EndsWithTheWaitingLink ==
    ASSUME PageInv, busy, NEW login_ \in BOOLEAN, NEW until \in BOOLEAN,
           NEW whose \in Shares \cup {NoShare}, Ends(login_, until, whose),
           pendingShareLink = NoShare =>
             (whose # NoShare => whose = opened /\ ~login_)
             /\ (~login_ => cookieShare' = opened),
           opened' = opened \/ (pendingShareLink = NoShare /\ opened' = NoShare
                                 /\ whose = NoShare /\ login_),
           active' = active \/ active' \subseteq Shares,
           cookieShare' \in Shares \cup {NoShare}, live' \in BOOLEAN
    PROVE  PageInv'
<1>1. CASE pendingShareLink = NoShare
  BY <1>1, ActionIsBusy DEF Ends, Page, PageInv, InboxTypeOK, Current, busy
<1>2. CASE pendingShareLink # NoShare
  <2>1. pendingShareLink \in Shares \cup {Bad} /\ opened' = opened
        /\ opened = IF pendingShareLink = Bad THEN NoShare ELSE pendingShareLink
    BY <1>2 DEF PageInv, InboxTypeOK
  <2>2. openPendingShare(pendingShareLink) /\ pendingShareLink' = NoShare
    BY <1>2 DEF Ends
  <2> QED BY <2>1, <2>2, OpensOnAnEmptyPage, InboxAssumption
          DEF PageInv, InboxTypeOK, Current, busy
<1> QED BY <1>1, <1>2

LEMMA PageInvNext ==
    ASSUME PageInv, [InboxNext]_inboxVars
    PROVE  PageInv'
<1> USE InboxAssumption
    DEF PageInv, InboxTypeOK, Actions, Current, Idle, busy, Page, clearMailbox, PageAsIs,
        serverSide, pageSide, Answers
<1>1. CASE handleShareLink
  <2> PICK link \in Shares \cup {Bad} :
        /\ opened' = IF link = Bad THEN NoShare ELSE link
        /\ IF busy
           THEN pendingShareLink' = link /\ action' = Outdated(action) /\ clearMailbox
           ELSE openPendingShare(link) /\ UNCHANGED pendingShareLink
    BY <1>1 DEF handleShareLink
  <2>1. CASE busy
    BY <1>1, <2>1 DEF handleShareLink, Outdated
  <2>2. CASE ~busy
    <3> HIDE DEF Actions, Idle
    <3>1. openPendingShare(link) /\ opened' = (IF link = Bad THEN NoShare ELSE link)
          /\ UNCHANGED <<active, cookieShare, live, pendingShareLink>>
      BY <1>1, <2>2 DEF handleShareLink
    <3>2. pendingShareLink = NoShare
      BY <2>2
    <3> QED BY <3>1, <3>2, OpensOnAnEmptyPage
  <2> QED BY <2>1, <2>2
<1>2. CASE Submit
  <2> PICK share \in Shares : login(share) /\ opened' = share
    BY <1>2 DEF Submit
  <2> HIDE DEF Actions, Idle
  <2>1. /\ action' \in Actions /\ action' # Idle /\ action'.does = "login"
        /\ action'.share = share
    BY DoesIsAction DEF login
  <2>2. /\ needsLogin' = TRUE /\ accessUntil' = FALSE /\ shown' = NoShare
        /\ pendingShareLink = NoShare
        /\ UNCHANGED <<active, cookieShare, live, pendingShareLink>>
    BY <1>2 DEF Submit, login
  <2> QED BY <2>1, <2>2
<1>3. CASE Refresh
  <2> HIDE DEF Actions, Idle
  <2> QED BY <1>3, DoesIsAction DEF Refresh
<1>4. CASE Logout
  <2> HIDE DEF Actions, Idle
  <2> QED BY <1>4, DoesIsAction DEF Logout
<1>5. CASE checkExpiry
  BY <1>5 DEF checkExpiry, Outdated
<1>6. CASE Changes
  BY <1>6 DEF Changes
<1>7. CASE SessionExpires
  BY <1>7 DEF SessionExpires
<1>8. CASE ServeRefresh
  BY <1>8 DEF ServeRefresh
<1>9. CASE ServeLogin
  BY <1>9 DEF ServeLogin
<1>10. CASE ServeLogout
  BY <1>10 DEF ServeLogout
<1>11. CASE Lost
  BY <1>11 DEF Lost
<1>12. CASE busy /\ RefreshAnswered
  <2> HIDE DEF Actions, Idle
  <2>0. action.does = "refresh" /\ UNCHANGED <<active, cookieShare, live, opened>>
        /\ action.share \in Shares \cup {NoShare}
    BY <1>12 DEF RefreshAnswered, Actions
  <2>1. CASE EndsAsIs
    BY <1>12, <2>0, <2>1, EndsWithTheWaitingLink DEF EndsAsIs
  <2>2. CASE EndsCleared
    BY <1>12, <2>0, <2>2, EndsWithTheWaitingLink DEF EndsCleared
  <2>3. CASE /\ action.current /\ action.answer = "ok"
             /\ \E until \in BOOLEAN : Ends(needsLogin, until, action.share)
    <3>1. cookieShare = opened /\ ~needsLogin /\ action.share = opened
      BY <1>12, <2>0, <2>3
    <3> QED BY <1>12, <2>0, <2>3, <3>1, EndsWithTheWaitingLink
  <2> QED BY <1>12, <2>1, <2>2, <2>3 DEF RefreshAnswered, UpToDate
<1>13. CASE busy /\ LoginAnswered
  <2> HIDE DEF Actions, Idle
  <2>0. cookieShare' \in Shares \cup {NoShare} /\ live' \in BOOLEAN
    BY <1>13 DEF LoginAnswered, Actions
  <2>1. CASE action' = Does("refresh", NoShare) /\ UNCHANGED pendingShareLink
             /\ UpToDate(action) /\ action.answer = "ok"
             /\ \E until \in BOOLEAN : Page(FALSE, until, NoShare)
    BY <1>13, <2>0, <2>1, DoesIsAction DEF LoginAnswered, UpToDate
  <2>2. CASE EndsCleared
    BY <1>13, <2>0, <2>2, EndsWithTheWaitingLink DEF LoginAnswered, EndsCleared
  <2>3. CASE ~UpToDate(action) /\ EndsAsIs
    BY <1>13, <2>0, <2>3, EndsWithTheWaitingLink DEF LoginAnswered, EndsAsIs
  <2> QED BY <1>13, <2>1, <2>2, <2>3 DEF LoginAnswered
<1>14. CASE busy /\ LogoutAnswered
  <2> HIDE DEF Actions, Idle
  <2> QED BY <1>14, EndsWithTheWaitingLink
          DEF LogoutAnswered, EndsAsIs, EndsCleared
<1>15. CASE Reload
  <2> HIDE DEF Actions, Idle
  <2>0. cookieShare' \in Shares \cup {NoShare} /\ live' \in BOOLEAN
    BY <1>15, ActionIsBusy DEF Reload, Actions
  <2> QED BY <1>15, <2>0, DoesIsAction DEF Reload
<1>16. CASE UNCHANGED inboxVars
  BY <1>16 DEF inboxVars
<1> QED BY <1>1, <1>2, <1>3, <1>4, <1>5, <1>6, <1>7, <1>8, <1>9, <1>10, <1>11, <1>12, <1>13,
           <1>14, <1>15, <1>16 DEF InboxNext, Answered

(* Whatever link is opened or deadline passes while an answer is under way, *)
(* the page shows mail of no mailbox but the one opened last, and only      *)
(* while it may refresh it (web/inbox.js: handleShareLink, refresh, login). *)
THEOREM PageShowsTheOpenedMailbox == InboxSpec => []OnlyTheOpenedMailbox
<1>1. PageInv => OnlyTheOpenedMailbox
  BY DEF PageInv, OnlyTheOpenedMailbox
<1> QED BY PageInvInit, PageInvNext, <1>1, PTL DEF InboxSpec

(* The page, its cookie and the action that runs keep their types           *)
(* (runAction, handleShareLink).                                            *)
THEOREM InboxAlwaysTyped == InboxSpec => []InboxTypeOK
<1>1. PageInv => InboxTypeOK
  BY DEF PageInv
<1> QED BY PageInvInit, PageInvNext, <1>1, PTL DEF InboxSpec

=============================================================================
