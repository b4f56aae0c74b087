------------------------------ MODULE InboxPage -----------------------------
(***************************************************************************)
(* The reader's page of the hosted edition (web/inbox.js): share links,    *)
(* logins, refreshes and logouts, one action at a time, with the server's  *)
(* session behind the page's cookie (hosted.mjs, opened up in MailAccess). *)
(*                                                                         *)
(* A share link can be opened at any time, also while an action waits for  *)
(* its answer, and a deadline can pass.  One page uses the cookie.  A      *)
(* request that fails on its way has reached the server or not.            *)
(***************************************************************************)

CONSTANTS
    Shares,         \* share links
    Bad,            \* a link that is incomplete
    NoShare         \* no link, no mailbox, no session

ASSUME InboxAssumption == Bad \notin Shares /\ NoShare \notin Shares \cup {Bad}

VARIABLES
    active,             \* server: the shares whose grants are active
    cookieShare,        \* the mailbox of the session in the cookie
    live,               \* server: it still has that session
    needsLogin,
    accessUntil,        \* a deadline of the mailbox is known
    shown,              \* whose mail is on the page
    pendingShareLink,
    action,             \* what runAction runs, if anything
    opened              \* history: the mailbox the reader opened last

serverSide == <<active, cookieShare, live>>
pageSide == <<needsLogin, accessUntil, shown, pendingShareLink>>
inboxVars == <<serverSide, pageSide, action, opened>>

(* answer: "sent" until there is one.  current: no clearMailbox since the   *)
(* action took its copy of accessVersion.                                   *)
Actions == [does : {"refresh", "login", "logout", "badLink"}, share : Shares \cup {NoShare},
            current : BOOLEAN, answer : {"sent", "ok", "refused", "error"}]
Idle == [does |-> "nothing"]
busy == action # Idle

InboxTypeOK ==
    /\ active \subseteq Shares
    /\ cookieShare \in Shares \cup {NoShare} /\ live \in BOOLEAN
    /\ needsLogin \in BOOLEAN /\ accessUntil \in BOOLEAN
    /\ shown \in Shares \cup {NoShare}
    /\ pendingShareLink \in Shares \cup {Bad, NoShare}
    /\ action \in Actions \cup {Idle}
    /\ opened \in Shares \cup {NoShare}

Does(what, share) == [does |-> what, share |-> share, current |-> TRUE, answer |-> "sent"]

(* The page is loaded: with the session of an earlier visit, or without.    *)
InboxInit ==
    /\ active \in SUBSET Shares
    /\ cookieShare \in Shares \cup {NoShare} /\ live = (cookieShare # NoShare)
    /\ needsLogin = FALSE /\ accessUntil = FALSE
    /\ shown = NoShare /\ pendingShareLink = NoShare
    /\ action = Does("refresh", NoShare)
    /\ opened = cookieShare

-----------------------------------------------------------------------------
(* The page.                                                                *)

Page(login, until, whose) ==
    needsLogin' = login /\ accessUntil' = until /\ shown' = whose

PageAsIs == Page(needsLogin, accessUntil, shown)
clearMailbox == Page(TRUE, FALSE, NoShare)

Outdated(a) == IF busy THEN [a EXCEPT !.current = FALSE] ELSE a

login(share) == action' = Does("login", share) /\ clearMailbox

openPendingShare(link) ==
    IF link = Bad THEN action' = Does("badLink", NoShare) /\ clearMailbox ELSE login(link)

(* handleShareLink: whatever the page does now belongs to the past.         *)
handleShareLink ==
    /\ \E link \in Shares \cup {Bad} :
        /\ opened' = IF link = Bad THEN NoShare ELSE link
        /\ IF busy
           THEN pendingShareLink' = link /\ action' = Outdated(action) /\ clearMailbox
           ELSE openPendingShare(link) /\ UNCHANGED pendingShareLink
    /\ UNCHANGED serverSide

(* The login form, which is there while no mailbox is.                      *)
Submit ==
    /\ ~busy /\ shown = NoShare
    /\ \E share \in Shares : login(share) /\ opened' = share
    /\ UNCHANGED <<serverSide, pendingShareLink>>

(* The button and the timer; refresh returns at once if needsLogin.         *)
Refresh ==
    /\ ~busy /\ shown # NoShare /\ ~needsLogin
    /\ action' = Does("refresh", NoShare)
    /\ UNCHANGED <<serverSide, pageSide, opened>>

Logout ==
    /\ ~busy /\ shown # NoShare
    /\ action' = Does("logout", NoShare)
    /\ UNCHANGED <<serverSide, pageSide, opened>>

(* The timer of setExpiry, or the page becoming visible after the deadline. *)
checkExpiry ==
    /\ accessUntil
    /\ clearMailbox
    /\ action' = Outdated(action)
    /\ UNCHANGED <<serverSide, pendingShareLink, opened>>

-----------------------------------------------------------------------------
(* The server.                                                              *)

Changes ==
    /\ active' \in SUBSET Shares
    /\ UNCHANGED <<cookieShare, live, pageSide, action, opened>>

SessionExpires ==
    /\ live
    /\ live' = FALSE
    /\ UNCHANGED <<active, cookieShare, pageSide, action, opened>>

Answers(what) == action' = [action EXCEPT !.answer = what]

(* GET messages: 401 and the like without session or grant.                 *)
ServeRefresh ==
    /\ busy /\ action.answer = "sent" /\ action.does = "refresh"
    /\ IF live /\ cookieShare \in active
       THEN action' = [action EXCEPT !.answer = "ok", !.share = cookieShare]
       ELSE Answers("refused")
    /\ UNCHANGED <<serverSide, pageSide, opened>>

(* POST login ends the session of the cookie before it looks at the token.  *)
ServeLogin ==
    /\ busy /\ action.answer = "sent" /\ action.does = "login"
    /\ live' = FALSE
    /\ Answers(IF action.share \in active THEN "ok" ELSE "refused")
    /\ UNCHANGED <<active, cookieShare, pageSide, opened>>

ServeLogout ==
    /\ busy /\ action.answer = "sent" /\ action.does \in {"logout", "badLink"}
    /\ live' = FALSE
    /\ Answers(IF live THEN "ok" ELSE "refused")
    /\ UNCHANGED <<active, cookieShare, pageSide, opened>>

(* The request or its answer is lost, the server is busy or in trouble.     *)
Lost ==
    /\ busy
    /\ Answers("error")
    /\ UNCHANGED <<serverSide, pageSide, opened>>

-----------------------------------------------------------------------------
(* The answers.                                                             *)

(* runAction's finally: a link that came meanwhile is opened now.           *)
Ends(login_, until, whose) ==
    /\ pendingShareLink' = NoShare
    /\ IF pendingShareLink = NoShare
       THEN action' = Idle /\ Page(login_, until, whose)
       ELSE openPendingShare(pendingShareLink)

EndsAsIs == Ends(needsLogin, accessUntil, shown)
EndsCleared == Ends(TRUE, FALSE, NoShare)

UpToDate_Always(a) == TRUE          \* mutant

(* version === accessVersion                                                *)
UpToDate(a) == a.current

(* setExpiry finds the deadline passed, ahead, or none.                     *)
RefreshAnswered ==
    /\ action.does = "refresh"
    /\ CASE ~UpToDate(action) -> EndsAsIs
         [] UpToDate(action) /\ action.answer = "ok" ->
                \/ EndsCleared
                \/ \E until \in BOOLEAN : Ends(needsLogin, until, action.share)
         [] UpToDate(action) /\ action.answer = "refused" -> EndsCleared
         [] OTHER -> EndsAsIs
    /\ UNCHANGED <<serverSide, opened>>

(* Set-Cookie takes effect whatever the page makes of the answer.           *)
LoginAnswered ==
    /\ action.does = "login"
    /\ CASE action.answer = "ok" -> cookieShare' = action.share /\ live' = TRUE
         [] action.answer = "refused" -> cookieShare' = NoShare /\ live' = FALSE
         [] OTHER -> UNCHANGED <<cookieShare, live>>
    /\ CASE ~UpToDate(action) -> EndsAsIs
         [] UpToDate(action) /\ action.answer = "ok" ->
                \/ EndsCleared
                \/ /\ \E until \in BOOLEAN : Page(FALSE, until, NoShare)
                   /\ action' = Does("refresh", NoShare)
                   /\ UNCHANGED pendingShareLink
         [] OTHER -> EndsCleared
    /\ UNCHANGED <<active, opened>>

LogoutAnswered ==
    /\ action.does \in {"logout", "badLink"}
    /\ cookieShare' = IF action.answer = "ok" THEN NoShare ELSE cookieShare
    /\ IF action.does = "logout" /\ action.answer = "ok"
       THEN EndsCleared /\ opened' = IF action.current THEN NoShare ELSE opened
       ELSE EndsAsIs /\ UNCHANGED opened
    /\ UNCHANGED <<active, live>>

Answered ==
    /\ busy /\ action.answer # "sent"
    /\ RefreshAnswered \/ LoginAnswered \/ LogoutAnswered

(* The reader reloads the page; a Set-Cookie may have been seen or not.     *)
Reload ==
    /\ needsLogin' = FALSE /\ accessUntil' = FALSE /\ shown' = NoShare
    /\ pendingShareLink' = NoShare
    /\ action' = Does("refresh", NoShare)
    /\ \/ UNCHANGED <<cookieShare, live>>
       \/ /\ busy /\ action.does = "login" /\ action.answer = "ok"
          /\ cookieShare' = action.share /\ live' = TRUE
    /\ opened' = cookieShare'
    /\ UNCHANGED active

InboxNext ==
    \/ handleShareLink \/ Submit \/ Refresh \/ Logout \/ checkExpiry
    \/ Changes \/ SessionExpires \/ ServeRefresh \/ ServeLogin \/ ServeLogout \/ Lost
    \/ Answered \/ Reload

InboxSpec == InboxInit /\ [][InboxNext]_inboxVars

-----------------------------------------------------------------------------
(* The page shows mail of no mailbox but the one opened last, and only      *)
(* while it may refresh it: answers under way when another link was opened, *)
(* a deadline passed or an incomplete link cleared the page do not bring    *)
(* mail back (handleShareLink, clearMailbox, refresh, login).               *)
OnlyTheOpenedMailbox == shown # NoShare => shown = opened /\ ~needsLogin

=============================================================================
