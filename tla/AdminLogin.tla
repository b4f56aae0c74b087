----------------------------- MODULE AdminLogin -----------------------------
(***************************************************************************)
(* The administrator's sessions of the hosted edition and the change of    *)
(* her password (hosted.mjs).  A login and a change read the platform file *)
(* once, verify the password typed for as long as scrypt takes, and then   *)
(* act on what they read; several of each run at once.                     *)
(***************************************************************************)
EXTENDS Naturals

CONSTANTS
    Calls,              \* logins and password changes
    Passwords,          \* passwords, right and wrong ones
    MaxPasswordChanges  \* bound on the changes

ASSUME AdminAssumption == MaxPasswordChanges \in Nat

VARIABLES
    admin,          \* state.admin on disk
    adminSessions,  \* sessions of kind "admin"
    call            \* where each login or change is

adminVars == <<admin, adminSessions, call>>

Admins == [version : 1..(MaxPasswordChanges + 1), password : Passwords]
NoCall == [at |-> "none"]

(* typed: the password being verified, or verified; read: what the call has *)
(* read of the platform file.                                               *)
VerifyingCalls == [at : {"login", "change"}, typed : Passwords, read : Admins]
HashingCalls == [at : {"hash"}, new : Passwords]

AdminTypeOK ==
    /\ admin \in Admins
    /\ adminSessions \subseteq Admins
    /\ call \in [Calls -> {NoCall} \cup VerifyingCalls \cup HashingCalls]

AdminInit ==
    /\ \E p \in Passwords : admin = [version |-> 1, password |-> p]
    /\ adminSessions = {}
    /\ call = [c \in Calls |-> NoCall]

Becomes(c, state) == call' = [call EXCEPT ![c] = state]

(* A login reads the administrator and starts to verify.                    *)
AdminLogin(c) ==
    /\ call[c] = NoCall
    /\ \E p \in Passwords : Becomes(c, [at |-> "login", typed |-> p, read |-> admin])
    /\ UNCHANGED <<admin, adminSessions>>

Session_Rereads(c) == [version |-> admin.version, password |-> call[c].typed]     \* mutant

(* A session carries the version that was read with the hash verified.      *)
Session(c) == [version |-> call[c].read.version, password |-> call[c].typed]

createSession(c) ==
    /\ call[c].at = "login"
    /\ adminSessions' = IF call[c].typed = call[c].read.password
                        THEN adminSessions \cup {Session(c)} ELSE adminSessions
    /\ Becomes(c, NoCall)
    /\ UNCHANGED admin

(* The principal of a request: its session's version is the current one.    *)
LoggedIn == {s \in adminSessions : s.version = admin.version}

(* A request to change the password; its session was checked, and it reads  *)
(* the administrator anew.                                                  *)
ChangePassword(c) ==
    /\ call[c] = NoCall /\ LoggedIn # {}
    /\ \E p \in Passwords : Becomes(c, [at |-> "change", typed |-> p, read |-> admin])
    /\ UNCHANGED <<admin, adminSessions>>

HashPassword(c) ==
    /\ call[c].at = "change"
    /\ IF call[c].typed = call[c].read.password
       THEN \E p \in Passwords : Becomes(c, [at |-> "hash", new |-> p])
       ELSE Becomes(c, NoCall)
    /\ UNCHANGED <<admin, adminSessions>>

(* The mutation writes hash and version; it does not verify again.          *)
PasswordChanged(c) ==
    /\ call[c].at = "hash"
    /\ admin.version <= MaxPasswordChanges
    /\ admin' = [version |-> admin.version + 1, password |-> call[c].new]
    /\ Becomes(c, NoCall)
    /\ UNCHANGED adminSessions

(* A call fails: its write, its connection, or the password is too short.   *)
CallFails(c) ==
    /\ call[c] # NoCall
    /\ Becomes(c, NoCall)
    /\ UNCHANGED <<admin, adminSessions>>

(* Logout, or a session that has expired.                                   *)
SessionEnds ==
    /\ \E s \in adminSessions : adminSessions' = adminSessions \ {s}
    /\ UNCHANGED <<admin, call>>

(* Sessions live in memory.                                                 *)
ServerRestarts ==
    /\ adminSessions' = {}
    /\ call' = [c \in Calls |-> NoCall]
    /\ UNCHANGED admin

AdminNext ==
    \/ \E c \in Calls :
        \/ AdminLogin(c) \/ createSession(c)
        \/ ChangePassword(c) \/ HashPassword(c) \/ PasswordChanged(c) \/ CallFails(c)
    \/ SessionEnds \/ ServerRestarts

AdminSpec == AdminInit /\ [][AdminNext]_adminVars

-----------------------------------------------------------------------------
(* A session that requests are accepted with was opened with the password   *)
(* that is in force: a password change ends all sessions, also those whose  *)
(* login was being verified meanwhile, and also when two changes overlap    *)
(* (hosted.mjs: login, the version of the principal, /admin-api/password).  *)
SessionsKnowThePassword ==
    \A s \in LoggedIn : s.password = admin.password

=============================================================================
