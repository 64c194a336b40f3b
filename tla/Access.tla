-------------------------------- MODULE Access --------------------------------
(***************************************************************************)
(* Who may sign in, and who administers: first-run setup, accounts and     *)
(* their activity, signing in and out, and changes of password. A request  *)
(* is resolved to its user once, when it begins; the checks and writes of  *)
(* its handler come later, and other requests come between. Rows that a    *)
(* transaction has locked make the writers of those rows wait.             *)
(*                                                                         *)
(* A password is the number of times it has been changed, and every        *)
(* request is taken to carry the one it is checked against. How often an   *)
(* account has been deactivated, and what sessions were issued under, are  *)
(* kept for the properties.                                                *)
(***************************************************************************)
EXTENDS Integers, FiniteSets

CONSTANTS
  Accounts,     \* the accounts there may be
  Requests,
  MaxTokens,    \* bound on the sessions issued
  MaxPasswords, \* bound on the changes of one password
  MaxChanges    \* bound on the accounts made, (de)activated or permitted

VARIABLES
  setup,     \* instance.setup_completed_at is set
  users,     \* the rows of users
  sessions,  \* the rows of sessions that have not expired
  req,       \* the requests being served
  revoked,   \* each completed change of a password and the session it kept
  tokens,    \* how many sessions have been issued
  changes    \* how many changes to accounts have been asked for

accessVars == <<setup, users, sessions, req, revoked, tokens, changes>>

Idle   == [pc |-> "idle"]
NoUser == [status |-> "none", admin |-> FALSE, reconciles |-> FALSE, password |-> 0, ended |-> 0]

NewUser(admin) == [NoUser EXCEPT !.status = "active", !.admin = admin]

InitAccess ==
  /\ setup = FALSE
  /\ users = [u \in Accounts |-> NoUser]
  /\ sessions = {}
  /\ req = [r \in Requests |-> Idle]
  /\ revoked = {}
  /\ tokens = 0
  /\ changes = 0

Exists(u) == users[u].status # "none"
Active(u) == users[u].status = "active"

ActiveAdmins == {u \in Accounts : Active(u) /\ users[u].admin}

(* The rows locked by other requests' transactions. *)
LockedFrom(r) ==
  UNION {req[s].locked : s \in {t \in Requests \ {r} : req[t].pc = "decide"}}

Change == changes < MaxChanges /\ changes' = changes + 1

Done(r) == req' = [req EXCEPT ![r] = Idle]

-----------------------------------------------------------------------------
(* The setup form is sent while setup is pending. *)
PostSetup(r) ==
  /\ req[r] = Idle
  /\ ~setup
  /\ req' = [req EXCEPT ![r] = [pc |-> "setup"]]
  /\ UNCHANGED <<setup, users, sessions, revoked, tokens, changes>>

(* Mutant of CompleteSetup: the handler's own check is enough. *)
CompleteSetupUnlatched(r) ==
  /\ req[r].pc = "setup"
  /\ \E u \in Accounts :
       /\ ~Exists(u)
       /\ setup' = TRUE
       /\ users' = [users EXCEPT ![u] = NewUser(TRUE)]
       /\ req' = [req EXCEPT ![r] = [pc |-> "issue", user |-> u]]
  /\ UNCHANGED <<sessions, revoked, tokens, changes>>

(* The latch is closed and the first administrator made, or neither: the one
   who is second to update the latch, or finds an account, is refused. *)
CompleteSetup(r) ==
  /\ req[r].pc = "setup"
  /\ IF ~setup /\ (\A u \in Accounts : ~Exists(u))
     THEN \E u \in Accounts :
            /\ setup' = TRUE
            /\ users' = [users EXCEPT ![u] = NewUser(TRUE)]
            /\ req' = [req EXCEPT ![r] = [pc |-> "issue", user |-> u]]
     ELSE Done(r) /\ UNCHANGED <<setup, users>>
  /\ UNCHANGED <<sessions, revoked, tokens, changes>>

(* The account is read, is active, and the password is right. *)
PostLogin(r, u) ==
  /\ req[r] = Idle
  /\ Active(u)
  /\ req' = [req EXCEPT ![r] = [pc |-> "issue", user |-> u]]
  /\ UNCHANGED <<setup, users, sessions, revoked, tokens, changes>>

(* A session is stored, whatever has become of the account since. *)
Issue(r) ==
  /\ req[r].pc = "issue"
  /\ tokens < MaxTokens
  /\ tokens' = tokens + 1
  /\ LET u == req[r].user IN
     sessions' = sessions \cup
       {[token |-> tokens + 1, user |-> u,
         password |-> users[u].password, ended |-> users[u].ended]}
  /\ Done(r)
  /\ UNCHANGED <<setup, users, revoked, changes>>

(* A request is resolved to the active user of its session. *)
Resolve(r, s) ==
  /\ req[r] = Idle
  /\ Active(s.user)
  /\ req' = [req EXCEPT ![r] = [pc |-> "acting", user |-> s.user, token |-> s.token]]
  /\ UNCHANGED <<setup, users, sessions, revoked, tokens, changes>>

Logout(r) ==
  /\ req[r].pc = "acting"
  /\ sessions' = {s \in sessions : s.token # req[r].token}
  /\ Done(r)
  /\ UNCHANGED <<setup, users, revoked, tokens, changes>>

Expire(s) ==
  /\ sessions' = sessions \ {s}
  /\ UNCHANGED <<setup, users, req, revoked, tokens, changes>>

-----------------------------------------------------------------------------
(* A request of an administrator. *)
Administers(r) == req[r].pc = "acting" /\ users[req[r].user].admin

CreateUser(r, u, admin) ==
  /\ Administers(r)
  /\ ~Exists(u)
  /\ Change
  /\ users' = [users EXCEPT ![u] = NewUser(admin)]
  /\ Done(r)
  /\ UNCHANGED <<setup, sessions, revoked, tokens>>

Reactivate(r, u) ==
  /\ Administers(r)
  /\ Exists(u) /\ u \notin LockedFrom(r)
  /\ Change
  /\ users' = [users EXCEPT ![u].status = "active"]
  /\ Done(r)
  /\ UNCHANGED <<setup, sessions, revoked, tokens>>

(* Mutant of Deactivate: the administrators are counted and not locked. *)
DeactivateUnlocked(r, u) ==
  /\ Administers(r)
  /\ Exists(u) /\ u # req[r].user
  /\ Change
  /\ req' = [req EXCEPT ![r] =
       [pc |-> "decide", target |-> u, admins |-> ActiveAdmins, locked |-> {}]]
  /\ UNCHANGED <<setup, users, sessions, revoked, tokens>>

(* Somebody deactivates somebody else: the active administrators are read and
   their rows locked. *)
Deactivate(r, u) ==
  /\ Administers(r)
  /\ Exists(u) /\ u # req[r].user
  /\ ActiveAdmins \cap LockedFrom(r) = {}
  /\ Change
  /\ req' = [req EXCEPT ![r] =
       [pc |-> "decide", target |-> u, admins |-> ActiveAdmins, locked |-> ActiveAdmins]]
  /\ UNCHANGED <<setup, users, sessions, revoked, tokens>>

(* Mutant of Decide: the sessions are left to the check of each request. *)
DecideLeavingSessions(r) ==
  /\ req[r].pc = "decide"
  /\ LET u == req[r].target IN
       IF req[r].admins = {u}
       THEN UNCHANGED users
       ELSE /\ u \notin LockedFrom(r)
            /\ users' = [users EXCEPT ![u].status = "inactive", ![u].ended = @ + 1]
  /\ Done(r)
  /\ UNCHANGED <<setup, sessions, revoked, tokens, changes>>

(* The last administrator is kept. Anybody else is deactivated and their
   sessions deleted, in the transaction that holds the locks. *)
Decide(r) ==
  /\ req[r].pc = "decide"
  /\ LET u == req[r].target IN
       IF req[r].admins = {u}
       THEN UNCHANGED <<users, sessions>>
       ELSE /\ u \notin LockedFrom(r)
            /\ users' = [users EXCEPT ![u].status = "inactive", ![u].ended = @ + 1]
            /\ sessions' = {s \in sessions : s.user # u}
  /\ Done(r)
  /\ UNCHANGED <<setup, revoked, tokens, changes>>

(* The permission to reconcile: granted to administrators only. *)
SetCanReconcile(r, u, on) ==
  /\ Administers(r)
  /\ Exists(u) /\ u \notin LockedFrom(r)
  /\ Change
  /\ users' = [users EXCEPT ![u].reconciles = IF on THEN users[u].admin ELSE FALSE]
  /\ Done(r)
  /\ UNCHANGED <<setup, sessions, revoked, tokens>>

-----------------------------------------------------------------------------
(* The new password is stored first. *)
PostPassword(r) ==
  /\ req[r].pc = "acting"
  /\ req[r].user \notin LockedFrom(r)
  /\ users[req[r].user].password < MaxPasswords
  /\ users' = [users EXCEPT ![req[r].user].password = @ + 1]
  /\ req' = [req EXCEPT ![r] =
       [pc |-> "revoke", user |-> req[r].user, token |-> req[r].token,
        password |-> users[req[r].user].password + 1]]
  /\ UNCHANGED <<setup, sessions, revoked, tokens, changes>>

(* Mutant of RevokeOthers: the newest session is taken to be the one asking. *)
RevokeOthersByAge(r) ==
  /\ req[r].pc = "revoke"
  /\ LET u == req[r].user
         mine == {s \in sessions : s.user = u}
     IN sessions' = {s \in sessions : s.user # u \/ \A t \in mine : t.token <= s.token}
  /\ revoked' = revoked \cup
       {[user |-> req[r].user, password |-> req[r].password, token |-> req[r].token]}
  /\ Done(r)
  /\ UNCHANGED <<setup, users, tokens, changes>>

(* Then every other session of the user is ended. *)
RevokeOthers(r) ==
  /\ req[r].pc = "revoke"
  /\ sessions' = {s \in sessions : s.user # req[r].user \/ s.token = req[r].token}
  /\ revoked' = revoked \cup
       {[user |-> req[r].user, password |-> req[r].password, token |-> req[r].token]}
  /\ Done(r)
  /\ UNCHANGED <<setup, users, tokens, changes>>

(* A read or a write fails, or the process stops: the transaction is rolled
   back, and what was stored before it stays. *)
Fail(r) ==
  /\ req[r] # Idle
  /\ Done(r)
  /\ UNCHANGED <<setup, users, sessions, revoked, tokens, changes>>

Serve(r) ==
  \/ PostSetup(r) \/ CompleteSetup(r) \/ Issue(r) \/ Logout(r)
  \/ Decide(r) \/ PostPassword(r) \/ RevokeOthers(r) \/ Fail(r)
  \/ \E s \in sessions : Resolve(r, s)
  \/ \E u \in Accounts :
       \/ PostLogin(r, u) \/ Reactivate(r, u) \/ Deactivate(r, u)
       \/ \E b \in BOOLEAN : CreateUser(r, u, b) \/ SetCanReconcile(r, u, b)

NextAccess == (\E r \in Requests : Serve(r)) \/ (\E s \in sessions : Expire(s))

AccessSpec == InitAccess /\ [][NextAccess]_accessVars

-----------------------------------------------------------------------------
UserRows ==
  [status : {"none", "active", "inactive"}, admin : BOOLEAN, reconciles : BOOLEAN,
   password : Nat, ended : Nat]

SessionRows == [token : Nat, user : Accounts, password : Nat, ended : Nat]

RequestStates ==
  {Idle} \cup [pc : {"setup"}] \cup [pc : {"issue"}, user : Accounts]
    \cup [pc : {"acting"}, user : Accounts, token : Nat]
    \cup [pc : {"decide"}, target : Accounts, admins : SUBSET Accounts, locked : SUBSET Accounts]
    \cup [pc : {"revoke"}, user : Accounts, token : Nat, password : Nat]

TypeOK ==
  /\ setup \in BOOLEAN
  /\ users \in [Accounts -> UserRows]
  /\ sessions \subseteq SessionRows
  /\ req \in [Requests -> RequestStates]
  /\ revoked \subseteq [user : Accounts, password : Nat, token : Nat]
  /\ tokens \in Nat
  /\ changes \in Nat

(* Once set up, the instance has an active administrator, although two of them
   may deactivate each other at once, and one who has been deactivated may be
   in the middle of deactivating the other. *)
AdminRemains == setup => ActiveAdmins # {}

(* After the first account, which setup makes, every account is made by a
   request of an administrator, however many passed the check that setup is
   pending. *)
MadeByAdmins ==
  [][ \A u \in Accounts :
        (\E v \in Accounts : Exists(v)) /\ ~Exists(u) /\ Exists(u)'
          => \E r \in Requests : Administers(r) /\ req'[r] = Idle ]_accessVars

(* A change of password that was seen through ended every session issued
   before it but the one it was made from, also when two sessions of one person
   change it at once. *)
ChangeEndsOthers ==
  \A c \in revoked, s \in sessions :
    s.user = c.user /\ s.password < c.password => s.token = c.token

(* No session issued before its account was deactivated comes back when the
   account is reactivated. *)
DeactivationEndsSessions == \A s \in sessions : s.ended = users[s.user].ended
=============================================================================
