------------------------------- MODULE WebProofs -------------------------------
(***************************************************************************)
(* Theorems about Access, for any accounts and requests and any number of  *)
(* sessions, passwords and changes; and about Suggest and Pages, for any   *)
(* lines, payments, settings and people.                                   *)
(*                                                                         *)
(* That an administrator remains is not inductive: it needs what the locks *)
(* of an unfinished deactivation keep true (Held, Apart), and that nobody  *)
(* exists before setup (Made). The sessions need that what a change of     *)
(* password recorded is not ahead of the account (Recorded).               *)
(*                                                                         *)
(* A suggestion is fair because each round settles what it uses (Settled). *)
(* The two queries for undecided payments agree because what a match or a  *)
(* line names is reconciliation's own (Tied), and what is reconciliation's *)
(* own is named by one of them or undone (Backed).                         *)
(***************************************************************************)
EXTENDS Access, PageViews, FiniteSums, SequenceTheorems

-----------------------------------------------------------------------------
(* Access. *)

(* Who does not exist has nothing, and somebody exists only after setup. *)
Made ==
  \A u \in Accounts : /\ users[u].status = "none" => users[u] = NoUser
                      /\ Exists(u) => setup

Deciding(r) == req[r].pc = "decide"

(* The administrators a deactivation has read are locked, still active, and
   not none; whom it is about exists. *)
Held ==
  \A r \in Requests : Deciding(r) =>
    /\ req[r].admins = req[r].locked
    /\ req[r].admins # {}
    /\ req[r].admins \subseteq ActiveAdmins
    /\ Exists(req[r].target)

(* No two of them have locked the same row. *)
Apart ==
  \A r, s \in Requests :
    Deciding(r) /\ Deciding(s) /\ r # s => req[r].locked \cap req[s].locked = {}

(* A password that a change has stored is the account's, or an earlier one. *)
Recorded ==
  /\ \A r \in Requests :
       req[r].pc = "revoke" => req[r].password <= users[req[r].user].password
  /\ \A c \in revoked : c.password <= users[c.user].password

(* A session, and a request that goes on by one, are of somebody. *)
Owned ==
  /\ \A s \in sessions : Exists(s.user)
  /\ \A r \in Requests : req[r].pc \in {"issue", "acting"} => Exists(req[r].user)

IInv ==
  /\ TypeOK /\ Made /\ Owned /\ Held /\ Apart /\ Recorded
  /\ AdminRemains /\ ChangeEndsOthers /\ DeactivationEndsSessions

-----------------------------------------------------------------------------
(* Moves of a request that touch no row: it starts, is resolved, or ends. *)
Moves(r, to) ==
  /\ req' = [req EXCEPT ![r] = to]
  /\ UNCHANGED <<setup, users, revoked>>
  /\ sessions' \subseteq sessions
  /\ tokens' = tokens /\ changes' = changes

LEMMA InitHolds == InitAccess => IInv
<1> SUFFICES ASSUME InitAccess PROVE IInv
  OBVIOUS
<1>1. NoUser \in UserRows /\ NoUser.status = "none"
  BY DEF NoUser, UserRows
<1>2. Idle \in RequestStates /\ Idle.pc = "idle"
  BY DEF Idle, RequestStates
<1>3. TypeOK
  BY <1>1, <1>2 DEF InitAccess, TypeOK
<1>4. Made
  BY <1>1 DEF InitAccess, Made, Exists
<1>5. Owned /\ Held /\ Apart /\ Recorded
  BY <1>2 DEF InitAccess, Owned, Held, Apart, Recorded, Deciding
<1>6. AdminRemains /\ ChangeEndsOthers /\ DeactivationEndsSessions
  BY DEF InitAccess, AdminRemains, ChangeEndsOthers, DeactivationEndsSessions
<1>7. QED BY <1>3, <1>4, <1>5, <1>6 DEF IInv

(* Held, Apart and Recorded after a request with no lock and no stored
   password takes the place of another, the rows being what they were. *)
LEMMA MovesPreserve ==
  ASSUME IInv, NEW r \in Requests, NEW to \in RequestStates, Moves(r, to),
         to.pc \notin {"decide", "revoke"}, to.pc \in {"issue", "acting"} => Exists(to.user)
  PROVE  IInv'
<1> USE DEF IInv
<1>1. TypeOK'
  BY DEF TypeOK, Moves
<1>2. Made'
  BY DEF Made, Moves, Exists
<1>3. Held'
  BY DEF TypeOK, Held, Moves, Deciding, ActiveAdmins, Active, Exists
<1>4. Apart'
  BY DEF TypeOK, Apart, Moves, Deciding
<1>5. Recorded'
  BY DEF TypeOK, Recorded, Moves
<1>6. AdminRemains' /\ ChangeEndsOthers' /\ DeactivationEndsSessions'
  BY DEF AdminRemains, ChangeEndsOthers, DeactivationEndsSessions, Moves, ActiveAdmins, Active
<1>7. Owned'
  BY DEF TypeOK, Owned, Moves, Exists
<1>8. QED BY <1>1, <1>2, <1>3, <1>4, <1>5, <1>6, <1>7

LEMMA EasyMoves ==
  ASSUME IInv, NEW r \in Requests,
         \/ PostSetup(r) \/ Logout(r) \/ Fail(r)
         \/ \E s \in sessions : Resolve(r, s)
         \/ \E u \in Accounts : PostLogin(r, u)
  PROVE  IInv'
<1>1. CASE PostSetup(r)
  <2>1. [pc |-> "setup"] \in RequestStates BY DEF RequestStates
  <2>2. Moves(r, [pc |-> "setup"]) BY <1>1 DEF PostSetup, Moves
  <2>3. QED BY <2>1, <2>2, MovesPreserve
<1>2. CASE Logout(r)
  <2>1. Idle \in RequestStates BY DEF RequestStates
  <2>2. Moves(r, Idle) BY <1>2 DEF Logout, Moves, Done
  <2>3. QED BY <2>1, <2>2, MovesPreserve DEF Idle
<1>3. CASE Fail(r)
  <2>1. Idle \in RequestStates BY DEF RequestStates
  <2>2. Moves(r, Idle) BY <1>3 DEF Fail, Moves, Done
  <2>3. QED BY <2>1, <2>2, MovesPreserve DEF Idle
<1>4. CASE \E s \in sessions : Resolve(r, s)
  <2>1. PICK s \in sessions : Resolve(r, s) BY <1>4
  <2> DEFINE to == [pc |-> "acting", user |-> s.user, token |-> s.token]
  <2>2. to \in RequestStates BY DEF RequestStates, IInv, TypeOK, SessionRows
  <2>3. Moves(r, to) BY <2>1 DEF Resolve, Moves
  <2>4. Exists(to.user) BY <2>1 DEF Resolve, Active, Exists
  <2>5. QED BY <2>2, <2>3, <2>4, MovesPreserve
<1>5. CASE \E u \in Accounts : PostLogin(r, u)
  <2>1. PICK u \in Accounts : PostLogin(r, u) BY <1>5
  <2> DEFINE to == [pc |-> "issue", user |-> u]
  <2>2. to \in RequestStates BY DEF RequestStates
  <2>3. Moves(r, to) BY <2>1 DEF PostLogin, Moves
  <2>4. Exists(to.user) BY <2>1 DEF PostLogin, Active, Exists
  <2>5. QED BY <2>2, <2>3, <2>4, MovesPreserve
<1>6. QED BY <1>1, <1>2, <1>3, <1>4, <1>5

(* What a request that holds no lock does to the rows of users: locked rows
   keep their standing, and everybody's password and endings stay. *)
Grants(r, to) ==
  /\ req' = [req EXCEPT ![r] = to]
  /\ UNCHANGED <<sessions, revoked, tokens>>
  /\ setup' \in BOOLEAN /\ changes' \in Nat
  /\ users' \in [Accounts -> UserRows]
  /\ \A u \in Accounts :
       /\ users'[u].password = users[u].password
       /\ users'[u].ended = users[u].ended
       /\ users[u].status # "none" => users'[u].status # "none"
       /\ users[u].status = "active" /\ users[u].admin
            => users'[u].status = "active" /\ users'[u].admin
  /\ setup => setup'
  /\ setup' /\ ~setup => \E u \in Accounts : users'[u].status = "active" /\ users'[u].admin

LEMMA GrantsPreserve ==
  ASSUME IInv, NEW r \in Requests, NEW to \in RequestStates, Grants(r, to),
         to.pc \notin {"decide", "revoke"},
         to.pc \in {"issue", "acting"} => users'[to.user].status # "none",
         Made'
  PROVE  IInv'
<1> USE DEF IInv, Grants
<1>1. TypeOK'
  BY DEF TypeOK
<1>2. ActiveAdmins \subseteq ActiveAdmins'
  BY DEF ActiveAdmins, Active
<1>3. ASSUME NEW s \in Requests, req'[s].pc \in {"decide", "revoke"}
      PROVE  s # r /\ req'[s] = req[s]
  BY <1>3 DEF TypeOK
<1>4. Held'
  <2> SUFFICES ASSUME NEW s \in Requests, req'[s].pc = "decide"
               PROVE  /\ req'[s].admins = req'[s].locked
                      /\ req'[s].admins # {}
                      /\ req'[s].admins \subseteq ActiveAdmins'
                      /\ users'[req'[s].target].status # "none"
    BY DEF Held, Deciding, Exists
  <2>1. req'[s] = req[s] BY <1>3
  <2>2. req[s].target \in Accounts BY <2>1 DEF TypeOK, RequestStates, Idle
  <2>3. QED BY <1>2, <2>1, <2>2 DEF Held, Deciding, Exists
<1>5. Apart'
  BY <1>3 DEF Apart, Deciding
<1>6. Recorded'
  <2>1. ASSUME NEW s \in Requests, req'[s].pc = "revoke"
        PROVE  req'[s].password <= users'[req'[s].user].password
    <3>1. req'[s] = req[s] BY <1>3, <2>1
    <3>2. req[s].user \in Accounts BY <2>1, <3>1 DEF TypeOK, RequestStates, Idle
    <3>3. QED BY <2>1, <3>1, <3>2 DEF Recorded
  <2>2. \A c \in revoked' : c.password <= users'[c.user].password
    BY DEF Recorded, TypeOK
  <2>3. QED BY <2>1, <2>2 DEF Recorded
<1>7. AdminRemains'
  BY <1>2 DEF AdminRemains, ActiveAdmins, Active, TypeOK
<1>8. ChangeEndsOthers'
  BY DEF ChangeEndsOthers
<1>9. DeactivationEndsSessions'
  BY DEF DeactivationEndsSessions, TypeOK, SessionRows
<1>10. Owned'
  <2>1. ASSUME NEW s \in sessions'
        PROVE  users'[s.user].status # "none"
    BY DEF Owned, Exists, TypeOK, SessionRows
  <2>2. ASSUME NEW s \in Requests \ {r}, req'[s].pc \in {"issue", "acting"}
        PROVE  users'[req'[s].user].status # "none"
    <3>1. req'[s] = req[s] BY DEF TypeOK
    <3>2. req[s].user \in Accounts BY <2>2, <3>1 DEF TypeOK, RequestStates, Idle
    <3>3. QED BY <2>2, <3>1, <3>2 DEF Owned, Exists
  <2>3. req'[r] = to BY DEF TypeOK
  <2>4. QED BY <2>1, <2>2, <2>3 DEF Owned, Exists
<1>11. QED BY <1>1, <1>4, <1>5, <1>6, <1>7, <1>8, <1>9, <1>10

LEMMA CompleteSetupPreserves ==
  ASSUME IInv, NEW r \in Requests, CompleteSetup(r)
  PROVE  IInv'
<1> USE DEF IInv
<1>1. CASE UNCHANGED <<setup, users>>
  <2>1. Idle \in RequestStates BY DEF RequestStates
  <2>2. \/ Moves(r, Idle)
        \/ \E u \in Accounts : /\ ~Exists(u)
                               /\ users' = [users EXCEPT ![u] = NewUser(TRUE)]
    BY <1>1 DEF CompleteSetup, Moves, Done
  <2>3. CASE Moves(r, Idle) BY <2>1, <2>3, MovesPreserve DEF Idle
  <2>4. CASE \E u \in Accounts : /\ ~Exists(u)
                              /\ users' = [users EXCEPT ![u] = NewUser(TRUE)]
    BY <1>1, <2>4 DEF TypeOK, Exists, NewUser, NoUser, UserRows
  <2>5. QED BY <2>2, <2>3, <2>4
<1>2. CASE ~UNCHANGED <<setup, users>>
  <2>1. PICK u \in Accounts :
          /\ setup' = TRUE /\ ~setup
          /\ users' = [users EXCEPT ![u] = NewUser(TRUE)]
          /\ req' = [req EXCEPT ![r] = [pc |-> "issue", user |-> u]]
          /\ \A v \in Accounts : ~Exists(v)
    BY <1>2 DEF CompleteSetup
  <2> DEFINE to == [pc |-> "issue", user |-> u]
  <2>2. to \in RequestStates BY DEF RequestStates
  <2>3. /\ users[u] = NoUser
        /\ users'[u] = NewUser(TRUE)
        /\ users' \in [Accounts -> UserRows]
        /\ \A v \in Accounts \ {u} : users'[v] = users[v]
    BY <2>1 DEF TypeOK, Made, Exists, NewUser, NoUser, UserRows
  <2>4. /\ NewUser(TRUE).status = "active" /\ NewUser(TRUE).admin
        /\ NewUser(TRUE).password = NoUser.password /\ NewUser(TRUE).ended = NoUser.ended
    BY DEF NewUser, NoUser
  <2>5. Made' BY <2>1, <2>3, <2>4 DEF Made, Exists
  <2>6. Grants(r, to)
    BY <2>1, <2>3, <2>4 DEF Grants, CompleteSetup, TypeOK, Exists
  <2>7. users'[to.user].status # "none" BY <2>3, <2>4
  <2>8. QED BY <2>2, <2>5, <2>6, <2>7, GrantsPreserve
<1>3. QED BY <1>1, <1>2

LEMMA CreateUserPreserves ==
  ASSUME IInv, NEW r \in Requests, NEW u \in Accounts, NEW admin \in BOOLEAN,
         CreateUser(r, u, admin)
  PROVE  IInv'
<1> USE DEF IInv
<1>1. Idle \in RequestStates /\ Idle.pc = "idle"
  BY DEF RequestStates, Idle
<1>2. /\ users[u] = NoUser
      /\ users'[u] = NewUser(admin)
      /\ users' \in [Accounts -> UserRows]
      /\ \A v \in Accounts \ {u} : users'[v] = users[v]
  BY DEF CreateUser, TypeOK, Made, Exists, NewUser, NoUser, UserRows
<1>3. /\ NewUser(admin).status = "active"
      /\ NewUser(admin).password = NoUser.password /\ NewUser(admin).ended = NoUser.ended
  BY DEF NewUser, NoUser
<1>4. setup
  <2>1. req[r].user \in Accounts
    BY DEF CreateUser, Administers, TypeOK, RequestStates, Idle
  <2>2. users[req[r].user] # NoUser
    BY DEF CreateUser, Administers, NoUser
  <2>3. QED BY <2>1, <2>2 DEF Made, Exists
<1>5. Made'
  BY <1>2, <1>3, <1>4 DEF CreateUser, Made, Exists
<1>6. NoUser.status = "none"
  BY DEF NoUser
<1>7. Grants(r, Idle)
  BY <1>2, <1>3, <1>6 DEF Grants, CreateUser, Change, Done, TypeOK
<1>8. QED BY <1>1, <1>5, <1>7, GrantsPreserve

LEMMA ReactivatePreserves ==
  ASSUME IInv, NEW r \in Requests, NEW u \in Accounts, Reactivate(r, u)
  PROVE  IInv'
<1> USE DEF IInv
<1>1. Idle \in RequestStates /\ Idle.pc = "idle"
  BY DEF RequestStates, Idle
<1>2. /\ users'[u] = [users[u] EXCEPT !.status = "active"]
      /\ users[u] \in UserRows
      /\ users' \in [Accounts -> UserRows]
      /\ \A v \in Accounts \ {u} : users'[v] = users[v]
  BY DEF Reactivate, TypeOK, UserRows
<1>3. Made'
  BY <1>2 DEF Reactivate, Made, Exists, UserRows
<1>4. Grants(r, Idle)
  BY <1>2 DEF Grants, Reactivate, Change, Done, TypeOK, UserRows
<1>5. QED BY <1>1, <1>3, <1>4, GrantsPreserve

LEMMA SetCanReconcilePreserves ==
  ASSUME IInv, NEW r \in Requests, NEW u \in Accounts, NEW on \in BOOLEAN,
         SetCanReconcile(r, u, on)
  PROVE  IInv'
<1> USE DEF IInv
<1>1. Idle \in RequestStates /\ Idle.pc = "idle"
  BY DEF RequestStates, Idle
<1>2. /\ users[u] \in UserRows
      /\ users' \in [Accounts -> UserRows]
      /\ \A v \in Accounts \ {u} : users'[v] = users[v]
      /\ users'[u].status = users[u].status /\ users'[u].admin = users[u].admin
      /\ users'[u].password = users[u].password /\ users'[u].ended = users[u].ended
  BY DEF SetCanReconcile, TypeOK, UserRows
<1>3. Made'
  BY <1>2 DEF SetCanReconcile, Made, Exists
<1>4. Grants(r, Idle)
  BY <1>2 DEF Grants, SetCanReconcile, Change, Done, TypeOK, UserRows
<1>5. QED BY <1>1, <1>3, <1>4, GrantsPreserve

-----------------------------------------------------------------------------
(* A deactivation begins: with the locks it takes it joins the others. *)
LEMMA DeactivatePreserves ==
  ASSUME IInv, NEW r \in Requests, NEW u \in Accounts, Deactivate(r, u)
  PROVE  IInv'
<1> DEFINE to == [pc |-> "decide", target |-> u, admins |-> ActiveAdmins,
                  locked |-> ActiveAdmins]
<1> USE DEF IInv
<1>1. ActiveAdmins \subseteq Accounts
  BY DEF ActiveAdmins
<1>2. ActiveAdmins # {}
  <2>1. req[r].user \in Accounts
    BY DEF Deactivate, Administers, TypeOK, RequestStates, Idle
  <2>2. users[req[r].user] # NoUser
    BY DEF Deactivate, Administers, NoUser
  <2>3. setup BY <2>1, <2>2 DEF Made, Exists
  <2>4. QED BY <2>3 DEF AdminRemains
<1>3. /\ req' = [req EXCEPT ![r] = to]
      /\ UNCHANGED <<setup, users, sessions, revoked, tokens>>
      /\ changes' = changes + 1
  BY DEF Deactivate, Change
<1>4. to \in RequestStates
  BY <1>1 DEF RequestStates
<1>5. TypeOK'
  BY <1>3, <1>4 DEF TypeOK
<1>6. req'[r] = to /\ \A s \in Requests \ {r} : req'[s] = req[s]
  BY <1>3 DEF TypeOK
<1>7. Made' /\ AdminRemains' /\ ChangeEndsOthers' /\ DeactivationEndsSessions'
  BY <1>3 DEF Made, AdminRemains, ChangeEndsOthers, DeactivationEndsSessions,
              ActiveAdmins, Active, Exists
<1>8. Held'
  BY <1>2, <1>3, <1>6 DEF Held, Deciding, Deactivate, ActiveAdmins, Active, Exists
<1>9. Apart'
  <2>1. \A s \in Requests \ {r} : Deciding(s) => req[s].locked \cap ActiveAdmins = {}
    BY DEF Deactivate, LockedFrom, Deciding
  <2>2. QED BY <1>6, <2>1 DEF Apart, Deciding
<1>10. Recorded'
  BY <1>3, <1>6 DEF Recorded
<1>11. Owned'
  BY <1>3, <1>6 DEF Owned, Exists
<1>12. QED BY <1>5, <1>7, <1>8, <1>9, <1>10, <1>11

(* It ends with the last administrator kept, or with one of at least two
   gone, and nobody else's locked row touched. *)
LEMMA DecidePreserves ==
  ASSUME IInv, NEW r \in Requests, Decide(r)
  PROVE  IInv'
<1> DEFINE u == req[r].target
<1> USE DEF IInv
<1>1. Idle \in RequestStates /\ Idle.pc = "idle"
  BY DEF RequestStates, Idle
<1>2. CASE req[r].admins = {u}
  <2>1. Moves(r, Idle)
    BY <1>2 DEF Decide, Moves, Done
  <2>2. QED BY <1>1, <2>1, MovesPreserve
<1>3. CASE req[r].admins # {u}
  <2>1. u \in Accounts
    BY DEF Decide, TypeOK, RequestStates, Idle
  <2>2. /\ users[u] \in UserRows
        /\ users' = [users EXCEPT ![u].status = "inactive", ![u].ended = @ + 1]
        /\ sessions' = {s \in sessions : s.user # u}
        /\ req' = [req EXCEPT ![r] = Idle]
        /\ UNCHANGED <<setup, revoked, tokens, changes>>
        /\ u \notin LockedFrom(r)
    BY <1>3, <2>1 DEF Decide, Done, TypeOK
  <2>3. /\ users' \in [Accounts -> UserRows]
        /\ users'[u].status = "inactive" /\ users'[u].password = users[u].password
        /\ \A v \in Accounts \ {u} : users'[v] = users[v]
    BY <2>1, <2>2 DEF TypeOK, UserRows
  <2>4. /\ TypeOK'
        /\ req'[r] = Idle /\ \A s \in Requests \ {r} : req'[s] = req[s]
    BY <1>1, <2>2, <2>3 DEF TypeOK
  <2>5. Exists(u)
    BY DEF Decide, Held, Deciding
  <2>6. Made'
    BY <2>2, <2>3, <2>5 DEF Made, Exists
  <2>7. Held'
    <3> SUFFICES ASSUME NEW s \in Requests, req'[s].pc = "decide"
                 PROVE  /\ req'[s].admins = req'[s].locked
                        /\ req'[s].admins # {}
                        /\ req'[s].admins \subseteq ActiveAdmins'
                        /\ users'[req'[s].target].status # "none"
      BY DEF Held, Deciding, Exists
    <3>1. s # r /\ req'[s] = req[s] BY <1>1, <2>4
    <3>2. u \notin req[s].locked BY <2>2, <3>1 DEF LockedFrom
    <3>3. req[s].target \in Accounts BY <3>1 DEF TypeOK, RequestStates, Idle
    <3>4. QED
      BY <2>1, <2>3, <3>1, <3>2, <3>3 DEF Held, Deciding, ActiveAdmins, Active, Exists
  <2>8. Apart'
    BY <1>1, <2>4 DEF Apart, Deciding
  <2>9. Recorded'
    <3>1. \A v \in Accounts : users'[v].password = users[v].password
      BY <2>3
    <3>2. ASSUME NEW s \in Requests, req'[s].pc = "revoke"
          PROVE  req'[s].password <= users'[req'[s].user].password
      <4>1. req'[s] = req[s] BY <1>1, <2>4, <3>2
      <4>2. req[s].user \in Accounts BY <3>2, <4>1 DEF TypeOK, RequestStates, Idle
      <4>3. QED BY <3>1, <3>2, <4>1, <4>2 DEF Recorded
    <3>3. \A c \in revoked' : c.password <= users'[c.user].password
      BY <2>2, <3>1 DEF Recorded, TypeOK
    <3>4. QED BY <3>2, <3>3 DEF Recorded
  <2>10. AdminRemains'
    <3>1. PICK v \in req[r].admins : v # u
      BY <1>3 DEF Decide, Held, Deciding
    <3>2. v \in ActiveAdmins
      BY <3>1 DEF Decide, Held, Deciding
    <3>3. v \in ActiveAdmins'
      BY <2>3, <3>1, <3>2 DEF ActiveAdmins, Active
    <3>4. QED BY <3>3 DEF AdminRemains
  <2>11. ChangeEndsOthers'
    BY <2>2 DEF ChangeEndsOthers
  <2>12. DeactivationEndsSessions'
    BY <2>2, <2>3 DEF DeactivationEndsSessions, TypeOK, SessionRows
  <2>13. Owned'
    <3>1. \A v \in Accounts : Exists(v) => users'[v].status # "none"
      BY <2>3 DEF Exists
    <3>2. ASSUME NEW s \in Requests, req'[s].pc \in {"issue", "acting"}
          PROVE  users'[req'[s].user].status # "none"
      <4>1. req'[s] = req[s] BY <1>1, <2>4, <3>2
      <4>2. req[s].user \in Accounts BY <3>2, <4>1 DEF TypeOK, RequestStates, Idle
      <4>3. QED BY <3>1, <3>2, <4>1, <4>2 DEF Owned
    <3>3. \A s \in sessions' : users'[s.user].status # "none"
      BY <2>2, <3>1 DEF Owned, TypeOK, SessionRows
    <3>4. QED BY <3>2, <3>3 DEF Owned, Exists
  <2>14. QED BY <2>4, <2>6, <2>7, <2>8, <2>9, <2>10, <2>11, <2>12, <2>13
<1>4. QED BY <1>2, <1>3

-----------------------------------------------------------------------------
LEMMA PostPasswordPreserves ==
  ASSUME IInv, NEW r \in Requests, PostPassword(r)
  PROVE  IInv'
<1> DEFINE u == req[r].user
           to == [pc |-> "revoke", user |-> u, token |-> req[r].token,
                  password |-> users[u].password + 1]
<1> USE DEF IInv
<1>1. u \in Accounts /\ req[r].token \in Nat
  BY DEF PostPassword, TypeOK, RequestStates, Idle
<1>2. /\ users[u] \in UserRows
      /\ users' = [users EXCEPT ![u].password = @ + 1]
      /\ req' = [req EXCEPT ![r] = to]
      /\ UNCHANGED <<setup, sessions, revoked, tokens, changes>>
  BY <1>1 DEF PostPassword, TypeOK
<1>3. /\ users' \in [Accounts -> UserRows]
      /\ users'[u].password = users[u].password + 1
      /\ users'[u].status = users[u].status /\ users'[u].admin = users[u].admin
      /\ users'[u].ended = users[u].ended
      /\ \A v \in Accounts \ {u} : users'[v] = users[v]
  BY <1>1, <1>2 DEF TypeOK, UserRows
<1>4. \A v \in Accounts : users[v].password \in Nat
                           /\ users[v].password <= users'[v].password
  BY <1>1, <1>3 DEF TypeOK, UserRows
<1>5. to \in RequestStates
  BY <1>1, <1>2 DEF RequestStates, UserRows
<1>6. /\ TypeOK'
      /\ req'[r] = to /\ \A s \in Requests \ {r} : req'[s] = req[s]
  BY <1>2, <1>3, <1>5 DEF TypeOK
<1>7. Made'
  <2>1. users[u].status # "none"
    BY DEF PostPassword, Owned, Exists
  <2>2. QED BY <1>2, <1>3, <2>1 DEF Made, Exists
<1>8. ActiveAdmins' = ActiveAdmins
  BY <1>3 DEF ActiveAdmins, Active
<1>9. Held'
  <2> SUFFICES ASSUME NEW s \in Requests, req'[s].pc = "decide"
               PROVE  /\ req'[s].admins = req'[s].locked
                      /\ req'[s].admins # {}
                      /\ req'[s].admins \subseteq ActiveAdmins'
                      /\ users'[req'[s].target].status # "none"
    BY DEF Held, Deciding, Exists
  <2>1. req'[s] = req[s] BY <1>6
  <2>2. req[s].target \in Accounts BY <2>1 DEF TypeOK, RequestStates, Idle
  <2>3. QED BY <1>3, <1>8, <2>1, <2>2 DEF Held, Deciding, Exists
<1>10. Apart'
  BY <1>6 DEF Apart, Deciding
<1>11. Recorded'
  <2>1. ASSUME NEW s \in Requests \ {r}, req'[s].pc = "revoke"
        PROVE  req'[s].password <= users'[req'[s].user].password
    <3>1. req'[s] = req[s] BY <1>6
    <3>2. req[s].user \in Accounts /\ req[s].password \in Nat
      BY <2>1, <3>1 DEF TypeOK, RequestStates, Idle
    <3>3. req[s].password <= users[req[s].user].password
      BY <2>1, <3>1 DEF Recorded
    <3>4. users'[req[s].user].password \in Nat
      BY <1>3, <3>2 DEF UserRows
    <3>5. QED BY <1>4, <3>1, <3>2, <3>3, <3>4
  <2>2. req'[r].password <= users'[req'[r].user].password
    BY <1>1, <1>3, <1>4, <1>6
  <2>3. ASSUME NEW c \in revoked
        PROVE  c.password <= users'[c.user].password
    <3>1. c.user \in Accounts /\ c.password \in Nat
      BY DEF TypeOK
    <3>2. users'[c.user].password \in Nat
      BY <1>3, <3>1 DEF UserRows
    <3>3. QED BY <1>4, <3>1, <3>2 DEF Recorded
  <2>4. QED BY <1>2, <2>1, <2>2, <2>3 DEF Recorded
<1>12. AdminRemains'
  BY <1>2, <1>8 DEF AdminRemains
<1>13. ChangeEndsOthers'
  BY <1>2 DEF ChangeEndsOthers
<1>14. DeactivationEndsSessions'
  BY <1>2, <1>3 DEF DeactivationEndsSessions, TypeOK, SessionRows
<1>15. Owned'
  <2>1. \A v \in Accounts : users'[v].status = users[v].status
    BY <1>3
  <2>2. ASSUME NEW s \in Requests, req'[s].pc \in {"issue", "acting"}
        PROVE  users'[req'[s].user].status # "none"
    <3>1. req'[s] = req[s] BY <1>6, <2>2
    <3>2. req[s].user \in Accounts BY <2>2, <3>1 DEF TypeOK, RequestStates, Idle
    <3>3. QED BY <2>1, <2>2, <3>1, <3>2 DEF Owned, Exists
  <2>3. \A s \in sessions' : users'[s.user].status # "none"
    BY <1>2, <2>1 DEF Owned, Exists, TypeOK, SessionRows
  <2>4. QED BY <2>2, <2>3 DEF Owned, Exists
<1>16. QED BY <1>6, <1>7, <1>9, <1>10, <1>11, <1>12, <1>13, <1>14, <1>15

LEMMA RevokeOthersPreserves ==
  ASSUME IInv, NEW r \in Requests, RevokeOthers(r)
  PROVE  IInv'
<1> DEFINE c == [user |-> req[r].user, password |-> req[r].password, token |-> req[r].token]
<1> USE DEF IInv
<1>1. Idle \in RequestStates /\ Idle.pc = "idle"
  BY DEF RequestStates, Idle
<1>2. req[r].user \in Accounts /\ req[r].password \in Nat /\ req[r].token \in Nat
  BY DEF RevokeOthers, TypeOK, RequestStates, Idle
<1>3. /\ req' = [req EXCEPT ![r] = Idle]
      /\ sessions' = {s \in sessions : s.user # req[r].user \/ s.token = req[r].token}
      /\ revoked' = revoked \cup {c}
      /\ UNCHANGED <<setup, users, tokens, changes>>
  BY DEF RevokeOthers, Done
<1>4. TypeOK' /\ req'[r] = Idle /\ \A s \in Requests \ {r} : req'[s] = req[s]
  BY <1>1, <1>2, <1>3 DEF TypeOK
<1>5. Made' /\ AdminRemains' /\ ActiveAdmins' = ActiveAdmins
  BY <1>3 DEF Made, AdminRemains, ActiveAdmins, Active, Exists
<1>6. Held' /\ Apart'
  BY <1>1, <1>3, <1>4, <1>5 DEF Held, Apart, Deciding, Exists
<1>7. Recorded'
  <2>1. c.password <= users[c.user].password
    BY DEF RevokeOthers, Recorded
  <2>2. QED BY <1>1, <1>3, <1>4, <2>1 DEF Recorded
<1>8. ChangeEndsOthers'
  BY <1>3 DEF ChangeEndsOthers
<1>9. DeactivationEndsSessions'
  BY <1>3 DEF DeactivationEndsSessions
<1>10. Owned'
  BY <1>1, <1>3, <1>4 DEF Owned, Exists
<1>11. QED BY <1>4, <1>5, <1>6, <1>7, <1>8, <1>9, <1>10

LEMMA IssuePreserves ==
  ASSUME IInv, NEW r \in Requests, Issue(r)
  PROVE  IInv'
<1> DEFINE u == req[r].user
           s == [token |-> tokens + 1, user |-> u, password |-> users[u].password,
                 ended |-> users[u].ended]
<1> USE DEF IInv
<1>1. Idle \in RequestStates /\ Idle.pc = "idle"
  BY DEF RequestStates, Idle
<1>2. u \in Accounts /\ users[u] \in UserRows
  BY DEF Issue, TypeOK, RequestStates, Idle
<1>3. /\ req' = [req EXCEPT ![r] = Idle]
      /\ sessions' = sessions \cup {s}
      /\ tokens' = tokens + 1
      /\ UNCHANGED <<setup, users, revoked, changes>>
  BY DEF Issue, Done
<1>4. s \in SessionRows
  BY <1>2 DEF TypeOK, SessionRows, UserRows
<1>5. TypeOK' /\ req'[r] = Idle /\ \A t \in Requests \ {r} : req'[t] = req[t]
  BY <1>1, <1>3, <1>4 DEF TypeOK
<1>6. Made' /\ AdminRemains' /\ ActiveAdmins' = ActiveAdmins
  BY <1>3 DEF Made, AdminRemains, ActiveAdmins, Active, Exists
<1>7. Held' /\ Apart' /\ Recorded'
  BY <1>1, <1>3, <1>5, <1>6 DEF Held, Apart, Recorded, Deciding, Exists
<1>8. ChangeEndsOthers'
  <2>1. ASSUME NEW c \in revoked, c.user = u
        PROVE  ~(s.password < c.password)
    <3>1. c.password <= users[u].password BY <2>1 DEF Recorded
    <3>2. c.password \in Nat /\ users[u].password \in Nat
      BY <1>2 DEF TypeOK, UserRows
    <3>3. QED BY <3>1, <3>2
  <2>2. QED BY <1>3, <2>1 DEF ChangeEndsOthers
<1>9. DeactivationEndsSessions'
  BY <1>3 DEF DeactivationEndsSessions
<1>10. Owned'
  BY <1>1, <1>3, <1>5 DEF Issue, Owned, Exists
<1>11. QED BY <1>5, <1>6, <1>7, <1>8, <1>9, <1>10

LEMMA ExpirePreserves ==
  ASSUME IInv, NEW s \in sessions, Expire(s)
  PROVE  IInv'
  BY DEF IInv, Expire, TypeOK, Made, Owned, Held, Apart, Recorded, AdminRemains,
         ChangeEndsOthers, DeactivationEndsSessions, ActiveAdmins, Active, Exists, Deciding

LEMMA StepPreserves == IInv /\ [NextAccess]_accessVars => IInv'
<1> SUFFICES ASSUME IInv, [NextAccess]_accessVars PROVE IInv'
  OBVIOUS
<1>1. ASSUME NEW r \in Requests, Serve(r) PROVE IInv'
  <2>1. CASE \/ PostSetup(r) \/ Logout(r) \/ Fail(r)
             \/ \E s \in sessions : Resolve(r, s)
             \/ \E u \in Accounts : PostLogin(r, u)
    BY <2>1, EasyMoves
  <2>2. CASE CompleteSetup(r) BY <2>2, CompleteSetupPreserves
  <2>3. CASE Issue(r) BY <2>3, IssuePreserves
  <2>4. CASE Decide(r) BY <2>4, DecidePreserves
  <2>5. CASE PostPassword(r) BY <2>5, PostPasswordPreserves
  <2>6. CASE RevokeOthers(r) BY <2>6, RevokeOthersPreserves
  <2>7. CASE \E u \in Accounts : Reactivate(r, u) BY <2>7, ReactivatePreserves
  <2>8. CASE \E u \in Accounts : Deactivate(r, u) BY <2>8, DeactivatePreserves
  <2>9. CASE \E u \in Accounts, b \in BOOLEAN : CreateUser(r, u, b)
    BY <2>9, CreateUserPreserves
  <2>10. CASE \E u \in Accounts, b \in BOOLEAN : SetCanReconcile(r, u, b)
    BY <2>10, SetCanReconcilePreserves
  <2>11. QED
    BY <1>1, <2>1, <2>2, <2>3, <2>4, <2>5, <2>6, <2>7, <2>8, <2>9, <2>10 DEF Serve
<1>2. CASE \E s \in sessions : Expire(s) BY <1>2, ExpirePreserves
<1>3. CASE UNCHANGED accessVars
  BY <1>3 DEF accessVars, IInv, TypeOK, Made, Owned, Held, Apart, Recorded, AdminRemains,
     ChangeEndsOthers, DeactivationEndsSessions, ActiveAdmins, Active, Exists, Deciding
<1>4. QED BY <1>1, <1>2, <1>3 DEF NextAccess

LEMMA IInvHolds == AccessSpec => []IInv
<1>1. InitAccess => IInv BY InitHolds
<1>2. IInv /\ [NextAccess]_accessVars => IInv' BY StepPreserves
<1>3. QED BY <1>1, <1>2, PTL DEF AccessSpec

-----------------------------------------------------------------------------
(* However deactivations race, and whoever is deactivated while deactivating
   somebody else, an instance that is set up has an active administrator. *)
THEOREM AnAdministratorRemains == AccessSpec => []AdminRemains
<1>1. IInv => AdminRemains BY DEF IInv
<1>2. QED BY <1>1, IInvHolds, PTL

(* A change of password that was seen through has ended for good the sessions
   that were issued before it, but for the one that changed it. *)
THEOREM ChangeEndsSessions == AccessSpec => []ChangeEndsOthers
<1>1. IInv => ChangeEndsOthers BY DEF IInv
<1>2. QED BY <1>1, IInvHolds, PTL

(* And so has every deactivation, with no exception. *)
THEOREM DeactivationEnds == AccessSpec => []DeactivationEndsSessions
<1>1. IInv => DeactivationEndsSessions BY DEF IInv
<1>2. QED BY <1>1, IInvHolds, PTL

(* After the first account, which setup makes, every account is made by a
   request of an administrator. *)
THEOREM AccountsAreMadeByAdmins == AccessSpec => MadeByAdmins
<1> DEFINE Made1 == \A u \in Accounts :
                      (\E v \in Accounts : Exists(v)) /\ ~Exists(u) /\ Exists(u)'
                        => \E r \in Requests : Administers(r) /\ req'[r] = Idle
<1>1. ASSUME IInv, [NextAccess]_accessVars PROVE [Made1]_accessVars
  <2> SUFFICES ASSUME NEW u \in Accounts, NEW v \in Accounts, Exists(v), ~Exists(u), Exists(u)'
               PROVE  \E r \in Requests : Administers(r) /\ req'[r] = Idle
    OBVIOUS
  <2>1. users' # users BY DEF Exists
  <2>2. PICK r \in Requests : Serve(r)
    BY <1>1, <2>1 DEF NextAccess, Expire, accessVars
  <2> USE <1>1 DEF IInv, TypeOK
  <2>3. CASE \E w \in Accounts, b \in BOOLEAN : CreateUser(r, w, b)
    BY <2>3 DEF CreateUser, Done
  <2>4. CASE CompleteSetup(r)
    BY <2>1, <2>4 DEF CompleteSetup
  <2>5. CASE \E w \in Accounts, b \in BOOLEAN : Reactivate(r, w) \/ SetCanReconcile(r, w, b)
    BY <2>5 DEF Reactivate, SetCanReconcile, Exists
  <2>6. CASE Decide(r)
    BY <2>1, <2>6 DEF Decide, Held, Deciding, Exists
  <2>7. CASE PostPassword(r)
    <3>1. req[r].user \in Accounts
      BY <2>7 DEF PostPassword, RequestStates, Idle
    <3>2. users'[u].status = users[u].status
      BY <2>7, <3>1 DEF PostPassword, UserRows
    <3>3. QED BY <3>2 DEF Exists
  <2>8. QED
    BY <2>1, <2>2, <2>3, <2>4, <2>5, <2>6, <2>7
       DEF Serve, PostSetup, Issue, Logout, RevokeOthers, Fail, Resolve, PostLogin, Deactivate
<1>2. QED BY <1>1, IInvHolds, PTL DEF AccessSpec, MadeByAdmins

-----------------------------------------------------------------------------
(* Suggest. *)

(* Pairs of a line and a payment, no two of the same, each with its score. *)
Pair == [line : Int, seq : Int, exact : BOOLEAN, score : Int]

Pairing(P) ==
  /\ P \in SUBSET Pair /\ IsFiniteSet(P)
  /\ \A p, q \in P : p.line = q.line /\ p.seq = q.seq => p = q

(* The first pair in the order of the sort is one of the best. *)
LEMMA FirstIsBest ==
  ASSUME NEW P, Pairing(P), NEW T \in SUBSET P, T # {}
  PROVE  First(T) \in T /\ \A q \in T : First(T).score >= q.score
<1> DEFINE G == {U \in SUBSET P : U # {} => \E p \in U : \A q \in U \ {p} : Before(p, q)}
<1>1. ASSUME NEW U \in SUBSET P, NEW x \in U, U \ {x} \in G PROVE U \in G
  <2>1. CASE U \ {x} = {}
    BY <2>1
  <2>2. CASE U \ {x} # {}
    <3>1. PICK p \in U \ {x} : \A q \in (U \ {x}) \ {p} : Before(p, q)
      BY <1>1, <2>2
    <3>2. \A q \in P : q.score \in Int /\ q.line \in Int /\ q.seq \in Int
      BY DEF Pairing, Pair
    <3>3. ~(p.line = x.line /\ p.seq = x.seq)
      BY <3>1 DEF Pairing
    <3>4. Before(p, x) \/ Before(x, p)
      BY <3>1, <3>2, <3>3 DEF Before
    <3>5. CASE Before(p, x)
      BY <3>1, <3>5
    <3>6. CASE Before(x, p)
      <4>1. ASSUME NEW q \in U \ {x}, q # p PROVE Before(x, q)
        <5>1. Before(p, q)
          BY <3>1, <4>1
        <5> QED BY <3>1, <3>2, <3>6, <5>1 DEF Before
      <4> QED BY <3>6, <4>1
    <3> QED BY <3>4, <3>5, <3>6
  <2> QED BY <2>1, <2>2
<1>2. \A U \in SUBSET P : U \in G
  <2>1. \A U \in SUBSET P : U # {} => \E x \in U : U \ {x} \in G => U \in G
    BY <1>1
  <2>2. {} \in G /\ IsFiniteSet(P)
    BY DEF Pairing
  <2> HIDE DEF G
  <2> QED BY <2>1, <2>2, TakeAway
<1>3. First(T) \in T /\ \A q \in T \ {First(T)} : Before(First(T), q)
  BY <1>2 DEF First
<1>4. \A q \in T : q.score \in Int
  BY DEF Pairing, Pair
<1>5. ASSUME NEW q \in T PROVE First(T).score >= q.score
  <2>1. CASE q = First(T)
    BY <1>3, <1>4, <2>1
  <2>2. CASE q # First(T)
    BY <1>3, <1>4, <2>2 DEF Before
  <2> QED BY <2>1, <2>2
<1> QED BY <1>3, <1>5

-----------------------------------------------------------------------------
(* A set of pairs that leaves out none of S that touches one of it. *)
Closed(g, S) == \A p \in S : \A q \in g : Touch(p, q) => p \in g

Near(S) == [g \in SUBSET S |-> {p \in S : \E q \in g : Touch(p, q)}]

(* One more step leads to more pairs, or there are no more. *)
LEMMA NearGrows ==
  ASSUME NEW S, IsFiniteSet(S), NEW g \in SUBSET S, NEW n \in Nat,
         Closed(g, S) \/ Cardinality(g) > n
  PROVE  /\ g \subseteq Near(S)[g] /\ Near(S)[g] \in SUBSET S
         /\ Closed(Near(S)[g], S) \/ Cardinality(Near(S)[g]) > n + 1
<1>1. PICK h \in SUBSET S : h = Near(S)[g] /\ h = {p \in S : \E q \in g : Touch(p, q)}
  BY DEF Near
<1>2. g \subseteq h
  BY <1>1 DEF Touch
<1>3. CASE h = g
  <2>1. Closed(h, S)
    BY <1>1, <1>3 DEF Closed
  <2> QED BY <1>1, <1>2, <2>1
<1>4. CASE h # g
  <2>1. ~Closed(g, S)
    BY <1>1, <1>2, <1>4 DEF Closed
  <2>2. IsFiniteSet(h) /\ IsFiniteSet(g)
    BY FS_Subset
  <2>3. Cardinality(g) <= Cardinality(h) /\ Cardinality(g) # Cardinality(h)
    BY <1>2, <1>4, <2>2, FS_Subset
  <2>4. Cardinality(g) \in Nat /\ Cardinality(h) \in Nat
    BY <2>2, FS_CardinalityType
  <2> QED BY <1>1, <1>2, <2>1, <2>3, <2>4
<1> QED BY <1>3, <1>4

(* A tie's group is the best pair and all of its score that it is connected to. *)
GroupOf(g, P, top) ==
  /\ g \subseteq {p \in P : p.score = top.score} /\ top \in g
  /\ Closed(g, {p \in P : p.score = top.score})

LEMMA TieGroupIs ==
  ASSUME NEW P, IsFiniteSet(P), NEW top \in P
  PROVE  GroupOf(TieGroup(P, top), P, top)
<1> DEFINE same == {p \in P : p.score = top.score}
           N == Cardinality(same)
           Step(g) == [n \in 0 .. N |->
             IF n = 0 THEN {top}
             ELSE LET nearer == g[n - 1]
                  IN {p \in same : \E q \in nearer : Touch(p, q)}]
           iter == CHOOSE g : g = Step(g)
<1>1. TieGroup(P, top) = iter[N]
  BY DEF TieGroup
<1>2. IsFiniteSet(same) /\ N \in Nat
  BY FS_Subset, FS_CardinalityType
<1>3. PICK S : S = same
  OBVIOUS
<1>4. {top} \in SUBSET S /\ \A g \in SUBSET S : Near(S)[g] \in SUBSET S
  BY <1>3 DEF Near
<1>5. \E g : g = Step(g)
  <2>1. PICK f : f \in Chains(N, SUBSET S, {top}, Near(S))
    <3> HIDE DEF N
    <3> QED BY <1>2, <1>4, Iteration
  <2>2. /\ f \in [0 .. N -> SUBSET S] /\ f[0] = {top}
        /\ \A i \in 1 .. N : f[i] = Near(S)[f[i - 1]]
    BY <2>1 DEF Chains
  <2>3. ASSUME NEW i \in 0 .. N, i # 0
        PROVE  f[i] = {p \in same : \E q \in f[i - 1] : Touch(p, q)}
    <3>1. i \in 1 .. N /\ i - 1 \in 0 .. N
      BY <1>2, <2>3
    <3>2. f[i - 1] \in SUBSET S
      BY <2>2, <3>1
    <3> HIDE DEF N
    <3> QED BY <1>3, <2>2, <3>1, <3>2 DEF Near
  <2>4. f = Step(f)
    <3> HIDE DEF N
    <3> QED BY <2>2, <2>3
  <2> QED BY <2>4
<1>6. iter = Step(iter)
  BY <1>5
<1> HIDE DEF iter
<1>7. /\ iter = [n \in 0 .. N |-> iter[n]] /\ iter[0] = {top}
      /\ \A i \in 0 .. N : i # 0 => iter[i] = {p \in same : \E q \in iter[i - 1] : Touch(p, q)}
  <2>0. 0 \in 0 .. N
    <3> HIDE DEF N
    <3> QED BY <1>2
  <2>1. iter = Step(iter)
    BY <1>6
  <2>2. iter = [n \in 0 .. N |-> iter[n]]
    BY <2>1
  <2>3. iter[0] = {top}
    <3> HIDE DEF N, same
    <3> QED BY <2>0, <2>1
  <2>4. ASSUME NEW i \in 0 .. N, i # 0
        PROVE  iter[i] = {p \in same : \E q \in iter[i - 1] : Touch(p, q)}
    <3> HIDE DEF N, same
    <3> QED BY <2>1, <2>4
  <2> QED BY <2>2, <2>3, <2>4
<1> HIDE DEF N
<1>8. Follows(N, SUBSET S, Near(S), iter)
  <2>1. ASSUME NEW i \in 1 .. N, iter[i - 1] \in SUBSET S
        PROVE  iter[i] = Near(S)[iter[i - 1]]
    <3>1. i \in 0 .. N /\ i # 0
      BY <1>2
    <3> QED BY <1>3, <1>7, <2>1, <3>1 DEF Near
  <2> QED BY <1>7, <2>1 DEF Follows
<1>9. iter \in Chains(N, SUBSET S, {top}, Near(S))
  BY <1>2, <1>4, <1>7, <1>8, IsChain
<1> DEFINE Far(n) == /\ iter[n] \in SUBSET S /\ top \in iter[n]
                     /\ Closed(iter[n], S) \/ Cardinality(iter[n]) > n
           G == {n \in Nat : n <= N => Far(n)}
<1>10. \A n \in Nat : n \in G
  <2>1. 0 \in G
    <3>1. PICK g \in SUBSET S : g = {top} /\ Cardinality(g) = 1
      BY <1>4, FS_Singleton
    <3>2. iter[0] \in SUBSET S /\ top \in iter[0] /\ Cardinality(iter[0]) > 0
      <4>1. iter[0] = g
        BY <1>7, <3>1
      <4> QED BY <3>1, <4>1
    <3> QED BY <3>2
  <2>2. ASSUME NEW n \in Nat, n \in G PROVE n + 1 \in G
    <3>1. ASSUME n + 1 <= N PROVE Far(n + 1)
      <4>1. Far(n) /\ n + 1 \in 1 .. N /\ (n + 1) - 1 = n
        BY <1>2, <2>2, <3>1
      <4>2. iter[n + 1] = Near(S)[iter[n]]
        BY <1>9, <4>1 DEF Chains
      <4>3. PICK g \in SUBSET S : g = iter[n] /\ top \in g /\ (Closed(g, S) \/ Cardinality(g) > n)
        BY <4>1
      <4>4. IsFiniteSet(S)
        BY <1>2, <1>3
      <4>5. /\ g \subseteq Near(S)[g] /\ Near(S)[g] \in SUBSET S
            /\ Closed(Near(S)[g], S) \/ Cardinality(Near(S)[g]) > n + 1
        BY <4>3, <4>4, NearGrows
      <4> QED BY <4>2, <4>3, <4>5
    <3> QED BY <3>1
  <2> HIDE DEF G
  <2> QED BY <2>1, <2>2, CountUp
<1>11. Far(N)
  BY <1>2, <1>10
<1>12. Closed(iter[N], S)
  <2>1. Cardinality(iter[N]) <= N
    BY <1>2, <1>3, <1>11, FS_Subset DEF N
  <2>2. Cardinality(iter[N]) \in Nat
    BY <1>2, <1>3, <1>11, FS_Subset, FS_CardinalityType
  <2> QED BY <1>2, <1>11, <2>1, <2>2
<1> QED BY <1>1, <1>3, <1>11, <1>12 DEF GroupOf
-----------------------------------------------------------------------------
Results(P) == [left : SUBSET P, suggestions : SUBSET P, ties : SUBSET SUBSET P]

Groups(res) == {{p} : p \in res.suggestions} \cup res.ties

(* A pair of S is better and shares a line or a payment with q. *)
Beaten(q, S) == \E r \in S : Touch(r, q) /\ r.score > q.score

Separate(gs) == \A g, h \in gs : g # h => \A p \in g : \A q \in h : ~Touch(p, q)

(* What holds after each round: what is placed is apart from the rest, what is
   used up was placed or beaten, and no suggestion was a choice of equals. *)
Settled(res, P) ==
  /\ res \in Results(P)
  /\ \A g \in res.ties : Cardinality(g) >= 2 /\ \A p, q \in g : p.score = q.score
  /\ Separate(Groups(res))
  /\ \A p \in Placed(res) : \A q \in res.left : ~Touch(p, q)
  /\ \A q \in P \ res.left : q \in Placed(res) \/ Beaten(q, Placed(res))
  /\ \A p \in res.suggestions : \A q \in P \ {p} :
       Touch(p, q) /\ q.score = p.score => Beaten(q, Placed(res) \ {p})

(* What a round takes out of the pairs left, and what it leaves of them. *)
Good(P, left, placed, top, g, rest) ==
  /\ g \in SUBSET left /\ top \in g /\ rest \in SUBSET left /\ top \notin rest
  /\ \A p, q \in g : p.score = q.score
  /\ \A p \in placed : \A q \in g : ~Touch(p, q) /\ ~Touch(q, p)
  /\ \A p \in placed \cup g : \A q \in rest : ~Touch(p, q)
  /\ \A q \in P \ rest : q \in placed \cup g \/ Beaten(q, placed \cup g)
  /\ \A q \in P \ g : Touch(top, q) /\ q.score = top.score => Beaten(q, placed)

LEMMA GroupSettles ==
  ASSUME NEW P, Pairing(P), NEW res, Settled(res, P), res.left # {},
         NEW left, left = res.left, NEW placed, placed = Placed(res),
         NEW top, top = First(left), NEW g, g = TieGroup(left, top),
         NEW rest, rest = {p \in left : \A q \in g : ~Touch(p, q)}
  PROVE  Good(P, left, placed, top, g, rest)
<1>1. left \in SUBSET P /\ left # {} /\ placed \in SUBSET P
  BY DEF Settled, Results, Placed
<1>2. top \in left /\ \A q \in left : top.score >= q.score
  BY <1>1, FirstIsBest
<1>3. IsFiniteSet(left)
  BY <1>1, FS_Subset DEF Pairing
<1>4. GroupOf(g, left, top)
  BY <1>2, <1>3, TieGroupIs
<1>5. /\ g \in SUBSET left /\ top \in g /\ \A p \in g : p.score = top.score
      /\ \A p \in left : \A q \in g : p.score = top.score /\ Touch(p, q) => p \in g
  BY <1>4 DEF GroupOf, Closed
<1>6. \A p, q : Touch(p, p) /\ (Touch(p, q) => Touch(q, p))
  BY DEF Touch
<1>7. \A p \in placed : \A q \in left : ~Touch(p, q) /\ ~Touch(q, p)
  BY <1>6 DEF Settled
<1>8. rest \in SUBSET left /\ top \notin rest
  BY <1>5, <1>6
<1>9. ASSUME NEW p \in placed \cup g, NEW q \in rest PROVE ~Touch(p, q)
  BY <1>5, <1>6, <1>7
<1>10. ASSUME NEW q \in P \ rest PROVE q \in placed \cup g \/ Beaten(q, placed \cup g)
  <2>1. CASE q \notin left
    <3>1. q \in placed \/ Beaten(q, placed)
      BY <2>1 DEF Settled
    <3> QED BY <3>1 DEF Beaten
  <2>2. CASE q \in left
    <3>1. PICK r \in g : Touch(q, r) /\ Touch(r, q)
      BY <1>6, <2>2
    <3>2. r.score = top.score /\ top.score >= q.score
      BY <1>2, <1>5, <2>2
    <3>3. CASE q.score = top.score
      BY <1>5, <2>2, <3>1, <3>3
    <3>4. CASE q.score # top.score
      <4>1. q.score \in Int /\ top.score \in Int
        BY <1>1, <1>2 DEF Pairing, Pair
      <4>2. r.score > q.score
        BY <3>2, <3>4, <4>1
      <4> QED BY <3>1, <4>2 DEF Beaten
    <3> QED BY <3>3, <3>4
  <2> QED BY <2>1, <2>2
<1>11. ASSUME NEW q \in P \ g, Touch(top, q), q.score = top.score
       PROVE  Beaten(q, placed)
  <2>1. q \notin left
    BY <1>5, <1>6, <1>11
  <2>2. q \notin placed
    BY <1>2, <1>7, <1>11
  <2> QED BY <2>1, <2>2 DEF Settled
<1> QED BY <1>5, <1>7, <1>8, <1>9, <1>10, <1>11 DEF Good

LEMMA RoundSettles ==
  ASSUME NEW P, Pairing(P), NEW res, Settled(res, P), res.left # {}
  PROVE  /\ Settled(PlaceFirst(res), P)
         /\ Cardinality(PlaceFirst(res).left) < Cardinality(res.left)
<1>1. PICK left \in SUBSET P, sugg \in SUBSET P, ties \in SUBSET SUBSET P :
        res = [left |-> left, suggestions |-> sugg, ties |-> ties]
  BY DEF Settled, Results
<1>2. PICK placed : placed = Placed(res)
  OBVIOUS
<1>3. PICK top : top = First(left)
  OBVIOUS
<1>4. PICK g : g = TieGroup(left, top)
  OBVIOUS
<1>5. PICK rest : rest = {p \in left : \A q \in g : ~Touch(p, q)}
  OBVIOUS
<1>0. Good(P, left, placed, top, g, rest)
  <2>1. left = res.left /\ res.left # {}
    BY <1>1
  <2> QED BY <1>2, <1>3, <1>4, <1>5, <2>1, GroupSettles
<1>6. /\ g \in SUBSET left /\ top \in g /\ rest \in SUBSET left /\ top \notin rest
      /\ \A p, q \in g : p.score = q.score
      /\ \A p \in placed : \A q \in g : ~Touch(p, q) /\ ~Touch(q, p)
      /\ \A p \in placed \cup g : \A q \in rest : ~Touch(p, q)
      /\ \A q \in P \ rest : q \in placed \cup g \/ Beaten(q, placed \cup g)
      /\ \A q \in P \ g : Touch(top, q) /\ q.score = top.score => Beaten(q, placed)
  BY <1>0 DEF Good
<1>7. PICK new : new = PlaceFirst(res)
  OBVIOUS
<1>8. new = IF Cardinality(g) = 1
            THEN [left |-> rest, suggestions |-> sugg \cup g, ties |-> ties]
            ELSE [left |-> rest, suggestions |-> sugg, ties |-> ties \cup {g}]
  BY <1>1, <1>3, <1>4, <1>5, <1>7 DEF PlaceFirst
<1>9. placed = sugg \cup UNION ties /\ placed \in SUBSET P
  BY <1>1, <1>2 DEF Placed
<1>10. /\ \A h \in ties : Cardinality(h) >= 2 /\ \A p, q \in h : p.score = q.score
       /\ \A p \in sugg : \A q \in P \ {p} :
            Touch(p, q) /\ q.score = p.score => Beaten(q, placed \ {p})
       /\ Separate(Groups(res))
  BY <1>1, <1>2 DEF Settled
<1>11. \A h \in Groups(res) : h \in SUBSET placed
  BY <1>1, <1>9 DEF Groups
<1>12. Separate(Groups(res) \cup {g})
  BY <1>6, <1>10, <1>11 DEF Separate
<1>13. IsFiniteSet(left) /\ IsFiniteSet(rest) /\ IsFiniteSet(g)
  BY <1>6, FS_Subset DEF Pairing
<1>14. Cardinality(rest) < Cardinality(left)
  <2>1. Cardinality(rest) <= Cardinality(left) /\ Cardinality(rest) # Cardinality(left)
    BY <1>6, <1>13, FS_Subset
  <2> QED BY <1>13, <2>1, FS_CardinalityType
<1>15. CASE Cardinality(g) = 1
  <2>1. g = {top}
    BY <1>6, <1>13, <1>15, FS_Singleton
  <2>2. new = [left |-> rest, suggestions |-> sugg \cup g, ties |-> ties]
    BY <1>8, <1>15
  <2>3. new \in Results(P) /\ Placed(new) = placed \cup g
    BY <1>6, <1>9, <2>2 DEF Results, Placed
  <2>4. Groups(new) = Groups(res) \cup {g}
    BY <1>1, <2>1, <2>2 DEF Groups
  <2>5. ASSUME NEW p \in sugg \cup g, NEW q \in P \ {p}, Touch(p, q), q.score = p.score
        PROVE  Beaten(q, (placed \cup g) \ {p})
    <3>1. CASE p \in sugg
      <4>1. Beaten(q, placed \ {p})
        BY <1>10, <2>5, <3>1
      <4> QED BY <4>1 DEF Beaten
    <3>2. CASE p = top
      <4>1. Beaten(q, placed)
        BY <1>6, <2>1, <2>5, <3>2
      <4>2. top \notin placed
        BY <1>6 DEF Touch
      <4> QED BY <3>2, <4>1, <4>2 DEF Beaten
    <3> QED BY <2>1, <2>5, <3>1, <3>2
  <2>6. new.left = rest /\ new.suggestions = sugg \cup g /\ new.ties = ties
    BY <2>2
  <2>7. Settled(new, P)
    <3>1. \A h \in new.ties : Cardinality(h) >= 2 /\ \A p, q \in h : p.score = q.score
      BY <1>10, <2>6
    <3>2. Separate(Groups(new))
      BY <1>12, <2>4
    <3>3. \A p \in Placed(new) : \A q \in new.left : ~Touch(p, q)
      BY <1>6, <2>3, <2>6
    <3>4. \A q \in P \ new.left : q \in Placed(new) \/ Beaten(q, Placed(new))
      BY <1>6, <2>3, <2>6
    <3>5. \A p \in new.suggestions : \A q \in P \ {p} :
            Touch(p, q) /\ q.score = p.score => Beaten(q, Placed(new) \ {p})
      BY <2>3, <2>5, <2>6
    <3> QED BY <2>3, <3>1, <3>2, <3>3, <3>4, <3>5 DEF Settled
  <2> QED BY <1>1, <1>7, <1>14, <2>6, <2>7
<1>16. CASE Cardinality(g) # 1
  <2>1. Cardinality(g) >= 2
    <3>1. Cardinality(g) # 0
      BY <1>6, <1>13, FS_EmptySet
    <3>2. Cardinality(g) \in Nat
      BY <1>13, FS_CardinalityType
    <3> QED BY <1>16, <3>1, <3>2
  <2>2. new = [left |-> rest, suggestions |-> sugg, ties |-> ties \cup {g}]
    BY <1>8, <1>16
  <2>3. new \in Results(P) /\ Placed(new) = placed \cup g
    BY <1>6, <1>9, <2>2 DEF Results, Placed
  <2>4. Groups(new) = Groups(res) \cup {g}
    BY <1>1, <2>2 DEF Groups
  <2>5. ASSUME NEW p \in sugg, NEW q \in P \ {p}, Touch(p, q), q.score = p.score
        PROVE  Beaten(q, (placed \cup g) \ {p})
    <3>1. Beaten(q, placed \ {p})
      BY <1>10, <2>5
    <3> QED BY <3>1 DEF Beaten
  <2>6. new.left = rest /\ new.suggestions = sugg /\ new.ties = ties \cup {g}
    BY <2>2
  <2>7. \A h \in new.ties : Cardinality(h) >= 2 /\ \A p, q \in h : p.score = q.score
    BY <1>6, <1>10, <2>1, <2>6
  <2>8. Settled(new, P)
    <3>1. Separate(Groups(new))
      BY <1>12, <2>4
    <3>2. \A p \in Placed(new) : \A q \in new.left : ~Touch(p, q)
      BY <1>6, <2>3, <2>6
    <3>3. \A q \in P \ new.left : q \in Placed(new) \/ Beaten(q, Placed(new))
      BY <1>6, <2>3, <2>6
    <3>4. \A p \in new.suggestions : \A q \in P \ {p} :
            Touch(p, q) /\ q.score = p.score => Beaten(q, Placed(new) \ {p})
      BY <2>3, <2>5, <2>6
    <3> QED BY <2>3, <2>7, <3>1, <3>2, <3>3, <3>4 DEF Settled
  <2> QED BY <1>1, <1>7, <1>14, <2>6, <2>8
<1> QED BY <1>15, <1>16

(* The rounds end with nothing left. *)
LEMMA PlaceSettles ==
  ASSUME NEW P, Pairing(P)
  PROVE  Settled(Place(P), P) /\ Place(P).left = {}
<1> DEFINE N == Cardinality(P)
           base == [left |-> P, suggestions |-> {}, ties |-> {}]
           Step(f) == [n \in 0 .. N |->
             IF n = 0 THEN base
             ELSE LET res == f[n - 1] IN IF res.left = {} THEN res ELSE PlaceFirst(res)]
           iter == CHOOSE f : f = Step(f)
<1>1. Place(P) = iter[N]
  BY DEF Place
<1>2. IsFiniteSet(P) /\ N \in Nat
  BY FS_CardinalityType DEF Pairing
<1>3. PICK V : V = {res \in Results(P) : Settled(res, P)}
  OBVIOUS
<1>4. PICK step : step = [res \in V |-> IF res.left = {} THEN res ELSE PlaceFirst(res)]
  OBVIOUS
<1>5. ASSUME NEW res \in V
      PROVE  /\ step[res] = IF res.left = {} THEN res ELSE PlaceFirst(res)
             /\ step[res] \in V
             /\ res.left # {} => Cardinality(step[res].left) < Cardinality(res.left)
  <2>1. step[res] = IF res.left = {} THEN res ELSE PlaceFirst(res)
    BY <1>4
  <2>2. CASE res.left = {}
    BY <2>1, <2>2
  <2>3. CASE res.left # {}
    <3>1. Settled(res, P)
      BY <1>3
    <3>2. /\ Settled(PlaceFirst(res), P)
          /\ Cardinality(PlaceFirst(res).left) < Cardinality(res.left)
      BY <2>3, <3>1, RoundSettles
    <3>3. PlaceFirst(res) \in Results(P)
      BY <3>2 DEF Settled
    <3> QED BY <1>3, <2>1, <2>3, <3>2, <3>3
  <2> QED BY <2>2, <2>3
<1>6. base \in V
  <2>1. base \in Results(P)
    BY DEF Results
  <2>2. Placed(base) = {} /\ Groups(base) = {}
    BY DEF Placed, Groups
  <2>3. base.left = P /\ base.suggestions = {} /\ base.ties = {}
    OBVIOUS
  <2> HIDE DEF base
  <2>4. Settled(base, P)
    BY <2>1, <2>2, <2>3 DEF Settled, Separate
  <2> QED BY <1>3, <2>1, <2>4
<1>7. \A v \in V : step[v] \in V
  BY <1>5
<1> HIDE DEF base
<1>8. \E f : f = Step(f)
  <2>1. PICK f : f \in Chains(N, V, base, step)
    <3> HIDE DEF N
    <3> QED BY <1>2, <1>6, <1>7, Iteration
  <2>2. /\ f \in [0 .. N -> V] /\ f[0] = base
        /\ \A i \in 1 .. N : f[i] = step[f[i - 1]]
    BY <2>1 DEF Chains
  <2>3. ASSUME NEW i \in 0 .. N, i # 0
        PROVE  f[i] = IF f[i - 1].left = {} THEN f[i - 1] ELSE PlaceFirst(f[i - 1])
    <3> HIDE DEF N
    <3>1. i \in 1 .. N /\ i - 1 \in 0 .. N
      BY <1>2, <2>3
    <3>2. f[i - 1] \in V
      BY <2>2, <3>1
    <3> QED BY <1>5, <2>2, <3>1, <3>2
  <2>4. f = Step(f)
    <3> HIDE DEF N
    <3> QED BY <2>2, <2>3
  <2> QED BY <2>4
<1>9. iter = Step(iter)
  BY <1>8
<1> HIDE DEF iter
<1>10. /\ iter = [n \in 0 .. N |-> iter[n]] /\ iter[0] = base
       /\ \A i \in 0 .. N : i # 0 =>
            iter[i] = IF iter[i - 1].left = {} THEN iter[i - 1] ELSE PlaceFirst(iter[i - 1])
  <2>0. 0 \in 0 .. N
    <3> HIDE DEF N
    <3> QED BY <1>2
  <2>1. iter = Step(iter)
    BY <1>9
  <2>2. iter = [n \in 0 .. N |-> iter[n]]
    BY <2>1
  <2>3. iter[0] = base
    <3> HIDE DEF N
    <3> QED BY <2>0, <2>1
  <2>4. ASSUME NEW i \in 0 .. N, i # 0
        PROVE  iter[i] = IF iter[i - 1].left = {} THEN iter[i - 1] ELSE PlaceFirst(iter[i - 1])
    <3> HIDE DEF N
    <3> QED BY <2>1, <2>4
  <2> QED BY <2>2, <2>3, <2>4
<1>11. Follows(N, V, step, iter)
  <2>1. ASSUME NEW i \in 1 .. N, iter[i - 1] \in V PROVE iter[i] = step[iter[i - 1]]
    <3> HIDE DEF N
    <3>1. i \in 0 .. N /\ i # 0
      BY <1>2
    <3> QED BY <1>5, <1>10, <2>1, <3>1
  <2> QED BY <1>10, <2>1 DEF Follows
<1>12. iter \in Chains(N, V, base, step)
  <2> HIDE DEF N
  <2> QED BY <1>2, <1>6, <1>7, <1>10, <1>11, IsChain
<1> DEFINE Fewer(n) == iter[n].left = {} \/ Cardinality(iter[n].left) + n <= N
           G == {n \in Nat : n <= N => Fewer(n)}
<1>13. \A n \in Nat : n \in G
  <2>1. 0 \in G
    <3>1. iter[0].left = P
      BY <1>10 DEF base
    <3>2. Cardinality(iter[0].left) + 0 <= N
      BY <1>2, <3>1
    <3> QED BY <3>2
  <2>2. ASSUME NEW n \in Nat, n \in G PROVE n + 1 \in G
    <3>1. ASSUME n + 1 <= N PROVE Fewer(n + 1)
      <4> HIDE DEF N
      <4>1. Fewer(n) /\ n + 1 \in 1 .. N /\ (n + 1) - 1 = n /\ n \in 0 .. N /\ n + 1 \in 0 .. N
        BY <1>2, <2>2, <3>1
      <4>2. PICK res \in V, new \in V : res = iter[n] /\ new = iter[n + 1]
        BY <1>12, <4>1 DEF Chains
      <4>3. new = step[res]
        BY <1>12, <4>1, <4>2 DEF Chains
      <4>4. CASE res.left = {}
        BY <1>5, <4>2, <4>3, <4>4
      <4>5. CASE res.left # {}
        <5>1. Cardinality(new.left) < Cardinality(res.left)
          BY <1>5, <4>3, <4>5
        <5>2. IsFiniteSet(new.left) /\ IsFiniteSet(res.left)
          BY <1>2, <1>3, FS_Subset DEF Results
        <5>3. Cardinality(new.left) \in Nat /\ Cardinality(res.left) \in Nat
          BY <5>2, FS_CardinalityType
        <5>4. Cardinality(res.left) + n <= N
          BY <4>1, <4>2, <4>5
        <5>5. Cardinality(new.left) + (n + 1) <= N
          BY <1>2, <5>1, <5>3, <5>4
        <5> QED BY <4>2, <5>5
      <4> QED BY <4>4, <4>5
    <3> QED BY <3>1
  <2> HIDE DEF G
  <2> QED BY <2>1, <2>2, CountUp
<1>14. Fewer(N)
  <2> HIDE DEF N
  <2> QED BY <1>2, <1>13
<1>15. PICK res \in V : res = iter[N]
  <2> HIDE DEF N
  <2>1. N \in 0 .. N
    BY <1>2
  <2> QED BY <1>12, <2>1 DEF Chains
<1>16. res.left = {}
  <2>1. IsFiniteSet(res.left)
    BY <1>2, <1>3, FS_Subset DEF Results
  <2>2. Cardinality(res.left) \in Nat
    BY <2>1, FS_CardinalityType
  <2>3. res.left = {} \/ Cardinality(res.left) + N <= N
    BY <1>14, <1>15
  <2>4. res.left = {} \/ Cardinality(res.left) = 0
    <3> HIDE DEF N
    <3> QED BY <1>2, <2>2, <2>3
  <2> QED BY <2>1, <2>4, FS_EmptySet
<1> QED BY <1>1, <1>3, <1>15, <1>16
-----------------------------------------------------------------------------
LineRows == [id : Int, day : Int, amount : Int, named : BOOLEAN]

(* Lines and payments, each known by its number. *)
Known(ls, ps, config) ==
  /\ ls \in SUBSET LineRows /\ IsFiniteSet(ls)
  /\ \A l, k \in ls : l.id = k.id => l = k
  /\ IsFiniteSet(ps) /\ \A p \in ps : p.seq \in Int /\ p.day \in Int /\ p.amount \in Int
  /\ \A p, q \in ps : p.seq = q.seq => p = q
  /\ config \in SettingsRows

(* A pair within the limits has a score: where it divides, it divides by
   something. *)
LEMMA ScoreIsInt ==
  ASSUME NEW line \in LineRows, NEW pay, pay.day \in Int, pay.amount \in Int,
         NEW config \in SettingsRows, InLimits(line, pay, config)
  PROVE  Score(line, pay, config) \in Int
<1>1. PICK off \in Int, days \in Int :
        /\ off = Distance(line.amount, pay.amount) /\ off >= 0
        /\ days = Distance(line.day, pay.day) /\ days >= 0
  <2>1. line.amount \in Int /\ line.day \in Int
    BY DEF LineRows
  <2> QED BY <2>1 DEF Distance
<1>2. PICK tol \in Int : tol = Tolerance(pay.amount, config)
  <2>1. config.floor \in Int /\ config.cap \in Int /\ config.percent \in Int
    BY DEF SettingsRows
  <2>2. PICK part \in Int : part = (pay.amount * config.percent) \div 100
    <3>1. PICK n \in Int : n = pay.amount * config.percent
      BY <2>1
    <3> QED BY <3>1
  <2> QED BY <2>1, <2>2 DEF Tolerance, Within
<1>3. PICK window \in Int : window = config.window
  BY DEF SettingsRows
<1>4. off <= tol /\ days <= window
  BY <1>1, <1>2, <1>3 DEF InLimits
<1>5. PICK amount \in Int : amount = IF off = 0 THEN 100 ELSE (60 * (tol - off)) \div tol
  <2>1. off # 0 => tol > 0
    BY <1>1, <1>4
  <2>2. off # 0 => (60 * (tol - off)) \div tol \in Int
    BY <2>1
  <2> QED BY <2>2
<1>6. PICK date \in Int : date = IF window = 0 THEN 30 ELSE (30 * (window - days)) \div window
  <2>1. window # 0 => window > 0
    BY <1>1, <1>4
  <2>2. window # 0 => (30 * (window - days)) \div window \in Int
    BY <2>1
  <2> QED BY <2>2
<1>7. PICK name \in Int : name = IF config.names /\ line.named THEN 40 ELSE 0
  OBVIOUS
<1>8. PICK method \in Int : method = IF pay.method = "transfer" THEN 10
                                    ELSE IF pay.method = "other" THEN 5 ELSE 0
  OBVIOUS
<1>9. Score(line, pay, config) = amount + date + name + method
  BY <1>1, <1>2, <1>3, <1>5, <1>6, <1>7, <1>8 DEF Score
<1> QED BY <1>9

LEMMA PairsArePaired ==
  ASSUME NEW ls, NEW ps, NEW config, Known(ls, ps, config)
  PROVE  Pairing(Pairs(ls, ps, config))
<1> DEFINE near == {x \in Offered(ls, config) \X ps : InLimits(x[1], x[2], config)}
           pair(x) == [line  |-> x[1].id, seq |-> x[2].seq,
                       exact |-> x[1].amount = x[2].amount,
                       score |-> Score(x[1], x[2], config)]
           f == [x \in near |-> pair(x)]
<1>1. Pairs(ls, ps, config) = {f[x] : x \in near}
  BY DEF Pairs
<1>2. IsFiniteSet(near)
  <2>1. IsFiniteSet(Offered(ls, config)) /\ IsFiniteSet(ps)
    BY FS_Subset DEF Known, Offered
  <2>2. IsFiniteSet(Offered(ls, config) \X ps)
    BY <2>1, FS_Product
  <2> QED BY <2>2, FS_Subset
<1>3. IsFiniteSet(Pairs(ls, ps, config))
  <2> HIDE DEF f, near
  <2> QED BY <1>1, <1>2, ImageOf
<1>4. ASSUME NEW x \in near
      PROVE  /\ x[1] \in ls /\ x[1] \in LineRows /\ x[2] \in ps /\ x = <<x[1], x[2]>>
             /\ f[x] \in Pair /\ f[x].line = x[1].id /\ f[x].seq = x[2].seq
  <2>1. x[1] \in ls /\ x[1] \in LineRows /\ x[2] \in ps /\ x = <<x[1], x[2]>>
    BY DEF Known, Offered
  <2>2. PICK score \in Int : score = Score(x[1], x[2], config)
    <3>1. InLimits(x[1], x[2], config)
      OBVIOUS
    <3>2. config \in SettingsRows /\ x[2].day \in Int /\ x[2].amount \in Int
      BY <2>1 DEF Known
    <3> QED BY <2>1, <3>1, <3>2, ScoreIsInt
  <2>3. x[1].id \in Int /\ x[2].seq \in Int
    BY <2>1 DEF Known, LineRows
  <2>4. f[x] = [line |-> x[1].id, seq |-> x[2].seq, exact |-> x[1].amount = x[2].amount,
                score |-> score]
    BY <2>2
  <2>5. (x[1].amount = x[2].amount) \in BOOLEAN
    OBVIOUS
  <2> HIDE DEF f
  <2> QED BY <2>1, <2>3, <2>4, <2>5 DEF Pair
<1>5. Pairs(ls, ps, config) \in SUBSET Pair
  <2> HIDE DEF f, near
  <2> QED BY <1>1, <1>4
<1>6. ASSUME NEW p \in Pairs(ls, ps, config), NEW q \in Pairs(ls, ps, config),
             p.line = q.line, p.seq = q.seq
      PROVE  p = q
  <2> HIDE DEF f, near
  <2>1. PICK x \in near, y \in near : p = f[x] /\ q = f[y]
    BY <1>1
  <2>2. x[1].id = y[1].id /\ x[2].seq = y[2].seq
    BY <1>4, <1>6, <2>1
  <2>3. x[1] = y[1] /\ x[2] = y[2]
    BY <1>4, <2>2 DEF Known
  <2>4. x = y
    BY <1>4, <2>3
  <2> QED BY <2>1, <2>4
<1> QED BY <1>3, <1>5, <1>6 DEF Pairing

(* What the rounds leave is fair: the group of the best pair goes together. *)
LEMMA PlacedIsFair ==
  ASSUME NEW ls, NEW ps, NEW config, Known(ls, ps, config)
  PROVE  Fair(ls, ps, config)
<1>1. PICK P : P = Pairs(ls, ps, config)
  OBVIOUS
<1>2. Pairing(P)
  BY <1>1, PairsArePaired
<1>3. PICK res : res = Place(P)
  OBVIOUS
<1>4. Settled(res, P) /\ res.left = {}
  BY <1>2, <1>3, PlaceSettles
<1>5. PICK all : all = Suggestions(ls, ps, config)
  OBVIOUS
<1>6. all.suggestions = res.suggestions /\ all.ties = res.ties
  BY <1>1, <1>3, <1>5 DEF Suggestions
<1>7. Placed(all) = Placed(res)
  BY <1>6 DEF Placed
<1>8. ASSUME NEW q \in P
      PROVE  \E p \in Placed(all) : Touch(p, q) /\ p.score >= q.score
  <2>1. q \in Placed(res) \/ Beaten(q, Placed(res))
    BY <1>4 DEF Settled
  <2>2. Placed(res) \in SUBSET P /\ \A p \in P : p.score \in Int
    BY <1>2, <1>4 DEF Settled, Results, Placed, Pairing, Pair
  <2>3. CASE q \in Placed(res)
    BY <1>7, <2>2, <2>3 DEF Touch
  <2>4. CASE Beaten(q, Placed(res))
    BY <1>7, <2>2, <2>4 DEF Beaten
  <2> QED BY <2>1, <2>3, <2>4
<1>9. PICK groups : groups = {{p} : p \in all.suggestions} \cup all.ties
  OBVIOUS
<1>10. \A g, h \in groups : g # h => /\ LinesOf(g) \cap LinesOf(h) = {}
                                    /\ SeqsOf(g) \cap SeqsOf(h) = {}
  <2>1. groups = Groups(res)
    BY <1>6, <1>9 DEF Groups
  <2> QED BY <1>4, <2>1 DEF Settled, Separate, Touch, LinesOf, SeqsOf
<1>11. \A p \in all.suggestions : \A q \in P \ {p} :
         Touch(p, q) /\ q.score = p.score =>
           \E r \in Placed(all) \ {p} : Touch(r, q) /\ r.score > q.score
  BY <1>4, <1>6, <1>7 DEF Settled, Beaten
<1>12. \A g \in all.ties : Cardinality(g) >= 2 /\ \A p, q \in g : p.score = q.score
  BY <1>4, <1>6 DEF Settled
<1> QED BY <1>1, <1>5, <1>8, <1>9, <1>10, <1>11, <1>12 DEF Fair
-----------------------------------------------------------------------------
(* The types of what the pages compute with. *)
EntryRows ==
  [kind : {"payment", "charge", "adjustment", "reversal"}, amount : Int, by : Users,
   day : Int, method : Methods \cup {"none", "transfer", "other"}, fromBank : BOOLEAN,
   undoes : Nat]

LineStates ==
  [state : {"absent", "open", "matched", "recorded", "ignored"}, rec : Nat]

MatchRows == [line : Lines, seq : Nat, undone : BOOLEAN, delta : Nat]

Typed ==
  /\ day \in Int
  /\ entries \in Seq(EntryRows)
  /\ lines \in [Lines -> LineStates]
  /\ matches \in Seq(MatchRows)
  /\ set \in Settings \cup {Defaults}

MatchIds == 1 .. Len(matches)

(* A line that is matched has one standing match, and a recorded one names an
   entry; what a match or a line names of reconciliation's is reconciliation's. *)
Tied ==
  /\ \A i \in MatchIds : Standing(matches[i]) =>
       /\ lines[matches[i].line].state = "matched"
       /\ matches[i].delta # 0 =>
            matches[i].delta \in Seqs /\ entries[matches[i].delta].fromBank
  /\ \A i, j \in MatchIds :
       Standing(matches[i]) /\ Standing(matches[j]) /\ matches[i].line = matches[j].line
         => i = j
  /\ \A l \in Lines :
       /\ lines[l].rec # 0 => lines[l].state = "recorded"
       /\ lines[l].state = "recorded" => lines[l].rec \in Seqs /\ entries[lines[l].rec].fromBank

(* A match's difference, or what a line was recorded as. *)
FromLine(s) ==
  \/ \E i \in MatchIds : Standing(matches[i]) /\ matches[i].delta = s
  \/ \E l \in Lines : lines[l].rec = s

(* A payment of reconciliation's that stands is there for a line. *)
Backed ==
  \A s \in Seqs : entries[s].kind = "payment" /\ entries[s].fromBank /\ ~Reversed(s)
                    => FromLine(s)

PagesInv == Typed /\ Tied /\ Backed

LEMMA AgreeByInvariant == PagesInv => FilterAgrees
<1> SUFFICES ASSUME PagesInv, NEW s \in Seqs, entries[s].kind = "payment", ~Reversed(s)
             PROVE  ~BankMark(s) <=>
                      ~entries[s].fromBank /\ MatchOf(s) = {} /\ ReviewOf(s) = {}
  BY DEF FilterAgrees, Unreconciled, Undecided
<1>1. s # 0
  BY DEF Seqs
<1>2. \A i : i \in DeltaOf(s) <=> i \in MatchIds /\ Standing(matches[i]) /\ matches[i].delta = s
  BY DEF DeltaOf, MatchIds
<1>3. \A l : l \in LineOf(s) <=> l \in Lines /\ lines[l].rec = s
  BY DEF LineOf
<1>4. ASSUME entries[s].fromBank
      PROVE  BankMark(s)
  <2>1. CASE \E i \in MatchIds : Standing(matches[i]) /\ matches[i].delta = s
    BY <1>2, <2>1 DEF BankMark
  <2>2. CASE \E l \in Lines : lines[l].rec = s
    BY <1>1, <1>3, <2>2 DEF BankMark, PagesInv, Tied
  <2> QED BY <1>4, <2>1, <2>2 DEF PagesInv, Backed, FromLine
<1>5. ASSUME ~entries[s].fromBank
      PROVE  DeltaOf(s) = {} /\ \A l \in LineOf(s) : lines[l].state # "recorded"
  BY <1>1, <1>2, <1>3, <1>5 DEF PagesInv, Tied
<1> QED BY <1>4, <1>5 DEF BankMark

(* The open lines and the payments around them are what Suggest works on. *)
LEMMA PageIsKnown ==
  ASSUME Typed
  PROVE  Known({LineRec(l) : l \in Open}, {PayRec(s) : s \in Candidates}, set)
<1>1. PICK ls, ps : ls = {LineRec(l) : l \in Open} /\ ps = {PayRec(s) : s \in Candidates}
  OBVIOUS
<1>2. IsFiniteSet(ls)
  <2>1. IsFiniteSet(Open)
    BY FiguresAssumption, FS_Subset DEF Open
  <2>2. PICK f : f = [l \in Open |-> LineRec(l)]
    OBVIOUS
  <2>3. ls = {f[l] : l \in Open}
    BY <1>1, <2>2
  <2> QED BY <2>1, <2>3, ImageOf
<1>3. IsFiniteSet(ps)
  <2>1. IsFiniteSet(Candidates)
    <3>1. IsFiniteSet(Seqs)
      <4>1. Len(entries) \in Nat
        BY DEF Typed
      <4> QED BY <4>1, FS_Interval DEF Seqs
    <3>2. Candidates \subseteq Seqs
      BY DEF Candidates
    <3> QED BY <3>1, <3>2, FS_Subset
  <2>2. PICK f : f = [s \in Candidates |-> PayRec(s)]
    OBVIOUS
  <2>3. ps = {f[s] : s \in Candidates}
    BY <1>1, <2>2
  <2> QED BY <2>1, <2>3, ImageOf
<1>4. \A l \in Open : LineRec(l) \in LineRows /\ LineRec(l).id = l
  BY PagesAssumption, FiguresAssumption DEF Open, LineRec, LineRows
<1>5. \A s \in Candidates : PayRec(s).seq = s /\ s \in Int /\ PayRec(s).day \in Int /\ PayRec(s).amount \in Int
  <2> TAKE s \in Candidates
  <2>1. s \in 1 .. Len(entries)
    BY DEF Candidates, Seqs
  <2>2. PICK e \in EntryRows : e = entries[s]
    BY <2>1 DEF Typed
  <2>3. e.day \in Int /\ e.amount \in Int
    BY DEF EntryRows
  <2> QED BY <2>1, <2>2, <2>3 DEF PayRec
<1>6. set \in SettingsRows
  BY FiguresAssumption DEF Typed
<1> QED BY <1>1, <1>2, <1>3, <1>4, <1>5, <1>6 DEF Known

LEMMA FairByInvariant == Typed => SuggestionsAreFair
BY PageIsKnown, PlacedIsFair DEF SuggestionsAreFair

LEMMA PagesInitHolds == Init => PagesInv
<1> SUFFICES ASSUME Init PROVE PagesInv
  OBVIOUS
<1>1. entries = <<>> /\ matches = <<>> /\ Len(entries) = 0 /\ Len(matches) = 0
  BY DEF Init
<1>2. Seqs = {} /\ MatchIds = {}
  BY <1>1 DEF Seqs, MatchIds
<1>3. lines = [l \in Lines |-> [state |-> "absent", rec |-> 0]]
  BY DEF Init
<1>4. lines \in [Lines -> LineStates] /\ \A l \in Lines : lines[l].state = "absent" /\ lines[l].rec = 0
  BY <1>3 DEF LineStates
<1>5. Typed
  BY <1>1, <1>4 DEF Typed, Init
<1> QED BY <1>2, <1>4, <1>5 DEF PagesInv, Tied, Backed
-----------------------------------------------------------------------------
(* The ledger goes on with what it had. *)
Goes ==
  /\ entries' \in Seq(EntryRows)
  /\ Len(entries) \in Nat /\ Len(entries') \in Nat /\ Len(entries) <= Len(entries')
  /\ \A s \in Seqs : entries'[s] = entries[s]

LEMMA GoesOn ==
  ASSUME Goes
  PROVE  /\ Seqs \subseteq Seqs'
         /\ \A s \in Seqs : Reversed(s) => Reversed(s)'
<1>1. Seqs \subseteq Seqs'
  BY DEF Goes, Seqs
<1> QED BY <1>1 DEF Goes, Reversed

LEMMA ReversalIs ==
  ASSUME Typed, NEW s \in Seqs
  PROVE  /\ Reversal(s) \in EntryRows
         /\ Reversal(s).kind = "reversal" /\ Reversal(s).undoes = s
<1>1. PICK e \in EntryRows : e = entries[s]
  BY DEF Typed, Seqs
<1>2. s \in Nat
  BY DEF Seqs
<1>3. Reversal(s) = [kind |-> "reversal", amount |-> -e.amount, by |-> e.by, day |-> e.day,
                     method |-> e.method, fromBank |-> e.fromBank, undoes |-> s]
  <2>1. Reversal(s) = [e EXCEPT !.kind = "reversal", !.amount = -e.amount, !.undoes = s]
    BY <1>1 DEF Reversal
  <2> QED BY <2>1 DEF EntryRows
<1> QED BY <1>1, <1>2, <1>3 DEF EntryRows

LEMMA MatchIs ==
  ASSUME Typed, NEW i \in MatchIds
  PROVE  /\ matches[i] \in MatchRows
         /\ matches[i].line \in Lines /\ matches[i].delta \in Nat
<1>1. matches[i] \in MatchRows
  BY DEF Typed, MatchIds
<1> QED BY <1>1 DEF MatchRows

LEMMA AppendGoesOn ==
  ASSUME Typed, NEW e \in EntryRows, entries' = Append(entries, e)
  PROVE  /\ Goes
         /\ Seqs' = Seqs \cup {Len(entries) + 1} /\ Len(entries) + 1 \notin Seqs
         /\ entries'[Len(entries) + 1] = e
<1>1. entries \in Seq(EntryRows) /\ Len(entries) \in Nat
  BY DEF Typed
<1>2. /\ entries' \in Seq(EntryRows) /\ Len(entries') = Len(entries) + 1
      /\ \A s \in 1 .. Len(entries) : entries'[s] = entries[s]
      /\ entries'[Len(entries) + 1] = e
  BY <1>1, AppendProperties
<1> QED BY <1>1, <1>2 DEF Goes, Seqs

LEMMA ReversalsGoOn ==
  ASSUME Typed, NEW more \in Seq(EntryRows), \A k \in 1 .. Len(more) : more[k].kind = "reversal",
         entries' = entries \o more
  PROVE  /\ Goes
         /\ \A s \in Seqs' \ Seqs : entries'[s].kind = "reversal"
         /\ \A k \in 1 .. Len(more) : \E r \in Seqs' : entries'[r] = more[k]
<1>1. entries \in Seq(EntryRows) /\ Len(entries) \in Nat /\ Len(more) \in Nat
  BY DEF Typed
<1>2. /\ entries' \in Seq(EntryRows) /\ Len(entries') = Len(entries) + Len(more)
      /\ \A i \in 1 .. Len(entries) + Len(more) :
           entries'[i] = IF i <= Len(entries) THEN entries[i] ELSE more[i - Len(entries)]
  BY <1>1, ConcatProperties
<1>3. PICK n \in Nat, m \in Nat : n = Len(entries) /\ m = Len(more)
  BY <1>1
<1>4. Goes
  BY <1>1, <1>2 DEF Goes, Seqs
<1>5. ASSUME NEW s \in Seqs' \ Seqs PROVE entries'[s].kind = "reversal"
  <2>1. s \in 1 .. n + m /\ ~(s <= n) /\ s - n \in 1 .. m
    BY <1>2, <1>3, <1>5 DEF Seqs
  <2> QED BY <1>2, <1>3, <2>1
<1>6. ASSUME NEW k \in 1 .. Len(more) PROVE \E r \in Seqs' : entries'[r] = more[k]
  <2>1. n + k \in 1 .. n + m /\ ~(n + k <= n) /\ (n + k) - n = k
    BY <1>3, <1>6
  <2>2. entries'[n + k] = more[k] /\ n + k \in Seqs'
    BY <1>2, <1>3, <2>1 DEF Seqs
  <2> QED BY <2>2
<1> QED BY <1>4, <1>5, <1>6

(* A payment of reconciliation's is let go only with its reversal. *)
LEMMA BackedKeeps ==
  ASSUME PagesInv, Goes,
         \A s \in Seqs' \ Seqs :
           entries'[s].kind = "payment" /\ entries'[s].fromBank => FromLine(s)',
         \A s \in Seqs : FromLine(s) => FromLine(s)' \/ Reversed(s)'
  PROVE  Backed'
<1> SUFFICES ASSUME NEW s \in Seqs', entries'[s].kind = "payment", entries'[s].fromBank,
                    ~Reversed(s)'
             PROVE  FromLine(s)'
  BY DEF Backed
<1>1. CASE s \in Seqs
  <2>1. entries'[s] = entries[s] /\ ~Reversed(s)
    BY <1>1, GoesOn DEF Goes
  <2> QED BY <1>1, <2>1 DEF PagesInv, Backed
<1>2. CASE s \notin Seqs
  BY <1>2
<1> QED BY <1>1, <1>2

(* What is tied stays tied when only the ledger goes on. *)
LEMMA PostKeeps ==
  ASSUME PagesInv, NEW e \in EntryRows, e.kind # "payment" \/ ~e.fromBank, Post(e),
         UNCHANGED <<day, lines, matches, set>>
  PROVE  PagesInv'
<1>1. entries' = Append(entries, e)
  BY DEF Post
<1>2. /\ Goes
      /\ Seqs' = Seqs \cup {Len(entries) + 1}
      /\ entries'[Len(entries) + 1] = e
  BY <1>1, AppendGoesOn DEF PagesInv
<1>3. Typed'
  BY <1>2 DEF PagesInv, Typed, Goes
<1>4. \A s \in Seqs : s \in Seqs' /\ entries'[s] = entries[s]
  BY <1>2 DEF Goes
<1>5. Tied'
  BY <1>4 DEF PagesInv, Tied, MatchIds
<1>6. \A s : FromLine(s) => FromLine(s)'
  BY DEF FromLine, MatchIds
<1>7. Backed'
  BY <1>2, <1>6, BackedKeeps
<1> QED BY <1>3, <1>5, <1>7 DEF PagesInv

LEMMA StayingKeeps ==
  ASSUME PagesInv, day' \in Int, set' \in Settings \cup {Defaults},
         UNCHANGED <<entries, lines, matches>>
  PROVE  PagesInv'
<1>1. Typed'
  BY DEF PagesInv, Typed
<1>2. Tied'
  BY DEF PagesInv, Tied, MatchIds, Seqs
<1>3. Seqs' = Seqs /\ \A s : (Reversed(s)' <=> Reversed(s)) /\ (FromLine(s)' <=> FromLine(s))
  BY DEF Seqs, Reversed, FromLine, MatchIds
<1>4. Backed'
  BY <1>3 DEF PagesInv, Backed
<1> QED BY <1>1, <1>2, <1>4 DEF PagesInv

(* Lines that nobody has recorded or matched come, go aside, and come back. *)
LEMMA LinesMoveKeeps ==
  ASSUME PagesInv, UNCHANGED <<day, entries, matches, set>>,
         lines' \in [Lines -> LineStates],
         \A l \in Lines : \/ lines'[l] = lines[l]
                          \/ /\ lines[l].state \in {"absent", "open", "ignored"}
                             /\ lines'[l].state \in {"open", "ignored"}
                             /\ lines'[l].rec = lines[l].rec
  PROVE  PagesInv'
<1>1. Typed'
  BY DEF PagesInv, Typed
<1>2. \A l \in Lines : /\ lines'[l].rec = lines[l].rec
                       /\ lines[l].state \in {"matched", "recorded"} => lines'[l] = lines[l]
                       /\ lines'[l].state \in {"matched", "recorded"} => lines'[l] = lines[l]
  OBVIOUS
<1>3. \A i \in MatchIds : matches[i].line \in Lines
  BY MatchIs DEF PagesInv
<1>4. Seqs' = Seqs /\ MatchIds' = MatchIds
  BY DEF Seqs, MatchIds
<1>5. Tied'
  <2>1. \A l \in Lines : /\ lines'[l].rec # 0 => lines'[l].state = "recorded"
                         /\ lines'[l].state = "recorded" =>
                              lines'[l].rec \in Seqs /\ entries[lines'[l].rec].fromBank
    BY <1>2 DEF PagesInv, Tied
  <2>2. \A i \in MatchIds : Standing(matches[i]) => lines'[matches[i].line].state = "matched"
    BY <1>2, <1>3 DEF PagesInv, Tied
  <2> QED BY <1>4, <2>1, <2>2 DEF PagesInv, Tied
<1>6. \A s : (Reversed(s)' <=> Reversed(s)) /\ (FromLine(s)' <=> FromLine(s))
  BY <1>2, <1>4 DEF Reversed, FromLine
<1>7. Backed'
  BY <1>4, <1>6 DEF PagesInv, Backed
<1> QED BY <1>1, <1>5, <1>7 DEF PagesInv
(* A recorded line is reopened and its payment reversed. *)
LEMMA ReleaseKeeps ==
  ASSUME PagesInv, NEW l \in Lines, lines[l].state = "recorded",
         Post(Reversal(lines[l].rec)), lines' = Reopened(l), UNCHANGED <<day, matches, set>>
  PROVE  PagesInv'
<1>1. PICK rec \in Seqs : rec = lines[l].rec
  BY DEF PagesInv, Tied
<1>2. PICK e \in EntryRows : e = Reversal(rec) /\ e.kind = "reversal" /\ e.undoes = rec
  BY ReversalIs DEF PagesInv
<1>3. entries' = Append(entries, e)
  BY <1>1, <1>2 DEF Post
<1>4. /\ Goes
      /\ Seqs' = Seqs \cup {Len(entries) + 1}
      /\ entries'[Len(entries) + 1] = e
  BY <1>3, AppendGoesOn DEF PagesInv
<1>5. Reversed(rec)'
  BY <1>2, <1>4 DEF Reversed
<1>6. lines \in [Lines -> LineStates] /\ [state |-> "open", rec |-> 0] \in LineStates
  BY DEF PagesInv, Typed, LineStates
<1>7. /\ lines' \in [Lines -> LineStates]
      /\ lines'[l] = [state |-> "open", rec |-> 0]
      /\ \A k \in Lines : k # l => lines'[k] = lines[k]
  BY <1>6 DEF Reopened
<1>8. Typed'
  BY <1>4, <1>7 DEF PagesInv, Typed, Goes
<1>9. \A s \in Seqs : s \in Seqs' /\ entries'[s] = entries[s]
  BY <1>4 DEF Goes
<1>10. MatchIds' = MatchIds
  BY DEF MatchIds
<1>11. Tied'
  <2>1. \A i \in MatchIds : Standing(matches[i]) => matches[i].line # l
    BY DEF PagesInv, Tied
  <2>2. \A i \in MatchIds : Standing(matches[i]) =>
          /\ lines'[matches[i].line].state = "matched"
          /\ matches[i].delta # 0 =>
               matches[i].delta \in Seqs' /\ entries'[matches[i].delta].fromBank
    BY <1>7, <1>9, <2>1, MatchIs DEF PagesInv, Tied
  <2>3. \A k \in Lines :
          /\ lines'[k].rec # 0 => lines'[k].state = "recorded"
          /\ lines'[k].state = "recorded" =>
               lines'[k].rec \in Seqs' /\ entries'[lines'[k].rec].fromBank
    <3> TAKE k \in Lines
    <3>1. CASE k = l
      BY <1>7, <3>1
    <3>2. CASE k # l
      BY <1>7, <1>9, <3>2 DEF PagesInv, Tied
    <3> QED BY <3>1, <3>2
  <2> QED BY <1>10, <2>2, <2>3 DEF PagesInv, Tied
<1>12. Backed'
  <2>1. ASSUME NEW s \in Seqs, FromLine(s) PROVE FromLine(s)' \/ Reversed(s)'
    <3>1. CASE s = rec
      BY <1>5, <3>1
    <3>2. CASE s # rec
      <4>1. CASE \E i \in MatchIds : Standing(matches[i]) /\ matches[i].delta = s
        BY <1>10, <4>1 DEF FromLine
      <4>2. CASE \E k \in Lines : lines[k].rec = s
        <5>1. PICK k \in Lines : lines[k].rec = s
          BY <4>2
        <5>2. k # l
          BY <1>1, <3>2, <5>1
        <5>3. lines'[k].rec = s
          BY <1>7, <5>1, <5>2
        <5> QED BY <5>3 DEF FromLine
      <4> QED BY <2>1, <4>1, <4>2 DEF FromLine
    <3> QED BY <3>1, <3>2
  <2>2. \A s \in Seqs' \ Seqs : entries'[s].kind # "payment"
    BY <1>2, <1>4
  <2> QED BY <1>4, <2>1, <2>2, BackedKeeps
<1> QED BY <1>8, <1>11, <1>12 DEF PagesInv

(* A line becomes a payment. *)
LEMMA RecordKeeps ==
  ASSUME PagesInv, NEW l \in Lines, lines[l].state = "open",
         NEW e \in EntryRows, e.fromBank, Post(e),
         lines' = [lines EXCEPT ![l] = [state |-> "recorded", rec |-> Len(entries) + 1]],
         UNCHANGED <<day, matches, set>>
  PROVE  PagesInv'
<1>1. entries' = Append(entries, e)
  BY DEF Post
<1>2. PICK rec \in Nat : rec = Len(entries) + 1
  BY DEF PagesInv, Typed
<1>3. /\ Goes
      /\ Seqs' = Seqs \cup {rec} /\ rec \notin Seqs
      /\ entries'[rec] = e
  BY <1>1, <1>2, AppendGoesOn DEF PagesInv
<1>4. lines \in [Lines -> LineStates] /\ [state |-> "recorded", rec |-> rec] \in LineStates
  BY DEF PagesInv, Typed, LineStates
<1>5. /\ lines' \in [Lines -> LineStates]
      /\ lines'[l] = [state |-> "recorded", rec |-> rec]
      /\ \A k \in Lines : k # l => lines'[k] = lines[k]
  BY <1>2, <1>4
<1>6. Typed'
  BY <1>3, <1>5 DEF PagesInv, Typed, Goes
<1>7. \A s \in Seqs : s \in Seqs' /\ entries'[s] = entries[s]
  BY <1>3 DEF Goes
<1>8. MatchIds' = MatchIds
  BY DEF MatchIds
<1>9. Tied'
  <2>1. \A i \in MatchIds : Standing(matches[i]) => matches[i].line # l
    BY DEF PagesInv, Tied
  <2>2. \A i \in MatchIds : Standing(matches[i]) =>
          /\ lines'[matches[i].line].state = "matched"
          /\ matches[i].delta # 0 =>
               matches[i].delta \in Seqs' /\ entries'[matches[i].delta].fromBank
    BY <1>5, <1>7, <2>1, MatchIs DEF PagesInv, Tied
  <2>3. \A k \in Lines :
          /\ lines'[k].rec # 0 => lines'[k].state = "recorded"
          /\ lines'[k].state = "recorded" =>
               lines'[k].rec \in Seqs' /\ entries'[lines'[k].rec].fromBank
    <3> TAKE k \in Lines
    <3>1. CASE k = l
      BY <1>3, <1>5, <3>1
    <3>2. CASE k # l
      BY <1>5, <1>7, <3>2 DEF PagesInv, Tied
    <3> QED BY <3>1, <3>2
  <2> QED BY <1>8, <2>2, <2>3 DEF PagesInv, Tied
<1>10. Backed'
  <2>1. ASSUME NEW s \in Seqs, FromLine(s) PROVE FromLine(s)'
    <3>1. CASE \E i \in MatchIds : Standing(matches[i]) /\ matches[i].delta = s
      BY <1>8, <3>1 DEF FromLine
    <3>2. CASE \E k \in Lines : lines[k].rec = s
      <4>1. PICK k \in Lines : lines[k].rec = s
        BY <3>2
      <4>2. k # l
        BY <4>1 DEF PagesInv, Tied, Seqs
      <4>3. lines'[k].rec = s
        BY <1>5, <4>1, <4>2
      <4> QED BY <4>3 DEF FromLine
    <3> QED BY <2>1, <3>1, <3>2 DEF FromLine
  <2>2. FromLine(rec)'
    BY <1>5 DEF FromLine
  <2> QED BY <1>3, <2>1, <2>2, BackedKeeps
<1> QED BY <1>6, <1>9, <1>10 DEF PagesInv

(* What undoing a match posts: reversals alone, its difference's among them. *)
LEMMA UnmakePosts ==
  ASSUME PagesInv, NEW i \in MatchIds, NEW first,
         first = <<>> \/ \E s \in Seqs : first = <<Reversal(s)>>,
         Unmake(i, first)
  PROVE  /\ Goes
         /\ \A s \in Seqs' \ Seqs : entries'[s].kind = "reversal"
         /\ \E delta \in Nat : delta = matches[i].delta /\ (delta # 0 => Reversed(delta)')
<1>1. PICK delta \in Nat : delta = matches[i].delta
  BY MatchIs DEF PagesInv
<1>2. delta # 0 => delta \in Seqs
  BY <1>1 DEF Unmake, PagesInv, Tied
<1>3. PICK second : second = IF delta = 0 THEN <<>> ELSE <<Reversal(delta)>>
  OBVIOUS
<1>4. entries' = entries \o first \o second
  BY <1>1, <1>3 DEF Unmake
<1>5. \A s \in Seqs : Reversal(s) \in EntryRows /\ Reversal(s).kind = "reversal" /\ Reversal(s).undoes = s
  BY ReversalIs DEF PagesInv
<1>6. /\ first \in Seq(EntryRows) /\ \A k \in 1 .. Len(first) : first[k].kind = "reversal"
  <2>1. CASE first = <<>>
    BY <2>1
  <2>2. CASE first # <<>>
    <3>1. PICK s \in Seqs : first = <<Reversal(s)>>
      BY <2>2
    <3>2. PICK e \in EntryRows : e = Reversal(s) /\ e.kind = "reversal"
      BY <1>5
    <3> QED BY <3>1, <3>2
  <2> QED BY <2>1, <2>2
<1>7. CASE delta = 0
  <2>1. entries' = entries \o first
    <3>1. entries \o first \in Seq(EntryRows)
      BY <1>6, ConcatProperties DEF PagesInv, Typed
    <3> QED BY <1>3, <1>4, <1>7, <3>1, ConcatEmptySeq
  <2> QED BY <1>1, <1>6, <1>7, <2>1, ReversalsGoOn DEF PagesInv
<1>8. CASE delta # 0
  <2>1. PICK e \in EntryRows : e = Reversal(delta) /\ e.kind = "reversal" /\ e.undoes = delta
    BY <1>2, <1>5, <1>8
  <2>2. second = <<e>> /\ second \in Seq(EntryRows) /\ Len(second) = 1 /\ second[1] = e
    BY <1>3, <1>8, <2>1
  <2>3. PICK more : more = first \o second
    OBVIOUS
  <2>4. entries' = entries \o more
    BY <1>4, <1>6, <2>2, <2>3, ConcatAssociative DEF PagesInv, Typed
  <2>5. PICK n \in Nat : n = Len(first)
    BY <1>6
  <2>6. /\ more \in Seq(EntryRows) /\ Len(more) = n + 1
        /\ \A k \in 1 .. n + 1 : more[k] = IF k <= n THEN first[k] ELSE second[k - n]
    BY <1>6, <2>2, <2>3, <2>5, ConcatProperties
  <2>7. more[n + 1] = e /\ n + 1 \in 1 .. Len(more)
    BY <2>2, <2>5, <2>6
  <2>8. \A k \in 1 .. Len(more) : more[k].kind = "reversal"
    <3> TAKE k \in 1 .. Len(more)
    <3>1. k \in 1 .. n \/ k = n + 1
      BY <2>5, <2>6
    <3> QED BY <1>6, <2>1, <2>5, <2>6, <2>7, <3>1
  <2>9. /\ Goes
        /\ \A s \in Seqs' \ Seqs : entries'[s].kind = "reversal"
        /\ \A k \in 1 .. Len(more) : \E r \in Seqs' : entries'[r] = more[k]
    BY <2>4, <2>6, <2>8, ReversalsGoOn DEF PagesInv
  <2>10. Reversed(delta)'
    BY <2>1, <2>7, <2>9 DEF Reversed
  <2> QED BY <1>1, <2>9, <2>10
<1> QED BY <1>7, <1>8

LEMMA UndoneIs ==
  ASSUME NEW m \in MatchRows
  PROVE  \E undone \in MatchRows : undone = [m EXCEPT !.undone = TRUE] /\ undone.undone
<1>1. PICK yes \in BOOLEAN : yes
  OBVIOUS
<1>2. [m EXCEPT !.undone = yes] \in MatchRows
  BY DEF MatchRows
<1>3. [m EXCEPT !.undone = yes].undone = yes
  BY DEF MatchRows
<1>4. [m EXCEPT !.undone = TRUE] = [m EXCEPT !.undone = yes]
  BY <1>1
<1> QED BY <1>1, <1>2, <1>3, <1>4

LEMMA UnmakeKeeps ==
  ASSUME PagesInv, NEW i \in MatchIds, NEW first,
         first = <<>> \/ \E s \in Seqs : first = <<Reversal(s)>>,
         Unmake(i, first), UNCHANGED <<day, set>>
  PROVE  PagesInv'
<1>1. /\ Goes
      /\ \A s \in Seqs' \ Seqs : entries'[s].kind = "reversal"
  BY UnmakePosts
<1>0. PICK delta \in Nat : delta = matches[i].delta /\ (delta # 0 => Reversed(delta)')
  BY UnmakePosts
<1>2. PICK m \in MatchRows : m = matches[i] /\ m.line \in Lines
  BY MatchIs DEF PagesInv
<1>3. Standing(m) /\ lines' = Reopened(m.line) /\ matches' = [matches EXCEPT ![i].undone = TRUE]
  BY <1>2 DEF Unmake
<1>4. lines[m.line].state = "matched" /\ lines[m.line].rec = 0
  BY <1>2, <1>3 DEF PagesInv, Tied
<1>5. lines \in [Lines -> LineStates] /\ [state |-> "open", rec |-> 0] \in LineStates
  BY DEF PagesInv, Typed, LineStates
<1>6. /\ lines' \in [Lines -> LineStates]
      /\ lines'[m.line] = [state |-> "open", rec |-> 0]
      /\ \A k \in Lines : k # m.line => lines'[k] = lines[k]
  BY <1>2, <1>3, <1>5 DEF Reopened
<1>7. PICK undone \in MatchRows : /\ undone = [m EXCEPT !.undone = TRUE]
                                  /\ undone.undone
  BY UndoneIs
<1>8. matches' = [matches EXCEPT ![i] = undone]
  BY <1>2, <1>3, <1>7
<1>9. /\ matches' \in Seq(MatchRows) /\ Len(matches') = Len(matches)
      /\ matches'[i] = undone
      /\ \A j \in MatchIds : j # i => matches'[j] = matches[j]
  BY <1>8, ExceptSeq DEF PagesInv, Typed, MatchIds
<1>10. MatchIds' = MatchIds /\ ~Standing(matches'[i])
  BY <1>7, <1>9 DEF MatchIds, Standing
<1>11. Typed'
  BY <1>1, <1>6, <1>9 DEF PagesInv, Typed, Goes
<1>12. \A s \in Seqs : s \in Seqs' /\ entries'[s] = entries[s]
  BY <1>1, GoesOn DEF Goes
<1>13. \A j \in MatchIds : Standing(matches'[j]) =>
         /\ j # i /\ matches'[j] = matches[j] /\ Standing(matches[j])
         /\ matches[j].line # m.line
  BY <1>2, <1>3, <1>9, <1>10 DEF PagesInv, Tied
<1>14. Tied'
  <2>1. \A j \in MatchIds : Standing(matches'[j]) =>
          /\ lines'[matches'[j].line].state = "matched"
          /\ matches'[j].delta # 0 =>
               matches'[j].delta \in Seqs' /\ entries'[matches'[j].delta].fromBank
    BY <1>6, <1>12, <1>13, MatchIs DEF PagesInv, Tied
  <2>2. \A j, k \in MatchIds :
          Standing(matches'[j]) /\ Standing(matches'[k]) /\ matches'[j].line = matches'[k].line
            => j = k
    BY <1>13 DEF PagesInv, Tied
  <2>3. \A k \in Lines :
          /\ lines'[k].rec # 0 => lines'[k].state = "recorded"
          /\ lines'[k].state = "recorded" =>
               lines'[k].rec \in Seqs' /\ entries'[lines'[k].rec].fromBank
    <3> TAKE k \in Lines
    <3>1. CASE k = m.line
      BY <1>6, <3>1
    <3>2. CASE k # m.line
      BY <1>6, <1>12, <3>2 DEF PagesInv, Tied
    <3> QED BY <3>1, <3>2
  <2> QED BY <1>10, <2>1, <2>2, <2>3 DEF Tied
<1>15. Backed'
  <2>1. ASSUME NEW s \in Seqs, FromLine(s) PROVE FromLine(s)' \/ Reversed(s)'
    <3>0. s # 0
      BY DEF Seqs
    <3>1. CASE \E j \in MatchIds : Standing(matches[j]) /\ matches[j].delta = s
      <4>1. PICK j \in MatchIds : Standing(matches[j]) /\ matches[j].delta = s
        BY <3>1
      <4>2. CASE j = i
        BY <1>0, <3>0, <4>1, <4>2
      <4>3. CASE j # i
        BY <1>9, <1>10, <4>1, <4>3 DEF FromLine
      <4> QED BY <4>2, <4>3
    <3>2. CASE \E k \in Lines : lines[k].rec = s
      <4>1. PICK k \in Lines : lines[k].rec = s
        BY <3>2
      <4>2. k # m.line
        BY <1>4, <3>0, <4>1
      <4>3. lines'[k].rec = s
        BY <1>6, <4>1, <4>2
      <4> QED BY <4>3 DEF FromLine
    <3> QED BY <2>1, <3>1, <3>2 DEF FromLine
  <2>2. \A s \in Seqs' \ Seqs : entries'[s].kind # "payment"
    BY <1>1
  <2> QED BY <1>1, <2>1, <2>2, BackedKeeps
<1> QED BY <1>11, <1>14, <1>15 DEF PagesInv
(* Open lines are matched, each by one match that is made. *)
LEMMA MatchKeeps ==
  ASSUME PagesInv, Goes, NEW L \in SUBSET Open, UNCHANGED <<day, set>>,
         \A s \in Seqs' \ Seqs :
           entries'[s].kind = "payment" /\ entries'[s].fromBank => FromLine(s)',
         lines' = [l \in Lines |-> IF l \in L THEN [lines[l] EXCEPT !.state = "matched"]
                                   ELSE lines[l]],
         matches' \in Seq(MatchRows), MatchIds \subseteq MatchIds',
         \A i \in MatchIds : matches'[i] = matches[i],
         \A i \in MatchIds' \ MatchIds :
           /\ matches'[i].line \in L
           /\ matches'[i].delta # 0 =>
                matches'[i].delta \in Seqs' /\ entries'[matches'[i].delta].fromBank,
         \A i, j \in MatchIds' \ MatchIds : matches'[i].line = matches'[j].line => i = j
  PROVE  PagesInv'
<1>1. /\ lines' \in [Lines -> LineStates]
      /\ \A l \in L : l \in Lines /\ lines[l].state = "open" /\ lines[l].rec = 0
                        /\ lines'[l].state = "matched" /\ lines'[l].rec = 0
      /\ \A l \in Lines \ L : lines'[l] = lines[l]
  <2>1. \A l \in Lines : lines'[l] = IF l \in L THEN [lines[l] EXCEPT !.state = "matched"]
                                     ELSE lines[l]
    OBVIOUS
  <2>2. ASSUME NEW l \in L
        PROVE  /\ l \in Lines /\ lines[l].state = "open" /\ lines[l].rec = 0
               /\ lines'[l].state = "matched" /\ lines'[l].rec = 0
               /\ lines'[l] \in LineStates
    <3>1. l \in Lines /\ lines[l].state = "open" /\ lines[l].rec = 0
      BY DEF Open, PagesInv, Tied
    <3>2. PICK old \in LineStates : old = lines[l]
      BY <3>1 DEF PagesInv, Typed
    <3>3. [old EXCEPT !.state = "matched"] = [state |-> "matched", rec |-> old.rec]
      BY DEF LineStates
    <3>4. lines'[l] = [state |-> "matched", rec |-> old.rec]
      BY <2>1, <3>1, <3>2, <3>3
    <3> QED BY <3>1, <3>2, <3>4 DEF LineStates
  <2>3. \A l \in Lines \ L : lines'[l] = lines[l] /\ lines'[l] \in LineStates
    BY <2>1 DEF PagesInv, Typed
  <2>4. lines' = [l \in Lines |-> lines'[l]]
    OBVIOUS
  <2> QED BY <2>2, <2>3, <2>4
<1>2. Typed'
  BY <1>1 DEF PagesInv, Typed, Goes
<1>3. \A s \in Seqs : s \in Seqs' /\ entries'[s] = entries[s]
  BY GoesOn DEF Goes
<1>4. \A i \in MatchIds : Standing(matches[i]) => matches[i].line \in Lines \ L
  BY <1>1, MatchIs DEF PagesInv, Tied
<1>5. Tied'
  <2>1. ASSUME NEW i \in MatchIds', Standing(matches'[i])
        PROVE  /\ lines'[matches'[i].line].state = "matched"
               /\ matches'[i].delta # 0 =>
                    matches'[i].delta \in Seqs' /\ entries'[matches'[i].delta].fromBank
    <3>1. CASE i \in MatchIds
      BY <1>1, <1>3, <1>4, <2>1, <3>1 DEF PagesInv, Tied
    <3>2. CASE i \notin MatchIds
      BY <1>1, <2>1, <3>2
    <3> QED BY <3>1, <3>2
  <2>2. ASSUME NEW i \in MatchIds', NEW j \in MatchIds', Standing(matches'[i]),
               Standing(matches'[j]), matches'[i].line = matches'[j].line
        PROVE  i = j
    <3>1. CASE i \in MatchIds /\ j \in MatchIds
      BY <2>2, <3>1 DEF PagesInv, Tied
    <3>2. CASE i \notin MatchIds /\ j \notin MatchIds
      BY <2>2, <3>2
    <3>3. CASE i \in MatchIds /\ j \notin MatchIds
      BY <1>4, <2>2, <3>3
    <3>4. CASE i \notin MatchIds /\ j \in MatchIds
      BY <1>4, <2>2, <3>4
    <3> QED BY <3>1, <3>2, <3>3, <3>4
  <2>3. ASSUME NEW l \in Lines
        PROVE  /\ lines'[l].rec # 0 => lines'[l].state = "recorded"
               /\ lines'[l].state = "recorded" =>
                    lines'[l].rec \in Seqs' /\ entries'[lines'[l].rec].fromBank
    <3>1. CASE l \in L
      BY <1>1, <3>1
    <3>2. CASE l \notin L
      BY <1>1, <1>3, <3>2 DEF PagesInv, Tied
    <3> QED BY <3>1, <3>2
  <2> QED BY <2>1, <2>2, <2>3 DEF Tied
<1>6. Backed'
  <2>1. ASSUME NEW s \in Seqs, FromLine(s) PROVE FromLine(s)'
    <3>1. CASE \E i \in MatchIds : Standing(matches[i]) /\ matches[i].delta = s
      BY <3>1 DEF FromLine
    <3>2. CASE \E k \in Lines : lines[k].rec = s
      <4>1. PICK k \in Lines : lines[k].rec = s
        BY <3>2
      <4>2. s # 0
        BY DEF Seqs
      <4>3. lines'[k].rec = s
        BY <1>1, <4>1, <4>2
      <4> QED BY <4>3 DEF FromLine
    <3> QED BY <2>1, <3>1, <3>2 DEF FromLine
  <2> QED BY <2>1, BackedKeeps
<1> QED BY <1>2, <1>5, <1>6 DEF PagesInv

(* The difference of a match is an entry of reconciliation's, if there is one. *)
LEMMA DifferenceIs ==
  ASSUME Typed, NEW l \in Lines, NEW s \in Seqs, NEW u \in Users
  PROVE  \/ Difference(l, s, u) = <<>>
         \/ \E e \in EntryRows : e.fromBank /\ Difference(l, s, u) = <<e>>
<1>1. PICK d \in Int : d = Received[l] - entries[s].amount
  <2>1. entries[s] \in EntryRows
    BY DEF Typed, Seqs
  <2>2. entries[s].amount \in Int
    BY <2>1 DEF EntryRows
  <2> QED BY <2>2, FiguresAssumption
<1>2. PICK on \in Int : on = PostedOn[l]
  BY FiguresAssumption
<1>3. PICK yes \in BOOLEAN : yes
  OBVIOUS
<1>4. PICK kind \in {"payment", "adjustment"} : kind = IF d > 0 THEN "payment" ELSE "adjustment"
  OBVIOUS
<1>5. PICK e : e = [kind |-> kind, amount |-> d, by |-> u, day |-> on, method |-> "none",
                    fromBank |-> yes, undoes |-> 0]
  OBVIOUS
<1>6. e \in EntryRows /\ e.fromBank
  BY <1>3, <1>5 DEF EntryRows
<1>7. Entry(kind, d, u, on, "none", TRUE) = e
  BY <1>3, <1>5 DEF Entry
<1>8. Difference(l, s, u) = IF d = 0 THEN <<>> ELSE <<e>>
  BY <1>1, <1>2, <1>4, <1>7 DEF Difference
<1> QED BY <1>6, <1>8

LEMMA ConfirmKeeps ==
  ASSUME PagesInv, NEW u \in Users, NEW l \in Lines, NEW s, ConfirmPair(u, l, s),
         UNCHANGED <<day, set>>
  PROVE  PagesInv'
<1>1. lines[l].state = "open" /\ s \in Seqs
  BY DEF ConfirmPair, Confirmable, Undecided
<1>2. PICK extra : extra = Difference(l, s, u)
  OBVIOUS
<1>3. extra = <<>> \/ \E e \in EntryRows : e.fromBank /\ extra = <<e>>
  BY <1>1, <1>2, DifferenceIs DEF PagesInv
<1>4. PICK n \in Nat : n = Len(entries)
  BY DEF PagesInv, Typed
<1>5. PICK delta \in Nat : delta = IF extra = <<>> THEN 0 ELSE n + 1
  OBVIOUS
<1>6. PICK m : m = [line |-> l, seq |-> s, undone |-> FALSE, delta |-> delta]
  OBVIOUS
<1>7. /\ entries' = entries \o extra
      /\ matches' = Append(matches, m)
      /\ lines' = [lines EXCEPT ![l].state = "matched"]
  BY <1>2, <1>4, <1>5, <1>6 DEF ConfirmPair
<1>8. m \in MatchRows /\ m.line = l /\ m.delta = delta /\ ~m.undone
  BY <1>1, <1>6 DEF MatchRows, Seqs
<1>9. /\ matches' \in Seq(MatchRows) /\ Len(matches') = Len(matches) + 1
      /\ \A i \in 1 .. Len(matches) : matches'[i] = matches[i]
      /\ matches'[Len(matches) + 1] = m
  BY <1>7, <1>8, AppendProperties DEF PagesInv, Typed
<1>10. PICK k \in Nat : k = Len(matches)
  BY DEF PagesInv, Typed
<1>11. MatchIds' = MatchIds \cup {k + 1} /\ MatchIds' \ MatchIds = {k + 1}
  BY <1>9, <1>10 DEF MatchIds
<1>12. /\ Goes
       /\ \A r \in Seqs' \ Seqs : r = delta
       /\ delta # 0 => delta \in Seqs' /\ entries'[delta].fromBank
  <2>1. CASE extra = <<>>
    <3>1. entries' = entries
      BY <1>7, <2>1, ConcatEmptySeq DEF PagesInv, Typed
    <3>2. Seqs' = Seqs
      BY <3>1 DEF Seqs
    <3>3. Goes
      BY <1>4, <3>1 DEF Goes, PagesInv, Typed
    <3> QED BY <1>5, <2>1, <3>2, <3>3
  <2>2. CASE extra # <<>>
    <3>1. PICK e \in EntryRows : e.fromBank /\ extra = <<e>>
      BY <1>3, <2>2
    <3>2. entries' = Append(entries, e)
      BY <1>7, <3>1, AppendIsConcat DEF PagesInv, Typed
    <3>3. Goes /\ Seqs' = Seqs \cup {n + 1} /\ entries'[n + 1] = e
      BY <1>4, <3>2, AppendGoesOn DEF PagesInv
    <3> QED BY <1>5, <2>2, <3>1, <3>3
  <2> QED BY <2>1, <2>2
<1>13. ASSUME NEW r \in Seqs' \ Seqs PROVE FromLine(r)'
  <2>1. r = delta /\ k + 1 \in MatchIds' /\ matches'[k + 1].delta = r /\ Standing(matches'[k + 1])
    BY <1>8, <1>9, <1>10, <1>11, <1>12 DEF Standing
  <2> QED BY <2>1 DEF FromLine
<1>14. PICK L \in SUBSET Open : L = {l}
  BY <1>1 DEF Open
<1>15. lines' = [x \in Lines |-> IF x \in L THEN [lines[x] EXCEPT !.state = "matched"]
                                 ELSE lines[x]]
  BY <1>7, <1>14 DEF PagesInv, Typed
<1>16. \A i \in MatchIds : matches'[i] = matches[i]
  BY <1>9 DEF MatchIds
<1>17. \A i \in MatchIds' \ MatchIds :
         /\ matches'[i].line \in L
         /\ matches'[i].delta # 0 =>
              matches'[i].delta \in Seqs' /\ entries'[matches'[i].delta].fromBank
  BY <1>8, <1>9, <1>10, <1>11, <1>12, <1>14
<1>18. \A i, j \in MatchIds' \ MatchIds : matches'[i].line = matches'[j].line => i = j
  BY <1>11
<1> QED BY <1>9, <1>11, <1>12, <1>13, <1>15, <1>16, <1>17, <1>18, MatchKeeps
(* What the page suggests is about open lines, and each about its own. *)
LEMMA SuggestedApart ==
  ASSUME Typed
  PROVE  LET suggested == BuildSuggestions.suggestions
         IN  /\ suggested \in SUBSET Pair /\ IsFiniteSet(suggested)
             /\ \A p \in suggested : p.line \in Open /\ p.seq \in Nat
             /\ \A p, q \in suggested : p.line = q.line => p = q
<1>1. PICK ls, ps : ls = {LineRec(l) : l \in Open} /\ ps = {PayRec(s) : s \in Candidates}
  OBVIOUS
<1>2. Known(ls, ps, set)
  BY <1>1, PageIsKnown
<1>3. PICK P : P = Pairs(ls, ps, set)
  OBVIOUS
<1>4. Pairing(P)
  BY <1>2, <1>3, PairsArePaired
<1>5. Settled(Place(P), P)
  BY <1>4, PlaceSettles
<1>6. PICK suggested : suggested = BuildSuggestions.suggestions
  OBVIOUS
<1>7. suggested = Place(P).suggestions
  BY <1>1, <1>3, <1>6 DEF BuildSuggestions, Suggestions
<1>8. suggested \in SUBSET P
  BY <1>5, <1>7 DEF Settled, Results
<1>9. suggested \in SUBSET Pair /\ IsFiniteSet(suggested)
  BY <1>4, <1>8, FS_Subset DEF Pairing
<1>10. ASSUME NEW p \in P PROVE p.line \in Open /\ p.seq \in Nat
  <2>1. PICK x \in ls \X ps : p.line = x[1].id /\ p.seq = x[2].seq
    BY <1>3 DEF Pairs, Offered
  <2>2. PICK l \in Open, s \in Candidates : x[1] = LineRec(l) /\ x[2] = PayRec(s)
    BY <1>1
  <2> QED BY <2>1, <2>2 DEF LineRec, PayRec, Candidates, Seqs
<1>11. ASSUME NEW p \in suggested, NEW q \in suggested, p.line = q.line PROVE p = q
  <2>1. {p} \in Groups(Place(P)) /\ {q} \in Groups(Place(P))
    BY <1>7 DEF Groups
  <2>2. Separate(Groups(Place(P)))
    BY <1>5 DEF Settled
  <2>3. Touch(p, q)
    BY <1>11 DEF Touch
  <2> QED BY <2>1, <2>2, <2>3 DEF Separate
<1> QED BY <1>6, <1>8, <1>9, <1>10, <1>11

(* The last pair in the order of the sort is one of them. *)
LEMMA LastIsOne ==
  ASSUME NEW P, Pairing(P), NEW T \in SUBSET P, T # {}
  PROVE  Last(T) \in T
<1> DEFINE G == {U \in SUBSET P : U # {} => \E p \in U : \A q \in U \ {p} : Before(q, p)}
<1>1. ASSUME NEW U \in SUBSET P, NEW x \in U, U \ {x} \in G PROVE U \in G
  <2>1. CASE U \ {x} = {}
    BY <2>1
  <2>2. CASE U \ {x} # {}
    <3>1. PICK p \in U \ {x} : \A q \in (U \ {x}) \ {p} : Before(q, p)
      BY <1>1, <2>2
    <3>2. \A q \in P : q.score \in Int /\ q.line \in Int /\ q.seq \in Int
      BY DEF Pairing, Pair
    <3>3. ~(p.line = x.line /\ p.seq = x.seq)
      BY <3>1 DEF Pairing
    <3>4. Before(p, x) \/ Before(x, p)
      BY <3>1, <3>2, <3>3 DEF Before
    <3>5. CASE Before(x, p)
      BY <3>1, <3>5
    <3>6. CASE Before(p, x)
      <4>1. ASSUME NEW q \in U \ {x}, q # p PROVE Before(q, x)
        <5>1. Before(q, p)
          BY <3>1, <4>1
        <5> QED BY <3>1, <3>2, <3>6, <5>1 DEF Before
      <4> QED BY <3>6, <4>1
    <3> QED BY <3>4, <3>5, <3>6
  <2> QED BY <2>1, <2>2
<1>2. \A U \in SUBSET P : U \in G
  <2>1. \A U \in SUBSET P : U # {} => \E x \in U : U \ {x} \in G => U \in G
    BY <1>1
  <2>2. {} \in G /\ IsFiniteSet(P)
    BY DEF Pairing
  <2> HIDE DEF G
  <2> QED BY <2>1, <2>2, TakeAway
<1>3. \E p \in T : \A q \in T \ {p} : Before(q, p)
  BY <1>2
<1> QED BY <1>3 DEF Last

(* The matches there were, and one for each pair. *)
OneEach(ps, list) ==
  /\ list \in Seq(MatchRows) /\ MatchIds \subseteq 1 .. Len(list)
  /\ \A i \in MatchIds : list[i] = matches[i]
  /\ \A i \in 1 .. Len(list) : i \notin MatchIds =>
       \E p \in ps : list[i] = ExactMatch(p)
  /\ \A i, j \in 1 .. Len(list) :
       i \notin MatchIds /\ j \notin MatchIds /\ list[i].line = list[j].line => i = j

LEMMA OneMoreEach ==
  ASSUME NEW S, \A p \in S : ExactMatch(p) \in MatchRows,
         \A p, q \in S : p.line = q.line => p = q,
         NEW ps \in SUBSET S, NEW p \in ps, NEW list, OneEach(ps \ {p}, list)
  PROVE  OneEach(ps, Append(list, ExactMatch(p)))
<1>1. PICK m \in MatchRows : m = ExactMatch(p) /\ m.line = p.line
  BY DEF ExactMatch
<1>2. list \in Seq(MatchRows)
  BY DEF OneEach
<1>3. PICK new : new = Append(list, m)
  OBVIOUS
<1>4. PICK n \in Nat : n = Len(list)
  BY <1>2
<1>5. /\ new \in Seq(MatchRows) /\ Len(new) = n + 1
      /\ \A i \in 1 .. n : new[i] = list[i]
      /\ new[n + 1] = m
  BY <1>2, <1>3, <1>4, AppendProperties
<1>6. MatchIds \subseteq 1 .. n /\ \A i \in MatchIds : new[i] = matches[i]
  BY <1>4, <1>5 DEF OneEach
<1>7. MatchIds \subseteq 1 .. n + 1
  BY <1>4, <1>6
<1>8. ASSUME NEW i \in 1 .. n + 1, i \notin MatchIds
      PROVE  \E q \in ps : new[i] = ExactMatch(q) /\ (q = p => i = n + 1)
  <2>1. CASE i = n + 1
    BY <1>1, <1>5, <2>1
  <2>2. CASE i # n + 1
    <3>1. i \in 1 .. n
      BY <2>2
    <3>2. PICK q \in ps \ {p} : list[i] = ExactMatch(q)
      BY <1>4, <1>8, <3>1 DEF OneEach
    <3> QED BY <1>5, <3>1, <3>2
  <2> QED BY <2>1, <2>2
<1>9. ASSUME NEW i \in 1 .. n + 1, NEW j \in 1 .. n + 1, i \notin MatchIds, j \notin MatchIds,
             new[i].line = new[j].line
      PROVE  i = j
  <2>1. PICK q \in ps, r \in ps : /\ new[i] = ExactMatch(q) /\ (q = p => i = n + 1)
                                  /\ new[j] = ExactMatch(r) /\ (r = p => j = n + 1)
    BY <1>8, <1>9
  <2>2. q = r
    <3>1. ExactMatch(q).line = q.line /\ ExactMatch(r).line = r.line
      BY DEF ExactMatch
    <3> QED BY <1>9, <2>1, <3>1
  <2>3. CASE i = n + 1 /\ j = n + 1
    BY <2>3
  <2>4. CASE i \in 1 .. n /\ j \in 1 .. n
    <3>1. list[i].line = list[j].line
      BY <1>5, <1>9, <2>4
    <3> QED BY <1>4, <1>9, <2>4, <3>1 DEF OneEach
  <2>5. CASE i = n + 1 /\ j \in 1 .. n
    <3>1. PICK other \in ps \ {p} : new[j] = ExactMatch(other)
      BY <1>4, <1>5, <1>9, <2>5 DEF OneEach
    <3>2. other.line = p.line
      BY <1>1, <1>5, <1>9, <2>5, <3>1 DEF ExactMatch
    <3> QED BY <3>1, <3>2
  <2>6. CASE i \in 1 .. n /\ j = n + 1
    <3>1. PICK other \in ps \ {p} : new[i] = ExactMatch(other)
      BY <1>4, <1>5, <1>9, <2>6 DEF OneEach
    <3>2. other.line = p.line
      BY <1>1, <1>5, <1>9, <2>6, <3>1 DEF ExactMatch
    <3> QED BY <3>1, <3>2
  <2> QED BY <2>3, <2>4, <2>5, <2>6
<1>10. OneEach(ps, new)
  BY <1>4, <1>5, <1>6, <1>7, <1>8, <1>9 DEF OneEach
<1> QED BY <1>1, <1>3, <1>10

LEMMA ConfirmedIs ==
  ASSUME Typed, NEW S, Pairing(S), \A p \in S : ExactMatch(p) \in MatchRows,
         \A p, q \in S : p.line = q.line => p = q
  PROVE  OneEach(S, Confirmed(S))
<1> DEFINE Step(g) == [ps \in SUBSET S |->
             IF ps = {} THEN matches
             ELSE Append(g[ps \ {Last(ps)}], ExactMatch(Last(ps)))]
           iter == CHOOSE g : g = Step(g)
<1>1. Confirmed(S) = iter[S]
  BY DEF Confirmed
<1>2. \E g : g = Step(g)
  <2>1. PICK pick : pick = [T \in SUBSET S |-> Last(T)]
    OBVIOUS
  <2>2. Picks(pick, S)
    BY <2>1, LastIsOne DEF Picks
  <2>3. PICK V : V = Seq(MatchRows)
    OBVIOUS
  <2>4. PICK step : step = [x \in V \X S |-> Append(x[1], ExactMatch(x[2]))]
    OBVIOUS
  <2>5. \A v \in V : \A x \in S : step[<<v, x>>] = Append(v, ExactMatch(x)) /\ step[<<v, x>>] \in V
    BY <2>3, <2>4, AppendProperties
  <2>6. matches \in V /\ Steps(step, S, V) /\ IsFiniteSet(S)
    BY <2>3, <2>5 DEF Typed, Steps, Pairing
  <2>7. PICK f : f \in Recursions(S, pick, V, matches, step)
    BY <2>2, <2>6, Recursion
  <2>8. ASSUME NEW T \in SUBSET S
        PROVE  f[T] = IF T = {} THEN matches
                      ELSE Append(f[T \ {Last(T)}], ExactMatch(Last(T)))
    <3>1. CASE T # {}
      <4>1. Last(T) \in S /\ T \ {Last(T)} \in SUBSET S
        BY <3>1, LastIsOne
      <4>2. f[T] = step[<<f[T \ {Last(T)}], Last(T)>>]
        BY <2>1, <2>7, <3>1 DEF Recursions
      <4>3. f[T \ {Last(T)}] \in V
        BY <2>7, <4>1 DEF Recursions
      <4> QED BY <2>5, <3>1, <4>1, <4>2, <4>3
    <3> QED BY <2>7, <3>1 DEF Recursions
  <2>9. f = Step(f)
    BY <2>7, <2>8 DEF Recursions
  <2> QED BY <2>9
<1>3. iter = Step(iter)
  BY <1>2
<1>4. iter[{}] = matches
  BY <1>3
<1>5. ASSUME NEW T \in SUBSET S, T # {}
      PROVE  iter[T] = Append(iter[T \ {Last(T)}], ExactMatch(Last(T)))
  BY <1>3, <1>5
<1> HIDE DEF iter
<1> DEFINE G == {T \in SUBSET S : OneEach(T, iter[T])}
<1>6. ASSUME NEW T \in SUBSET S, T # {}, T \ {Last(T)} \in G PROVE T \in G
  <2>1. PICK p \in T : p = Last(T)
    BY <1>6, LastIsOne
  <2>2. PICK list : list = iter[T \ {p}]
    OBVIOUS
  <2>3. OneEach(T \ {p}, list)
    BY <1>6, <2>1, <2>2
  <2>4. OneEach(T, Append(list, ExactMatch(p)))
    BY <2>3, OneMoreEach
  <2> QED BY <1>5, <1>6, <2>1, <2>2, <2>4
<1>7. {} \in G
  <2>1. MatchIds = 1 .. Len(matches)
    BY DEF MatchIds
  <2> QED BY <1>4, <2>1 DEF OneEach, Typed
<1>8. \A T \in SUBSET S : T \in G
  <2>1. \A T \in SUBSET S : T # {} => \E x \in T : T \ {x} \in G => T \in G
    BY <1>6, LastIsOne
  <2>2. IsFiniteSet(S)
    BY DEF Pairing
  <2> HIDE DEF G
  <2> QED BY <1>7, <2>1, <2>2, TakeAway
<1> QED BY <1>1, <1>8

LEMMA ConfirmExactKeeps ==
  ASSUME PagesInv, NEW u, PostReconcileConfirmExact(u)
  PROVE  PagesInv'
<1>1. PICK suggested : suggested = BuildSuggestions.suggestions
  OBVIOUS
<1>2. /\ suggested \in SUBSET Pair /\ IsFiniteSet(suggested)
      /\ \A p \in suggested : p.line \in Open /\ p.seq \in Nat
      /\ \A p, q \in suggested : p.line = q.line => p = q
  BY <1>1, SuggestedApart DEF PagesInv
<1>3. PICK S \in SUBSET suggested : S = {p \in suggested : p.exact}
  OBVIOUS
<1>4. Pairing(S)
  BY <1>2, <1>3, FS_Subset DEF Pairing
<1>5. \A p \in S : ExactMatch(p) \in MatchRows /\ p.line \in Open
  BY <1>2, <1>3 DEF ExactMatch, MatchRows, Open
<1>6. PICK list : list = Confirmed(S)
  OBVIOUS
<1>7. OneEach(S, list)
  BY <1>2, <1>4, <1>5, <1>6, ConfirmedIs DEF PagesInv
<1>8. /\ matches' = list
      /\ UNCHANGED <<day, entries, set>>
      /\ lines' = [l \in Lines |-> IF l \in LinesOf(S) THEN [lines[l] EXCEPT !.state = "matched"]
                                   ELSE lines[l]]
  BY <1>1, <1>3, <1>6 DEF PostReconcileConfirmExact, terms
<1>9. LinesOf(S) \in SUBSET Open
  BY <1>5 DEF LinesOf
<1>10. Goes /\ Seqs' = Seqs
  BY <1>8 DEF Goes, PagesInv, Typed, Seqs
<1>11. MatchIds' = 1 .. Len(list)
  BY <1>8 DEF MatchIds
<1>12. /\ matches' \in Seq(MatchRows) /\ MatchIds \subseteq MatchIds'
       /\ \A i \in MatchIds : matches'[i] = matches[i]
       /\ \A i, j \in MatchIds' \ MatchIds : matches'[i].line = matches'[j].line => i = j
  BY <1>7, <1>8, <1>11 DEF OneEach
<1>13. ASSUME NEW i \in MatchIds' \ MatchIds
       PROVE  matches'[i].line \in LinesOf(S) /\ matches'[i].delta = 0
  <2>1. PICK p \in S : matches'[i] = ExactMatch(p)
    BY <1>7, <1>8, <1>11 DEF OneEach
  <2> QED BY <2>1 DEF ExactMatch, LinesOf
<1> QED BY <1>8, <1>9, <1>10, <1>12, <1>13, MatchKeeps
-----------------------------------------------------------------------------
(* The handlers, by what they touch. *)
LEMMA MoneyKeeps ==
  ASSUME PagesInv, NEW u \in Users, NEW amount \in Int, NEW method, NEW direction,
         \/ RecordPayment(u, amount, method)
         \/ PostCharge(u, amount)
         \/ PostAdjustment(u, amount, direction)
  PROVE  PagesInv'
<1>1. PICK today \in Int : today = day
  BY DEF PagesInv, Typed
<1>2. PICK no \in BOOLEAN : ~no
  OBVIOUS
<1>3. ASSUME NEW kind \in {"payment", "charge", "adjustment"}, NEW a \in Int,
             NEW m \in Methods \cup {"none"}, Post(Entry(kind, a, u, day, m, FALSE))
      PROVE  \E e \in EntryRows : ~e.fromBank /\ Post(e)
  <2>1. PICK e : e = [kind |-> kind, amount |-> a, by |-> u, day |-> today, method |-> m,
                      fromBank |-> no, undoes |-> 0]
    OBVIOUS
  <2>2. Entry(kind, a, u, day, m, FALSE) = e
    BY <1>1, <1>2, <2>1 DEF Entry
  <2>3. e \in EntryRows /\ ~e.fromBank
    BY <1>2, <2>1 DEF EntryRows
  <2> QED BY <1>3, <2>2, <2>3
<1>4. PICK e \in EntryRows : ~e.fromBank /\ Post(e)
  <2>1. CASE RecordPayment(u, amount, method)
    <3>1. method \in Methods /\ Post(Entry("payment", amount, u, day, method, FALSE))
      BY <2>1 DEF RecordPayment
    <3> QED BY <1>3, <3>1
  <2>2. CASE PostCharge(u, amount)
    <3>1. PICK a \in Int : a = -amount
      OBVIOUS
    <3>2. Post(Entry("charge", a, u, day, "none", FALSE))
      BY <2>2, <3>1 DEF PostCharge
    <3> QED BY <1>3, <3>2
  <2>3. CASE PostAdjustment(u, amount, direction)
    <3>1. PICK a \in Int : a = IF direction = "debit" THEN -amount ELSE amount
      OBVIOUS
    <3>2. Post(Entry("adjustment", a, u, day, "none", FALSE))
      BY <2>3, <3>1 DEF PostAdjustment
    <3> QED BY <1>3, <3>2
  <2> QED BY <2>1, <2>2, <2>3
<1>5. UNCHANGED <<day, lines, matches, set>>
  BY DEF RecordPayment, PostCharge, PostAdjustment, terms, recon
<1> QED BY <1>4, <1>5, PostKeeps

LEMMA UndoKeeps ==
  ASSUME PagesInv, NEW u, NEW s, PostUndo(u, s)
  PROVE  PagesInv'
<1>1. s \in Seqs /\ UNCHANGED <<day, set>>
  BY DEF PostUndo, terms
<1>2. PICK e \in EntryRows : e = Reversal(s) /\ e.kind = "reversal"
  BY <1>1, ReversalIs DEF PagesInv
<1>3. CASE \E i \in MatchOf(s) : Unmake(i, <<Reversal(s)>>)
  <2>1. PICK i \in MatchIds : Unmake(i, <<Reversal(s)>>)
    BY <1>3 DEF MatchOf, MatchIds
  <2> QED BY <1>1, <2>1, UnmakeKeeps
<1>4. CASE \E i \in DeltaOf(s) : Unmake(i, <<>>)
  <2>1. PICK i \in MatchIds : Unmake(i, <<>>)
    BY <1>4 DEF DeltaOf, MatchIds
  <2> QED BY <1>1, <2>1, UnmakeKeeps
<1>5. CASE \E l \in LineOf(s) : Post(Reversal(s)) /\ lines' = Reopened(l) /\ UNCHANGED matches
  <2>1. PICK l \in Lines : lines[l].rec = s /\ Post(Reversal(s)) /\ lines' = Reopened(l)
                             /\ UNCHANGED matches
    BY <1>5 DEF LineOf
  <2>2. lines[l].state = "recorded"
    BY <1>1, <2>1 DEF PagesInv, Tied, Seqs
  <2> QED BY <1>1, <2>1, <2>2, ReleaseKeeps
<1>6. CASE Post(Reversal(s)) /\ UNCHANGED <<lines, matches>>
  BY <1>1, <1>2, <1>6, PostKeeps
<1> QED BY <1>3, <1>4, <1>5, <1>6 DEF PostUndo

LEMMA ImportKeeps == PagesInv /\ Import => PagesInv'
<1> SUFFICES ASSUME PagesInv, Import PROVE PagesInv'
  OBVIOUS
<1>1. PICK new : new = {l \in Lines : lines[l].state = "absent" /\ PostedOn[l] <= day}
  OBVIOUS
<1>2. /\ lines' = [l \in Lines |-> IF l \in new THEN [lines[l] EXCEPT !.state = "open"]
                                   ELSE lines[l]]
      /\ UNCHANGED <<day, entries, matches, set>>
  BY <1>1 DEF Import, terms
<1>3. ASSUME NEW l \in Lines
      PROVE  /\ lines'[l] \in LineStates
             /\ \/ lines'[l] = lines[l]
                \/ /\ lines[l].state = "absent" /\ lines'[l].state = "open"
                   /\ lines'[l].rec = lines[l].rec
  <2>1. PICK old \in LineStates : old = lines[l]
    BY DEF PagesInv, Typed
  <2>2. [old EXCEPT !.state = "open"] = [state |-> "open", rec |-> old.rec]
    BY DEF LineStates
  <2>3. lines'[l] = IF l \in new THEN [state |-> "open", rec |-> old.rec] ELSE old
    BY <1>2, <2>1, <2>2
  <2>4. [state |-> "open", rec |-> old.rec] \in LineStates
    BY DEF LineStates
  <2> QED BY <1>1, <2>1, <2>3, <2>4
<1>4. lines' = [l \in Lines |-> lines'[l]]
  BY <1>2
<1>5. lines' \in [Lines -> LineStates]
  BY <1>3, <1>4
<1> QED BY <1>2, <1>3, <1>5, LinesMoveKeeps

LEMMA TransitionKeeps ==
  ASSUME PagesInv, NEW u, NEW l \in Lines, NEW from \in {"open", "ignored"},
         NEW to \in {"open", "ignored"}, LineTransition(u, l, from, to)
  PROVE  PagesInv'
<1>1. /\ lines' = [lines EXCEPT ![l].state = to] /\ lines[l].state = from
      /\ UNCHANGED <<day, entries, matches, set>>
  BY DEF LineTransition, terms
<1>2. PICK old \in LineStates : old = lines[l]
  BY DEF PagesInv, Typed
<1>3. PICK new \in LineStates : new = [old EXCEPT !.state = to] /\ new.state = to /\ new.rec = old.rec
  <2>1. [old EXCEPT !.state = to] = [state |-> to, rec |-> old.rec]
    BY DEF LineStates
  <2>2. [state |-> to, rec |-> old.rec] \in LineStates
    BY DEF LineStates
  <2> QED BY <2>1, <2>2
<1>4. lines' = [lines EXCEPT ![l] = new]
  BY <1>1, <1>2, <1>3
<1>5. /\ lines' \in [Lines -> LineStates] /\ lines'[l] = new
      /\ \A k \in Lines : k # l => lines'[k] = lines[k]
  BY <1>4 DEF PagesInv, Typed
<1>6. \A k \in Lines : \/ lines'[k] = lines[k]
                       \/ /\ lines[k].state \in {"absent", "open", "ignored"}
                          /\ lines'[k].state \in {"open", "ignored"}
                          /\ lines'[k].rec = lines[k].rec
  BY <1>1, <1>2, <1>3, <1>5
<1> QED BY <1>1, <1>5, <1>6, LinesMoveKeeps

LEMMA RecordLineKeeps ==
  ASSUME PagesInv, NEW u \in Users, NEW l \in Lines, NEW method, PostRecordLine(u, l, method)
  PROVE  PagesInv'
<1>1. PICK yes \in BOOLEAN : yes
  OBVIOUS
<1>2. PICK amount \in Int, on \in Int : amount = Received[l] /\ on = PostedOn[l]
  BY FiguresAssumption
<1>3. method \in {"transfer", "other"}
  BY DEF PostRecordLine
<1>4. PICK e : e = [kind |-> "payment", amount |-> amount, by |-> u, day |-> on,
                    method |-> method, fromBank |-> yes, undoes |-> 0]
  OBVIOUS
<1>5. e \in EntryRows /\ e.fromBank
  BY <1>1, <1>3, <1>4 DEF EntryRows
<1>6. Entry("payment", amount, u, on, method, TRUE) = e
  BY <1>1, <1>4 DEF Entry
<1>7. /\ lines[l].state = "open" /\ Post(e)
      /\ lines' = [lines EXCEPT ![l] = [state |-> "recorded", rec |-> Len(entries) + 1]]
      /\ UNCHANGED <<day, matches, set>>
  BY <1>2, <1>6 DEF PostRecordLine, terms
<1> QED BY <1>5, <1>7, RecordKeeps

LEMMA OthersKeep ==
  ASSUME PagesInv, NEW u, NEW f,
         \/ PostParticipant(u, f.who, f.as)
         \/ PostParticipantRemove(u, f.who)
         \/ PostTabDetails(u, f.kind)
         \/ PostTabArchive(u)
         \/ PostLoanTerms(u, f.installment)
         \/ PostItem(u, f.item, f.price)
         \/ PostItemUpdate(u, f.item, f.price)
         \/ PostItemRemove(u, f.item)
         \/ PostAdminUserActive(u, f.who, f.on)
         \/ PostAdminUserReconcile(u, f.who, f.on)
         \/ PostPaymentNotInBank(u, f.seq)
         \/ PostUndoPaymentReview(u, f.id)
  PROVE  PagesInv'
<1>1. UNCHANGED <<day, set, entries, lines, matches>>
  BY DEF PostParticipant, PostParticipantRemove, PostTabDetails, PostTabArchive, PostLoanTerms,
         PostItem, PostItemUpdate, PostItemRemove, PostAdminUserActive, PostAdminUserReconcile,
         PostPaymentNotInBank, PostUndoPaymentReview, terms, recon
<1> QED BY <1>1, StayingKeeps DEF PagesInv, Typed

LEMMA HandleKeeps ==
  ASSUME PagesInv, NEW u \in Users, NEW f \in Forms, Handle(u, f)
  PROVE  PagesInv'
<1>1. CASE f.do \in {"payment", "settle"} /\ RecordPayment(u, f.amount, f.method)
  <2>1. f.amount \in Paid
    BY <1>1 DEF Forms
  <2> QED BY <1>1, <2>1, FiguresAssumption, MoneyKeeps
<1>2. CASE f.do = "charge" /\ PostCharge(u, f.amount)
  <2>1. f.amount \in Charged
    BY <1>2 DEF Forms
  <2> QED BY <1>2, <2>1, FiguresAssumption, MoneyKeeps
<1>3. CASE f.do = "adjustment" /\ PostAdjustment(u, f.amount, f.direction)
  <2>1. f.amount \in Charged
    BY <1>3 DEF Forms
  <2> QED BY <1>3, <2>1, FiguresAssumption, MoneyKeeps
<1>4. CASE f.do = "undo" /\ PostUndo(u, f.seq)
  BY <1>4, UndoKeeps
<1>5. CASE f.do = "confirm" /\ PostReconcileConfirm(u, f.line, f.seq)
  <2>1. f.line \in Lines
    BY <1>5 DEF Forms
  <2>2. ConfirmPair(u, f.line, f.seq) /\ UNCHANGED <<day, set>>
    BY <1>5 DEF PostReconcileConfirm, terms
  <2> QED BY <2>1, <2>2, ConfirmKeeps
<1>6. CASE f.do = "confirm-exact" /\ PostReconcileConfirmExact(u)
  BY <1>6, ConfirmExactKeeps
<1>7. CASE f.do = "undo-match" /\ PostReconcileUndo(u, f.id)
  <2>1. f.id \in MatchIds /\ Unmake(f.id, <<>>) /\ UNCHANGED <<day, set>>
    BY <1>7 DEF PostReconcileUndo, MatchIds, terms
  <2> QED BY <2>1, UnmakeKeeps
<1>8. CASE f.do = "record" /\ PostRecordLine(u, f.line, f.method)
  <2>1. f.line \in Lines
    BY <1>8 DEF Forms
  <2> QED BY <1>8, <2>1, RecordLineKeeps
<1>9. CASE f.do = "unrecord" /\ PostUnrecordLine(u, f.line)
  <2>1. f.line \in Lines
    BY <1>9 DEF Forms
  <2>2. /\ lines[f.line].state = "recorded" /\ Post(Reversal(lines[f.line].rec))
        /\ lines' = Reopened(f.line) /\ UNCHANGED <<day, matches, set>>
    BY <1>9 DEF PostUnrecordLine, terms
  <2> QED BY <2>1, <2>2, ReleaseKeeps
<1>10. CASE \/ f.do = "ignore"   /\ LineTransition(u, f.line, "open", "ignored")
            \/ f.do = "unignore" /\ LineTransition(u, f.line, "ignored", "open")
  <2>1. f.line \in Lines
    BY <1>10 DEF Forms
  <2> QED BY <1>10, <2>1, TransitionKeeps
<1>11. CASE f.do = "settings" /\ PostReconcileSettings(u, f.values)
  <2>1. f.values \in Settings
    BY <1>11 DEF Forms
  <2>2. set' = f.values /\ UNCHANGED <<day, entries, lines, matches>>
    BY <1>11 DEF PostReconcileSettings, recon
  <2> QED BY <2>1, <2>2, StayingKeeps DEF PagesInv, Typed
<1>12. CASE \/ f.do = "participants"  /\ PostParticipant(u, f.who, f.as)
            \/ f.do = "remove"        /\ PostParticipantRemove(u, f.who)
            \/ f.do = "details"       /\ PostTabDetails(u, f.kind)
            \/ f.do = "archive"       /\ PostTabArchive(u)
            \/ f.do = "loan"          /\ PostLoanTerms(u, f.installment)
            \/ f.do = "items"         /\ PostItem(u, f.item, f.price)
            \/ f.do = "item-update"   /\ PostItemUpdate(u, f.item, f.price)
            \/ f.do = "item-remove"   /\ PostItemRemove(u, f.item)
            \/ f.do = "active"        /\ PostAdminUserActive(u, f.who, f.on)
            \/ f.do = "can-reconcile" /\ PostAdminUserReconcile(u, f.who, f.on)
            \/ f.do = "not-in-bank"   /\ PostPaymentNotInBank(u, f.seq)
            \/ f.do = "undo-review"   /\ PostUndoPaymentReview(u, f.id)
  BY <1>12, OthersKeep
<1> QED BY <1>1, <1>2, <1>3, <1>4, <1>5, <1>6, <1>7, <1>8, <1>9, <1>10, <1>11, <1>12 DEF Handle

LEMMA PagesStepKeeps == PagesInv /\ [Next]_vars => PagesInv'
<1> SUFFICES ASSUME PagesInv, [Next]_vars PROVE PagesInv'
  OBVIOUS
<1>1. CASE NextDay
  <2>1. day' \in Int /\ set' \in Settings \cup {Defaults} /\ UNCHANGED <<entries, lines, matches>>
    BY <1>1 DEF NextDay, PagesInv, Typed, terms, recon
  <2> QED BY <2>1, StayingKeeps
<1>2. CASE Import
  BY <1>2, ImportKeeps
<1>3. CASE \E u \in Users, f \in Forms : Handle(u, f)
  BY <1>3, HandleKeeps
<1>4. CASE UNCHANGED vars
  <2>1. day' \in Int /\ set' \in Settings \cup {Defaults} /\ UNCHANGED <<entries, lines, matches>>
    BY <1>4 DEF vars, PagesInv, Typed, terms, recon
  <2> QED BY <2>1, StayingKeeps
<1> QED BY <1>1, <1>2, <1>3, <1>4 DEF Next

LEMMA PagesInvHolds == Spec => []PagesInv
<1>1. Init => PagesInv
  BY PagesInitHolds
<1>2. PagesInv /\ [Next]_vars => PagesInv'
  BY PagesStepKeeps
<1> QED BY <1>1, <1>2, PTL DEF Spec

(* The filter of a tab's page and reconciliation's own query for undecided
   payments agree, whatever was matched, recorded, undone or set aside, and from
   whichever page. *)
THEOREM FiltersAgree == Spec => []FilterAgrees
BY PagesInvHolds, AgreeByInvariant, PTL

(* What is suggested on the page is never a choice between equals, uses no line
   and no payment twice, and leaves out only what lost to a better pair. *)
THEOREM NoChoiceBetweenEquals == Spec => []SuggestionsAreFair
<1>1. PagesInv => SuggestionsAreFair
  BY FairByInvariant DEF PagesInv
<1> QED BY <1>1, PagesInvHolds, PTL
=============================================================================
