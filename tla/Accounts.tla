------------------------------ MODULE Accounts ------------------------------
(***************************************************************************)
(* The administrator's page of somebody else's account.  Its dialogs each  *)
(* have a mutation of their own, none carries a version, and the service   *)
(* serves one in steps: it looks at the account, writes it, revokes its    *)
(* refresh tokens.  Another administrator and the user act in between.     *)
(***************************************************************************)
EXTENDS Browser

CONSTANTS
  MaxCall,  \* bound: calls of the administrator in a visit
  Plans     \* bound: what visits are about, [ops, calls]: their dialogs and calls

Ops == {"name", "role", "reset", "suspend", "unsuspend", "unlock", "revoke"}
\* What the account's user does; "depose" takes the administrator's own role.
Foreign == (Ops \ {"name", "revoke"}) \union {"login", "lock", "change", "depose"}
Revoking == {"role", "reset", "suspend", "revoke", "lock", "change"}
Roles == {"admin", "guru"}
Names == {"old", "new"}
User == [name : Names, role : Roles, status : {"active", "suspended", "locked"}, must : BOOLEAN]
SomeUser == [name |-> "old", role |-> "guru", status |-> "active", must |-> FALSE]
ASSUME AccountAssumption ==
  /\ MaxCall \in Nat \ {0}
  /\ Plans \subseteq [ops : SUBSET Ops, calls : 0..MaxCall]

NewPassword == MaxCall + 1      \* whatever others set
NoRequest == [op |-> "none", at |-> "idle", arg |-> "none", pw |-> 0, user |-> SomeUser]
NoUser == [at |-> "idle", user |-> SomeUser]
NoSessions == [at |-> "idle", live |-> FALSE]

\* A teacher's account with another administrator about, or the account of the only
\* other administrator.  peer: the requester is one; third: so is somebody else.  open are
\* the flags of the dialogs, shown the password on display, sess the session list.
InitAccount ==
  /\ \E plan \in Plans :
       ui = [screen |-> "account", plan |-> plan, view |-> "pending", user |-> SomeUser, tab |-> "detail",
             open |-> {}, shown |-> 0, sess |-> "unread", old |-> FALSE]
  /\ net = [user |-> [NoUser EXCEPT !.at = "sent"], sess |-> NoSessions,
            call |-> [op \in Ops |-> NoRequest]]
  /\ \E role \in Roles, status \in {"active", "locked"} :
       srv = [user |-> [SomeUser EXCEPT !.role = role, !.status = status], pw |-> 0,
              live |-> status = "active", peer |-> TRUE, third |-> role = "guru"]
  /\ past = [events |-> 0, calls |-> 0, resets |-> 0, stale |-> FALSE, staleSess |-> FALSE, repw |-> FALSE,
             signin |-> FALSE, suspended |-> FALSE]

OnAccount == ui.screen = "account"
AccountShown == OnAccount /\ ui.view = "user"
SessionsShown == AccountShown /\ ui.tab = "sessions"
CallsAt(steps) == {op \in Ops : net.call[op].at \in steps}
CallsDone == CallsAt({"idle"}) = Ops

-----------------------------------------------------------------------------
(* The account, its tabs and its dialogs. *)

ServeUser ==
  /\ OnAccount /\ net.user.at = "sent" /\ srv.peer
  /\ net' = [net EXCEPT !.user = [at |-> "ok", user |-> srv.user]]
  /\ past' = [past EXCEPT !.stale = FALSE]
  /\ UNCHANGED <<ui, srv>>

UserArrives ==
  /\ OnAccount /\ net.user.at = "ok"
  /\ ui' = [ui EXCEPT !.user = net.user.user, !.view = "user"]
  /\ net' = [net EXCEPT !.user = NoUser]
  /\ UNCHANGED <<srv, past>>

\* The error card replaces the page and the dialogs on it, a password on display
\* included, even if the account had been loaded.
UserFails ==
  /\ OnAccount /\ net.user.at = "sent"
  /\ \/ Spend
     \/ ~srv.peer /\ UNCHANGED past
  /\ ui' = [ui EXCEPT !.view = "error", !.shown = 0]
  /\ net' = [net EXCEPT !.user = NoUser]
  /\ UNCHANGED srv

\* "Kembali ke daftar" and back: the error stays until the new answer is there.
ReopenAccount ==
  /\ OnAccount /\ ui.view = "error" /\ net.user.at = "idle"
  /\ ui' = [ui EXCEPT !.open = {}, !.tab = "detail"]
  /\ net' = [net EXCEPT !.user.at = "sent"]
  /\ UNCHANGED <<srv, past>>

\* The session list is read when its tab opens, unless what is cached is fresh.
TabBar(tab) ==
  /\ AccountShown /\ tab # ui.tab /\ ui.open = {}
  /\ ui' = [ui EXCEPT !.tab = tab]
  /\ \/ tab = "sessions" /\ net' = [net EXCEPT !.sess.at = "sent"]
     \/ /\ tab = "sessions" => ui.sess # "unread" /\ ~ui.old
        /\ UNCHANGED net
  /\ UNCHANGED <<srv, past>>

ServeSessions ==
  /\ OnAccount /\ net.sess.at = "sent" /\ srv.peer
  /\ net' = [net EXCEPT !.sess = [at |-> "ok", live |-> srv.live]]
  /\ past' = [past EXCEPT !.staleSess = FALSE]
  /\ UNCHANGED <<ui, srv>>

SessionsTab ==
  /\ OnAccount
  /\ \/ /\ net.sess.at = "ok" /\ UNCHANGED past
        /\ ui' = [ui EXCEPT !.sess = IF net.sess.live THEN "some" ELSE "none", !.old = FALSE]
     \/ /\ net.sess.at = "sent" /\ ~srv.peer /\ UNCHANGED past
        /\ ui' = [ui EXCEPT !.sess = "error"]
     \/ /\ net.sess.at = "sent" /\ Spend
        /\ ui' = [ui EXCEPT !.sess = "error"]
  /\ net' = [net EXCEPT !.sess = NoSessions]
  /\ UNCHANGED srv

\* The buttons of the header.
Offered(op) ==
  CASE op = "suspend"   -> ui.user.status = "active"
    [] op = "unsuspend" -> ui.user.status = "suspended"
    [] op = "unlock"    -> ui.user.status = "locked"
    [] OTHER            -> TRUE

OpenDialog ==
  /\ AccountShown /\ ui.open = {}
  /\ \E op \in ui.plan.ops : Offered(op) /\ ui' = [ui EXCEPT !.open = {op}, !.shown = 0]
  /\ UNCHANGED <<net, srv, past>>

\* The dialogs of name and role can be left while they save.
CloseDialog ==
  /\ AccountShown /\ ui.open # {}
  /\ \A op \in ui.open \ {"name", "role"} : net.call[op].at = "idle"
  /\ ui' = [ui EXCEPT !.open = {}]
  /\ UNCHANGED <<net, srv, past>>

Submit(op, arg) ==
  /\ AccountShown /\ op \in ui.open /\ net.call[op].at = "idle"
  /\ past.calls < ui.plan.calls /\ past' = [past EXCEPT !.calls = @ + 1]
  /\ net' = [net EXCEPT !.call[op] = [NoRequest EXCEPT !.op = op, !.at = "sent", !.arg = arg]]
  /\ UNCHANGED <<ui, srv>>
EditNameDialog == AccountShown /\ \E name \in Names \ {ui.user.name} : Submit("name", name)
ChangeRoleDialog == AccountShown /\ \E role \in Roles \ {ui.user.role} : Submit("role", role)
\* A manual password and a generated one differ in who thought of it only.
ResetPasswordDialog == Submit("reset", "none") /\ ui.shown = 0
ConfirmActionDialog == AccountShown /\ \E op \in ui.open \ {"name", "role", "reset"} : Submit(op, "none")

-----------------------------------------------------------------------------
(* The answers. *)

\* Mutant: nothing is.
UsersKept(call) == [net EXCEPT !.call = call]

\* Everything under ['admin', 'users'] is read again, what is not on screen when
\* it gets there.
UsersInvalidated(call) ==
  [net EXCEPT !.call = call, !.user = [NoUser EXCEPT !.at = "sent"],
              !.sess = IF ui.tab = "sessions" THEN [NoSessions EXCEPT !.at = "sent"] ELSE @]
\* A read that a closed tab left behind is not: it may bring the list of before.
Answer(op) ==
  /\ OnAccount /\ net.call[op].at = "ok" /\ UNCHANGED srv
  /\ past' = [past EXCEPT !.staleSess = @ \/ (net.sess.at = "ok" /\ ~SessionsShown)]
Answered(op) == [net.call EXCEPT ![op] = NoRequest]
onUserMutated(op) ==
  /\ Answer(op)
  /\ ui' = [ui EXCEPT !.user = net.call[op].user, !.view = "user",
                      !.open = @ \ {op}, !.old = TRUE]
  /\ net' = UsersInvalidated(Answered(op))
NameSaved == onUserMutated("name")
RoleChanged == onUserMutated("role")
suspendMutation == onUserMutated("suspend")
unsuspendMutation == onUserMutated("unsuspend")
unlockMutation == onUserMutated("unlock")

\* The password is shown once, if its dialog is still there.
PasswordReset ==
  /\ Answer("reset")
  /\ ui' = [ui EXCEPT !.user = net.call["reset"].user, !.view = "user", !.old = TRUE,
                      !.shown = IF ui.view = "user" THEN net.call["reset"].pw ELSE 0]
  /\ net' = UsersInvalidated(Answered("reset"))

revokeMutation ==
  /\ Answer("revoke")
  /\ ui' = [ui EXCEPT !.open = @ \ {"revoke"}, !.old = TRUE]
  /\ net' = [net EXCEPT !.call = Answered("revoke"),
                        !.sess = IF SessionsShown THEN [NoSessions EXCEPT !.at = "sent"] ELSE @]

\* A toast, and what is shown stays.
Refused ==
  /\ OnAccount
  /\ \E op \in CallsAt({"no"}) : net' = [net EXCEPT !.call = Answered(op)]
  /\ UNCHANGED <<ui, srv, past>>

-----------------------------------------------------------------------------
(* The service, for the administrator's calls and for those of others. *)

Admins == Cardinality({a \in {"peer", "third"} : srv[a]})
          + IF srv.user.role = "admin" THEN 1 ELSE 0
Allowed(c) ==
  CASE c.op = "role"      -> /\ srv.user.role # c.arg
                             /\ srv.user.role = "admin" => Admins # 1
    [] c.op = "suspend"   -> /\ srv.user.role = "admin" => Admins # 1
                             /\ srv.user.status # "suspended"
    [] c.op = "unsuspend" -> srv.user.status = "suspended"
    [] c.op = "unlock"    -> srv.user.status = "locked"
    [] c.op = "depose"    -> Admins # 1
    [] c.op \in {"login", "lock"} -> srv.user.status = "active"
    [] OTHER              -> TRUE

Row(c) ==
  CASE c.op = "name"      -> [srv.user EXCEPT !.name = c.arg]
    [] c.op = "role"      -> [srv.user EXCEPT !.role = c.arg]
    [] c.op = "reset"     -> [srv.user EXCEPT !.must = TRUE]
    [] c.op = "change"    -> [srv.user EXCEPT !.must = FALSE]
    [] c.op = "suspend"   -> [srv.user EXCEPT !.status = "suspended"]
    [] c.op = "lock"      -> [srv.user EXCEPT !.status = "locked"]
    [] c.op \in {"unsuspend", "unlock"} -> [srv.user EXCEPT !.status = "active"]
    [] OTHER              -> srv.user
Written(c, pw) ==
  [srv EXCEPT !.user = Row(c), !.peer = @ /\ c.op # "depose",
              !.pw = IF c.op \in {"reset", "change"} THEN pw ELSE @,
              !.live = @ \/ c.op = "login"]
Suspended(c) == IF c.op = "suspend" THEN TRUE ELSE past.suspended /\ c.op # "unsuspend"

\* Mutant: the tokens stay.
RevokedNone(s, c) == s

Revoked(s, c) == [s EXCEPT !.live = @ /\ c.op \notin Revoking]
Applied(c, pw) == Revoked(Written(c, pw), c)

\* RoleGuard looks at the requester, the handler at the account.
CheckCall ==
  /\ OnAccount
  /\ \E op \in CallsAt({"sent"}) :
       net' = [net EXCEPT !.call[op].at =
                 IF srv.peer /\ Allowed(net.call[op]) THEN "write" ELSE "no"]
  /\ UNCHANGED <<ui, srv, past>>
\* The row is written whatever it is by now, the tokens are revoked and the row is
\* read again for the answer.
WriteCall ==
  /\ OnAccount
  /\ \E op \in CallsAt({"write"}) :
     LET pw == past.resets + 1 IN
     /\ srv' = Applied(net.call[op], pw)
     /\ net' = [net EXCEPT !.call[op].at = "ok", !.call[op].user = Row(net.call[op]),
                           !.call[op].pw = IF op = "reset" THEN pw ELSE 0]
     /\ past' = [past EXCEPT !.suspended = Suspended(net.call[op]),
                             !.resets = IF op = "reset" THEN pw ELSE @,
                             !.repw = @ /\ op # "reset", !.signin = @ /\ op # "reset"]
  /\ UNCHANGED ui
\* The request never gets there, or its answer never comes back.
LoseCall ==
  /\ OnAccount /\ past.events < MaxEvents
  /\ \E op \in CallsAt({"sent", "ok", "no"}) : net' = [net EXCEPT !.call[op] = NoRequest]
  /\ past' = [past EXCEPT !.events = @ + 1, !.stale = TRUE, !.staleSess = TRUE]
  /\ UNCHANGED <<ui, srv>>

\* The calls of others take effect in one step between those.
OtherActs ==
  /\ OnAccount /\ past.events < MaxEvents
  /\ \E op \in Foreign : \E arg \in IF op = "role" THEN Roles ELSE {"none"} :
       LET c == [NoRequest EXCEPT !.op = op, !.arg = arg] IN
       /\ op \in Ops => srv.third
       /\ op = "depose" => srv.third \/ srv.user.role = "admin"
       /\ op = "change" => srv.live
       /\ Allowed(c) /\ srv' = Applied(c, NewPassword)
       /\ past' = [past EXCEPT !.events = @ + 1, !.stale = TRUE, !.staleSess = TRUE,
                               !.suspended = Suspended(c), !.signin = @ \/ op = "login",
                               !.repw = @ \/ op \in {"reset", "change"}]
  /\ UNCHANGED <<ui, net>>

NextAccount ==
  \/ ServeUser \/ UserArrives \/ UserFails \/ ReopenAccount
  \/ (\E tab \in {"detail", "sessions"} : TabBar(tab)) \/ ServeSessions \/ SessionsTab
  \/ EditNameDialog \/ ChangeRoleDialog \/ ResetPasswordDialog \/ ConfirmActionDialog
  \/ NameSaved \/ RoleChanged \/ suspendMutation \/ unsuspendMutation \/ unlockMutation
  \/ PasswordReset \/ revokeMutation \/ OpenDialog \/ CloseDialog \/ Refused
  \/ CheckCall \/ WriteCall \/ LoseCall \/ OtherActs

-----------------------------------------------------------------------------
(* Properties. *)

\* Page, calls and rows hold what the code's types allow, and one dialog is open.
ReadStates == {"idle", "sent", "ok"}
AccountCall == [op : Ops \union {"none"}, at : ReadStates \union {"write", "no"},
                arg : {"none"} \union Names \union Roles, pw : 0..MaxCall, user : User]
AccountScreen ==
  [screen : {"account"}, plan : Plans, view : {"pending", "user", "error"}, user : User,
   tab : {"detail", "sessions"}, open : {{}} \union {{op} : op \in Ops}, shown : 0..MaxCall,
   sess : {"unread", "some", "none", "error"}, old : BOOLEAN]
AccountCalls ==
  [user : [at : ReadStates, user : User], sess : [at : ReadStates, live : BOOLEAN],
   call : [Ops -> AccountCall]]
AccountRows ==
  [user : User, pw : 0..NewPassword, live : BOOLEAN, peer : BOOLEAN, third : BOOLEAN]
AccountPast ==
  [events : Nat, calls : Nat, resets : Nat, stale : BOOLEAN, staleSess : BOOLEAN,
   repw : BOOLEAN, signin : BOOLEAN, suspended : BOOLEAN]
AccountType ==
  ui \in AccountScreen /\ net \in AccountCalls /\ srv \in AccountRows /\ past \in AccountPast
AccountTypeOK == OnAccount => AccountType

\* With every answer in, the page shows the stored account and its sessions, if
\* nobody else wrote since they were read: whichever of its calls overlapped, no
\* answer that comes late leaves an older account on screen, and what a call
\* revokes is read again on the tab it is shown on.
AccountCatchesUp ==
  AccountShown /\ CallsDone /\ srv.peer =>
    /\ net.user.at = "idle" /\ ~past.stale => ui.user = srv.user
    /\ SessionsShown /\ net.sess.at = "idle" /\ ~past.staleSess /\ ui.sess # "error" =>
         ui.sess = IF srv.live THEN "some" ELSE "none"

\* The password on display is the one that works and no session of before is left,
\* unless another password was set or a login finished after the reset was written.
ResetTakesHold ==
  AccountShown /\ ui.shown # 0 =>
    /\ past.repw \/ srv.pw = ui.shown
    /\ past.signin \/ ~srv.live

\* "tidak akan bisa login sampai di-unsuspend": only an unsuspend makes a suspended
\* account active.
SuspendedUntilUnsuspend == OnAccount /\ past.suspended => srv.user.status # "active"

\* "cannot demote the last admin": somebody stays administrator.
LastAdminStays == OnAccount => Admins > 0

-----------------------------------------------------------------------------
(* The inductive invariant of the proofs.                                  *)

SpecAccount == InitAccount /\ [][NextAccount]_browser

\* A call under way is its dialog's, and carries a value of that dialog.
CallInv == \A op \in Ops : LET c == net.call[op] IN
  c.at # "idle" =>
    /\ c.op = op
    /\ op = "name" => c.arg \in Names
    /\ op = "role" => c.arg \in Roles

\* The passwords set so far are fewer than the calls made, by the reset under way.
CountInv ==
  /\ past.calls <= ui.plan.calls /\ past.resets <= past.calls
  /\ net.call["reset"].at \in {"sent", "write"} => past.resets < past.calls

\* The account on its way or on screen is the stored one, unless somebody else wrote or
\* the answer to a write of it is still to come.
UserInv ==
  ~past.stale /\ (\A op \in Ops : net.call[op].at = "ok" => op = "revoke") =>
    /\ net.user.at = "ok" => net.user.user = srv.user
    /\ net.user.at = "idle" /\ ui.view = "user" => ui.user = srv.user

\* A page that is being read again shows its first tab; the sessions tab has asked.
TabInv ==
  /\ ui.view # "user" /\ net.user.at # "idle" => ui.tab = "detail"
  /\ ui.tab = "sessions" /\ net.sess.at = "idle" => ui.sess # "unread"

\* So are the sessions; a list on a tab that is not shown may be marked old instead.
SessInv ==
  ~past.staleSess /\ (\A op \in Ops : net.call[op].at # "ok") =>
    /\ net.sess.at = "ok" => net.sess.live = srv.live
    /\ net.sess.at = "idle" /\ ui.sess \in {"some", "none"} /\ (SessionsShown \/ ~ui.old) =>
         ui.sess = IF srv.live THEN "some" ELSE "none"

\* The password of a reset that is answered, or on display after it, works.
Works(pw) == (past.repw \/ srv.pw = pw) /\ (past.signin \/ ~srv.live)
ResetInv ==
  /\ net.call["reset"].at = "ok" => Works(net.call["reset"].pw)
  /\ ui.shown # 0 => net.call["reset"].at = "idle" /\ Works(ui.shown)

AccountInv ==
  AccountType /\ CallInv /\ CountInv /\ UserInv /\ TabInv /\ SessInv /\ ResetInv
=============================================================================
