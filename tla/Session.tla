------------------------------ MODULE Session ------------------------------
(***************************************************************************)
(* The browser's session and the account service behind it.  One user has  *)
(* several tabs of one browser open: every tab keeps the tokens in memory  *)
(* (lib/auth.ts), all of them share one localStorage entry, and the fetch  *)
(* wrapper (lib/api.ts) answers a 401 with one token refresh and one       *)
(* retry.  The server rotates refresh tokens, takes the second use of one  *)
(* for theft, and revokes all of the user's tokens with one UPDATE, which  *)
(* sees the rows of its snapshot and none inserted since.                  *)
(***************************************************************************)
EXTENDS Naturals, FiniteSets

CONSTANTS
  Tabs,         \* the tabs of the browser
  MaxToken,     \* bound: refresh tokens the service issues
  Habits,       \* bound: what the user does, one of [opens, tokens]: the pages
                \* opened in each tab and how many tokens that may use
  FailLimit,    \* maxCumulativeFailedLogins
  MaxEvents     \* bound: reloads, network losses, failed inserts, wrong
                \* passwords, lapsed tokens, administrator's revocations

ASSUME SessionAssumption ==
  /\ IsFiniteSet(Tabs) /\ Tabs # {} /\ "nobody" \notin Tabs
  /\ Habits \subseteq [opens  : [Tabs -> SUBSET {"login", "home", "foreign", "me",
                                               "security", "devices"}],
                      tokens : 1..MaxToken]
  /\ MaxToken \in Nat \ {0}
  /\ FailLimit \in Nat \ {0}
  /\ MaxEvents \in Nat

VARIABLES
  auth,    \* [Tabs -> session]: the tab's zustand store
  stored,  \* the session in localStorage, shared by the tabs
  page,    \* [Tabs -> Pages]
  req,     \* [Tabs -> [Slots -> request]]: a page's query and its mutation
  flight,  \* [Tabs -> refresh]: refreshInFlight of the tab's module
  cache,   \* [Tabs -> Cached]: what the open page has loaded
  tok,     \* [Tokens -> {"unissued", "live", "lapsed", "revoked"}]
  family,  \* [Tokens -> the login a token descends from, 0 before issue]
  aged,    \* the tokens whose access token has expired
  acct,    \* the user row: status, must_change_password, failed_login_count
  sweep,   \* the snapshot of an administrator's revocation, {} when none runs
  rotator, \* history: the page life that rotated a token
  events,  \* how many of the bounded events have happened
  habit    \* the habit chosen

client == <<auth, stored, page, req, flight, cache>>
server == <<tok, family, aged, acct, sweep>>
history == <<rotator, events>>
vars == <<client, server, history, habit>>

Tokens == 1..MaxToken
Pages  == {"login", "home", "foreign", "me", "security", "devices"}
Slots  == {"query", "action"}
Bearer == {"load", "me", "sessions", "change", "logoutAll"}
Anon   == {"login", "logout"}
\* The session list of the device page, must_change_password of /auth/me.
Cached == {"nothing", "some", "empty", "forced", "free"}
Whitelist == {"me", "change", "logoutAll"}

Session(n, must) == [id |-> n, must |-> must]
None == Session(0, FALSE)
Idle == [op |-> "none", at |-> "idle", tok |-> 0, again |-> FALSE, snap |-> {}]
NoFlight == [at |-> "none", old |-> 0, new |-> None, snap |-> {}]

Live   == {n \in Tokens : tok[n] = "live"}
Unused == {n \in Tokens : tok[n] = "unissued" /\ n <= habit.tokens}
Revoke(snap) == [n \in Tokens |-> IF n \in snap THEN "revoked" ELSE tok[n]]
Unrevoked == {n \in Tokens : tok[n] \in {"live", "lapsed"}}

Issued == {n \in Tokens : tok[n] # "unissued"}

Sessions == [id : 0..MaxToken, must : BOOLEAN]
Request  == [op : Bearer \union Anon \union {"none"},
             at : {"idle", "sent", "issue", "sweep", "wait", "ok", "bad", "401"} \union Cached,
             tok : 0..MaxToken, again : BOOLEAN, snap : SUBSET Tokens]
RefreshCall == [at : {"none", "sent", "looked", "sweep", "ok", "no"},
                old : 0..MaxToken, new : Sessions, snap : SUBSET Tokens]
Account  == [status : {"active", "suspended", "locked"}, must : BOOLEAN, fails : Nat]

\* Tabs, tokens, calls and the account hold what the code's types allow.
SessionTypeOK ==
  /\ auth \in [Tabs -> Sessions] /\ stored \in Sessions
  /\ page \in [Tabs -> Pages]
  /\ req \in [Tabs -> [Slots -> Request]]
  /\ flight \in [Tabs -> RefreshCall]
  /\ cache \in [Tabs -> Cached]
  /\ tok \in [Tokens -> {"unissued", "live", "lapsed", "revoked"}]
  /\ family \in [Tokens -> 0..MaxToken]
  /\ aged \subseteq Tokens /\ sweep \subseteq Tokens
  /\ acct \in Account /\ acct.fails <= events
  /\ rotator \in [Tokens -> Tabs \union {"nobody"}]
  /\ events \in 0..MaxEvents /\ habit \in Habits

\* The browser may hold a session of an earlier visit, open in every tab.
Init ==
  /\ habit \in Habits
  /\ acct \in [status : {"active"}, must : BOOLEAN, fails : {0}]
  /\ \E n \in {0, 1} :
       LET s == IF n = 0 THEN None ELSE Session(1, acct.must)
           open == {t \in Tabs : habit.opens[t] # {}} IN
       /\ stored = s
       /\ auth = [t \in Tabs |-> IF t \in open THEN s ELSE None]
       /\ page = [t \in Tabs |-> IF n = 1 /\ t \in open THEN "home" ELSE "login"]
       /\ tok = [m \in Tokens |-> IF m = n THEN "live" ELSE "unissued"]
       /\ family = [m \in Tokens |-> IF m = n THEN 1 ELSE 0]
  /\ req = [t \in Tabs |-> [s \in Slots |-> Idle]]
  /\ flight = [t \in Tabs |-> NoFlight]
  /\ cache = [t \in Tabs |-> "nothing"]
  /\ aged = {} /\ sweep = {}
  /\ rotator = [n \in Tokens |-> "nobody"]
  /\ events = 0

-----------------------------------------------------------------------------
(* The route guards. *)

\* AuthGuard: what a tab is shown, and where the effect sends it instead.
Shown(t) ==
  /\ auth[t].id # 0
  /\ auth[t].must => page[t] = "security"
  /\ page[t] \notin {"login", "foreign"}

AuthGuardRedirect(t) ==
  /\ page[t] # "login"
  /\ \/ auth[t].id = 0 /\ page' = [page EXCEPT ![t] = "login"]
     \/ /\ auth[t].id # 0 /\ auth[t].must /\ page[t] # "security"
        /\ page' = [page EXCEPT ![t] = "security"]
  /\ UNCHANGED <<auth, stored, req, flight, cache, server, history, habit>>

\* RoleGuard: another role's area leads to the user's own landing page.
RoleGuardRedirect(t) ==
  /\ page[t] = "foreign" /\ auth[t].id # 0 /\ ~auth[t].must
  /\ page' = [page EXCEPT ![t] = "home"]
  /\ UNCHANGED <<auth, stored, req, flight, cache, server, history, habit>>

Navigate(t) ==
  /\ Shown(t)
  /\ \E p \in habit.opens[t] \ {"login", page[t]} : page' = [page EXCEPT ![t] = p]
  /\ cache' = [cache EXCEPT ![t] = "nothing"]
  /\ UNCHANGED <<auth, stored, req, flight, server, history, habit>>

Event == events < MaxEvents /\ events' = events + 1

\* The module state of a tab ends with its page: requests, the query cache and
\* the refresh in flight are gone, the store rehydrates from localStorage.
Reload(t) ==
  /\ habit.opens[t] # {} /\ Event
  /\ auth' = [auth EXCEPT ![t] = stored]
  /\ req' = [req EXCEPT ![t] = [s \in Slots |-> Idle]]
  /\ flight' = [flight EXCEPT ![t] = NoFlight]
  /\ cache' = [cache EXCEPT ![t] = "nothing"]
  /\ rotator' = [n \in Tokens |-> IF rotator[n] = t THEN "nobody" ELSE rotator[n]]
  /\ UNCHANGED <<stored, page, server, habit>>

-----------------------------------------------------------------------------
(* Sending a request; the controls that send one. *)

Send(t, s, op) ==
  /\ req[t][s].at = "idle"
  /\ req' = [req EXCEPT ![t][s] = [Idle EXCEPT !.op = op, !.at = "sent",
                                               !.tok = auth[t].id]]
  /\ UNCHANGED <<auth, stored, page, flight, cache, server, history, habit>>

LoginForm(t) == page[t] = "login" /\ "login" \in habit.opens[t]
LoginSubmit(t) == LoginForm(t) /\ Send(t, "action", "login")

Loads(p) == CASE p = "me" -> "me" [] p = "devices" -> "sessions" [] OTHER -> "load"

QueryPage(t) ==
  /\ Shown(t) /\ page[t] # "security" /\ cache[t] = "nothing"
  /\ Send(t, "query", Loads(page[t]))

SecurityForm(t) == Shown(t) /\ page[t] = "security"
SecuritySubmit(t) == SecurityForm(t) /\ Send(t, "action", "change")

\* The button of the device list needs the list loaded and not empty.
DeviceList(t) == Shown(t) /\ page[t] = "devices" /\ cache[t] = "some"
LogoutAllClick(t) == DeviceList(t) /\ Send(t, "action", "logoutAll")

\* The layout's menu item has no guard; the account page's button has one, by
\* /auth/me once it is loaded, by the store until then.
HomeMenu(t) == Shown(t) /\ page[t] = "home"
MenuLogout(t) == HomeMenu(t) /\ Send(t, "action", "logout")

AccountPage(t) ==
  /\ Shown(t) /\ page[t] = "me"
  /\ cache[t] # "forced" /\ (cache[t] = "nothing" => ~auth[t].must)
MeLogout(t) == AccountPage(t) /\ Send(t, "action", "logout")

-----------------------------------------------------------------------------
(* The service. *)

Put(t, s, r) == req' = [req EXCEPT ![t][s] = r]
At(t, s, op, at) == req[t][s].op = op /\ req[t][s].at = at

\* VerifyAccessToken reads the user's row on every request: a token that is
\* not expired is worth nothing once the account is not active.
Accepted(n) == n # 0 /\ n \notin aged /\ acct.status = "active"

\* A token that expires is known to by the first request that presents it.
Refuse401(t, s) ==
  /\ req[t][s].at = "sent" /\ req[t][s].op \in Bearer
  /\ \/ ~Accepted(req[t][s].tok) /\ UNCHANGED aged
     \/ Accepted(req[t][s].tok) /\ aged' = aged \union {req[t][s].tok}
  /\ Put(t, s, [req[t][s] EXCEPT !.at = "401"])
  /\ UNCHANGED <<auth, stored, page, flight, cache, tok, family, acct,
                 sweep, history, habit>>

\* ForceChangePassword lets an account that must change its password reach
\* four endpoints only: the query ends with an error.
Refuse403(t) ==
  LET r == req[t]["query"] IN
  /\ r.at = "sent" /\ Accepted(r.tok) /\ acct.must /\ r.op \notin Whitelist
  /\ Put(t, "query", Idle)
  /\ UNCHANGED <<auth, stored, page, flight, cache, server, history, habit>>

ServeRead(t) ==
  LET r == req[t]["query"] IN
  /\ r.at = "sent" /\ Accepted(r.tok) /\ (acct.must => r.op \in Whitelist)
  /\ Put(t, "query",
         CASE r.op = "me"       -> [r EXCEPT !.at = IF acct.must THEN "forced" ELSE "free"]
           [] r.op = "sessions" -> [r EXCEPT !.at = IF Live = {} THEN "empty" ELSE "some"]
           [] r.op = "load"     -> Idle)
  /\ UNCHANGED <<auth, stored, page, flight, cache, server, history, habit>>

\* ChangePassword: the new hash first, then the revocation of every token.
ServeChange(t) ==
  LET r == req[t]["action"] IN
  /\ At(t, "action", "change", "sent") /\ Accepted(r.tok)
  /\ \/ Put(t, "action", [r EXCEPT !.at = "bad"]) /\ UNCHANGED acct
     \/ /\ acct' = [acct EXCEPT !.must = FALSE]
        /\ Put(t, "action", [r EXCEPT !.at = "sweep", !.snap = Unrevoked])
  /\ UNCHANGED <<auth, stored, page, flight, cache, tok, family, aged,
                 sweep, history, habit>>

ServeLogoutAll(t) ==
  LET r == req[t]["action"] IN
  /\ At(t, "action", "logoutAll", "sent") /\ Accepted(r.tok)
  /\ Put(t, "action", [r EXCEPT !.at = "sweep", !.snap = Unrevoked])
  /\ UNCHANGED <<auth, stored, page, flight, cache, server, history, habit>>

\* RevokeAllRefreshByUser: the UPDATE revokes the rows of its snapshot.
SweepRequest(t) ==
  LET r == req[t]["action"] IN
  /\ r.at = "sweep"
  /\ tok' = Revoke(r.snap)
  /\ Put(t, "action", [r EXCEPT !.at = "ok", !.snap = {}])
  /\ UNCHANGED <<auth, stored, page, flight, cache, family, aged, acct,
                 sweep, history, habit>>

\* Logout revokes the one token it is given, and answers 204 whatever it was.
ServeLogout(t) ==
  LET r == req[t]["action"] IN
  /\ At(t, "action", "logout", "sent")
  /\ tok' = Revoke({r.tok} \intersect Unrevoked)
  /\ Put(t, "action", [r EXCEPT !.at = "ok"])
  /\ UNCHANGED <<auth, stored, page, flight, cache, family, aged, acct,
                 sweep, history, habit>>

Counted(fails) == fails + 1

\* Login reads the row; a wrong password counts, the FailLimit-th and any later
\* one locks the account and revokes its tokens in one transaction.
LoginCheck(t) ==
  LET r == req[t]["action"] IN
  /\ At(t, "action", "login", "sent")
  /\ \/ /\ acct.status # "active"
        /\ Put(t, "action", [r EXCEPT !.at = "bad"])
        /\ UNCHANGED <<acct, tok, events>>
     \/ /\ acct.status = "active" /\ Event
        /\ LET last == Counted(acct.fails) >= FailLimit IN
           /\ acct' = [acct EXCEPT !.fails = Counted(@),
                                   !.status = IF last THEN "locked" ELSE @]
           /\ tok' = IF last THEN Revoke(Unrevoked) ELSE tok
        /\ Put(t, "action", [r EXCEPT !.at = "bad"])
     \/ /\ acct.status = "active"
        /\ acct' = [acct EXCEPT !.fails = 0]
        /\ Put(t, "action", [r EXCEPT !.at = "issue", !.again = acct.must])
        /\ UNCHANGED <<tok, events>>
  /\ UNCHANGED <<auth, stored, page, flight, cache, family, aged, sweep,
                 rotator, habit>>

\* IssueRefresh: a row of its own, some statements after the status was read;
\* the insert may fail.
LoginIssue(t) ==
  LET r == req[t]["action"] IN
  /\ r.at = "issue"
  /\ \/ /\ IF Unused = {} THEN UNCHANGED events ELSE Event
        /\ Put(t, "action", [r EXCEPT !.at = "bad"])
        /\ UNCHANGED <<tok, family>>
     \/ \E n \in Unused :
          /\ UNCHANGED events
          /\ \A m \in Unused : n <= m
          /\ tok' = [tok EXCEPT ![n] = "live"]
          /\ family' = [family EXCEPT ![n] = n]
          /\ Put(t, "action", [r EXCEPT !.at = "ok", !.tok = n])
  /\ UNCHANGED <<auth, stored, page, flight, cache, aged, acct, sweep, rotator, habit>>

\* Refresh looks the token up: a revoked one revokes them all, an expired one
\* and an account that is not active are refused.
RefreshLook(t) ==
  LET f == flight[t] IN
  /\ f.at = "sent"
  /\ \/ /\ tok[f.old] = "revoked"
        /\ flight' = [flight EXCEPT ![t].at = "sweep", ![t].snap = Unrevoked]
        /\ UNCHANGED <<tok, events>>
     \/ /\ tok[f.old] \in {"live", "lapsed"}
        /\ IF tok[f.old] = "live" THEN Event ELSE UNCHANGED events
        /\ tok' = [tok EXCEPT ![f.old] = "lapsed"]
        /\ flight' = [flight EXCEPT ![t].at = "no"]
     \/ /\ tok[f.old] = "live" /\ UNCHANGED <<tok, events>>
        /\ flight' = IF acct.status = "active"
                     THEN [flight EXCEPT ![t].at = "looked", ![t].new = Session(0, acct.must)]
                     ELSE [flight EXCEPT ![t].at = "no"]
  /\ UNCHANGED <<auth, stored, page, req, cache, family, aged, acct,
                 sweep, rotator, habit>>

\* WHERE jti = ? AND revoked_at IS NULL.
RotatableAlways(n) == n \in Tokens
Rotatable(n) == tok[n] # "revoked"

\* RotateRefresh: the old token is revoked only if it still is not, and its
\* replacement inserted in the same transaction: a token revoked meanwhile, and
\* an insert that fails, are an error that leaves the rows as they were.
RefreshRotate(t) ==
  LET f == flight[t] IN
  /\ f.at = "looked"
  /\ \/ /\ IF ~Rotatable(f.old) \/ Unused = {} THEN UNCHANGED events ELSE Event
        /\ flight' = [flight EXCEPT ![t].at = "no"]
        /\ UNCHANGED <<tok, family, rotator>>
     \/ /\ UNCHANGED events
        /\ Rotatable(f.old)
        /\ \E n \in Unused :
             /\ \A m \in Unused : n <= m
             /\ tok' = [tok EXCEPT ![f.old] = "revoked", ![n] = "live"]
             /\ family' = [family EXCEPT ![n] = family[f.old]]
             /\ flight' = [flight EXCEPT ![t].at = "ok", ![t].new.id = n]
        /\ rotator' = [rotator EXCEPT ![f.old] = t]
  /\ UNCHANGED <<auth, stored, page, req, cache, aged, acct, sweep, habit>>

RefreshSweep(t) ==
  /\ flight[t].at = "sweep"
  /\ tok' = Revoke(flight[t].snap)
  /\ flight' = [flight EXCEPT ![t].at = "no", ![t].snap = {}]
  /\ UNCHANGED <<auth, stored, page, req, cache, family, aged, acct,
                 sweep, history, habit>>

-----------------------------------------------------------------------------
(* The answers, in the tab. *)

\* The third leg of apiInner: a 401 of a bearer request waits for the tab's
\* refresh, started here unless one is in flight; a second 401, and a store
\* without a refresh token, leave the caller with its error.
Arrive401(t, s) ==
  LET r == req[t][s]
      joins == flight[t].at # "none"
      starts == ~joins /\ auth[t].id # 0 IN
  /\ r.at = "401"
  /\ IF ~r.again /\ (joins \/ starts)
     THEN /\ Put(t, s, [r EXCEPT !.at = "wait"])
          /\ flight' = IF joins THEN flight
                       ELSE [flight EXCEPT ![t] = [NoFlight EXCEPT !.at = "sent",
                                                                   !.old = auth[t].id]]
     ELSE Put(t, s, Idle) /\ UNCHANGED flight
  /\ UNCHANGED <<auth, stored, page, cache, server, history, habit>>

\* The store of the tab and, through persist, the entry the tabs share.
PersistOnly(t, s) == stored' = s /\ UNCHANGED auth
SetSession(t, s) == auth' = [auth EXCEPT ![t] = s] /\ stored' = s

\* One retry, with the token the store holds by now, for every request that
\* awaits the promise.
RetriedFirst(t, id) ==
  [req[t] EXCEPT !["query"] =
     IF @.at = "wait" THEN [@ EXCEPT !.at = "sent", !.again = TRUE, !.tok = id] ELSE @]
Retried(t, id) ==
  [s \in Slots |->
     IF req[t][s].at = "wait"
     THEN [req[t][s] EXCEPT !.at = "sent", !.again = TRUE, !.tok = id] ELSE req[t][s]]

RefreshDone(t) ==
  /\ flight[t].at = "ok"
  /\ SetSession(t, flight[t].new)
  /\ req' = [req EXCEPT ![t] = Retried(t, flight[t].new.id)]
  /\ flight' = [flight EXCEPT ![t] = NoFlight]
  /\ UNCHANGED <<page, cache, server, history, habit>>

\* clear(), and a hard redirect unless the tab is at /login already.
RefreshFailed(t) ==
  /\ flight[t].at = "no"
  /\ SetSession(t, None)
  /\ page' = [page EXCEPT ![t] = "login"]
  /\ flight' = [flight EXCEPT ![t] = NoFlight]
  /\ IF page[t] = "login"
     THEN /\ req' = [req EXCEPT ![t] = [s \in Slots |->
                       IF req[t][s].at = "wait" THEN Idle ELSE req[t][s]]]
          /\ UNCHANGED <<cache, rotator>>
     ELSE /\ req' = [req EXCEPT ![t] = [s \in Slots |-> Idle]]
          /\ cache' = [cache EXCEPT ![t] = "nothing"]
          /\ rotator' = [n \in Tokens |-> IF rotator[n] = t THEN "nobody" ELSE rotator[n]]
  /\ UNCHANGED <<server, events, habit>>

SignIn(t, session) ==
  /\ SetSession(t, session)
  /\ page' = [page EXCEPT ![t] = IF session.id = 0 THEN "login"
                                 ELSE IF session.must THEN "security" ELSE "home"]

LoginAnswered(t) ==
  LET r == req[t]["action"] IN
  /\ r.op = "login" /\ r.at \in {"ok", "bad"}
  /\ Put(t, "action", Idle)
  /\ IF r.at = "ok" THEN SignIn(t, Session(r.tok, r.again))
                    ELSE UNCHANGED <<auth, stored, page>>
  /\ UNCHANGED <<flight, cache, server, history, habit>>

\* A logout clears whatever the answer was; a password change and logout-all
\* only when they succeeded.
SignOut(t, op, anyway) ==
  LET r == req[t]["action"] IN
  /\ r.op = op /\ r.at \in {"ok", "bad"}
  /\ Put(t, "action", Idle)
  /\ IF anyway \/ r.at = "ok" THEN SignIn(t, None) ELSE UNCHANGED <<auth, stored, page>>
  /\ UNCHANGED <<flight, cache, server, history, habit>>
ChangeAnswered(t) == SignOut(t, "change", FALSE)
LogoutAllAnswered(t) == SignOut(t, "logoutAll", FALSE)
LogoutAnswered(t) == SignOut(t, "logout", TRUE)

QueryAnswered(t) ==
  LET r == req[t]["query"] IN
  /\ r.at \in Cached
  /\ Put(t, "query", Idle)
  /\ cache' = IF Loads(page[t]) = r.op
              THEN [cache EXCEPT ![t] = r.at] ELSE cache
  /\ UNCHANGED <<auth, stored, page, flight, server, history, habit>>

-----------------------------------------------------------------------------
(* The network and the administrator. *)

\* The request or its answer never arrives: the caller gets a network error,
\* which a logout ignores.
Lose(t, s) ==
  /\ req[t][s].at \in Cached \union {"sent", "ok", "bad", "401"}
  /\ Event
  /\ Put(t, s, Idle)
  /\ IF req[t][s].op = "logout" THEN SignIn(t, None) ELSE UNCHANGED <<auth, stored, page>>
  /\ UNCHANGED <<flight, cache, server, rotator, habit>>

\* performRefresh takes a network error for a refusal.
LoseRefresh(t) ==
  /\ flight[t].at \in {"sent", "ok"}
  /\ Event
  /\ flight' = [flight EXCEPT ![t].at = "no"]
  /\ UNCHANGED <<auth, stored, page, req, cache, server, rotator, habit>>

\* Suspend, reset and "end the sessions": the row first, then the revocation.
Suspend ==
  /\ Event
  /\ acct.status # "suspended" /\ sweep = {}
  /\ acct' = [acct EXCEPT !.status = "suspended"]
  /\ sweep' = Unrevoked
  /\ UNCHANGED <<client, tok, family, aged, rotator, habit>>

ResetPassword ==
  /\ Event
  /\ sweep = {}
  /\ acct' = [acct EXCEPT !.must = TRUE]
  /\ sweep' = Unrevoked
  /\ UNCHANGED <<client, tok, family, aged, rotator, habit>>

RevokeSessions ==
  /\ Event
  /\ sweep = {} /\ Unrevoked # {}
  /\ sweep' = Unrevoked
  /\ UNCHANGED <<client, tok, family, aged, acct, rotator, habit>>

SweepAdmin ==
  /\ sweep # {}
  /\ tok' = Revoke(sweep)
  /\ sweep' = {}
  /\ UNCHANGED <<client, family, aged, acct, history, habit>>

\* Unsuspend and unlock.
Reactivate ==
  /\ acct.status # "active" /\ sweep = {}
  /\ acct' = [acct EXCEPT !.status = "active",
                          !.fails = IF acct.status = "locked" THEN 0 ELSE @]
  /\ UNCHANGED <<client, tok, family, aged, sweep, history, habit>>

-----------------------------------------------------------------------------
Guards(t) == AuthGuardRedirect(t) \/ RoleGuardRedirect(t)

Controls(t) ==
  \/ Navigate(t) \/ Reload(t) \/ LoginSubmit(t) \/ QueryPage(t)
  \/ SecuritySubmit(t) \/ LogoutAllClick(t) \/ MenuLogout(t) \/ MeLogout(t)

Query(t) ==
  \/ Refuse401(t, "query") \/ Refuse403(t) \/ ServeRead(t)
  \/ Arrive401(t, "query") \/ QueryAnswered(t)

Mutation(t) ==
  \/ Refuse401(t, "action") \/ ServeChange(t) \/ ServeLogoutAll(t)
  \/ SweepRequest(t) \/ ServeLogout(t)
  \/ LoginCheck(t) \/ LoginIssue(t)
  \/ Arrive401(t, "action") \/ LoginAnswered(t)
  \/ ChangeAnswered(t) \/ LogoutAllAnswered(t) \/ LogoutAnswered(t)

Refresh(t) ==
  \/ RefreshLook(t) \/ RefreshRotate(t) \/ RefreshSweep(t)
  \/ RefreshDone(t) \/ RefreshFailed(t)

Network(t) == LoseRefresh(t) \/ \E s \in Slots : Lose(t, s)

Admin == Suspend \/ ResetPassword \/ RevokeSessions \/ SweepAdmin \/ Reactivate

Next ==
  \/ \E t \in Tabs : \/ Guards(t) \/ Controls(t) \/ Query(t) \/ Mutation(t)
                     \/ Refresh(t) \/ Network(t)
  \/ Admin

Spec == Init /\ [][Next]_vars

-----------------------------------------------------------------------------
(* Properties. *)

\* Of the tokens that descend from one login at most one is live: two refreshes
\* of one token, from two tabs or around a revocation, never both get a
\* successor (the condition revoked_at IS NULL of RotateRefresh's UPDATE).
OneLiveTokenPerLogin ==
  \A m, n \in Live : family[m] = family[n] => m = n

\* A tab never presents a refresh token that it has itself rotated since it was
\* loaded, so the theft alarm of the service is never its own doing: the
\* refresh in flight is shared by its requests and the new token stored before
\* the next one starts (refreshInFlight of lib/api.ts).
NoSelfReuse ==
  \A t \in Tabs : flight[t].at = "sent" => rotator[flight[t].old] # t

\* A request that waits for the tab's refresh has one to wait for: whichever way
\* the refresh ends it is retried or gets its error, so no page hangs on a
\* session that ended meanwhile.
WaitersHaveRefresh ==
  \A t \in Tabs, s \in Slots : req[t][s].at = "wait" => flight[t].at # "none"

-----------------------------------------------------------------------------
(* The invariant of the proofs. *)

\* A query is one of the pages' reads.
QueryInv ==
  \A t \in Tabs : req[t]["query"].at # "idle" => req[t]["query"].op \in {"load", "me", "sessions"}

\* The token of a login that has been answered and not yet arrived.
LoginPending(t) == At(t, "action", "login", "ok")

\* Whoever holds a token, or is about to revoke one, holds one that was issued.
TabHolds(t) ==
  /\ auth[t].id \in Issued \union {0}
  /\ req[t]["action"].snap \subseteq Issued
  /\ flight[t].snap \subseteq Issued
  /\ flight[t].at # "none" => flight[t].old \in Issued
  /\ flight[t].at = "ok" => flight[t].new.id \in Issued
  /\ LoginPending(t) => req[t]["action"].tok \in Issued
  /\ ~At(t, "action", "login", "sweep")

HeldInv ==
  /\ stored.id \in Issued \union {0} /\ sweep \subseteq Issued
  /\ \A t \in Tabs : TabHolds(t)

\* A login and its rotations are one family, of which one token is not revoked.
FamilyInv ==
  /\ \A n \in Issued : family[n] \in Issued
  /\ \A m, n \in Unrevoked : family[m] = family[n] => m = n

\* What a tab holds, or is about to hold when its login or its refresh is answered,
\* it has not rotated; a login's token is none the tab knows already.
TabIsFresh(t) ==
  /\ flight[t].at = "none" /\ auth[t].id # 0 => rotator[auth[t].id] # t
  /\ flight[t].at = "sent" => rotator[flight[t].old] # t
  /\ flight[t].at = "ok" => rotator[flight[t].new.id] # t
  /\ LoginPending(t) =>
       /\ rotator[req[t]["action"].tok] # t
       /\ req[t]["action"].tok # auth[t].id
       /\ flight[t].at # "none" => req[t]["action"].tok # flight[t].old
       /\ flight[t].at = "ok" => req[t]["action"].tok # flight[t].new.id

ReuseInv ==
  /\ \A n \in Tokens \ Issued : rotator[n] = "nobody"
  /\ \A t \in Tabs : TabIsFresh(t)

SessionInv ==
  SessionTypeOK /\ QueryInv /\ HeldInv /\ FamilyInv /\ WaitersHaveRefresh /\ ReuseInv
=============================================================================
