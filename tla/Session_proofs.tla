--------------------------- MODULE Session_proofs ---------------------------
(* Proofs about Session for every number of tabs and tokens, every habit of *)
(* the user and every bound on what goes wrong.                             *)
EXTENDS Session, TLAPS

-----------------------------------------------------------------------------
(* Types. *)

\* The values a tab starts over with are of their types.
LEMMA Blanks == Idle \in Request /\ NoFlight \in RefreshCall /\ None \in Sessions
<1>1. 0 \in 0..MaxToken
  BY SessionAssumption
<1> QED BY <1>1 DEF Idle, Request, NoFlight, RefreshCall, None, Session, Sessions,
                    Bearer, Anon, Cached

\* Tokens are among the numbers a session can hold, of which 0 is none.
LEMMA TokenIds == Tokens \subseteq 0..MaxToken /\ 0 \notin Tokens
BY SessionAssumption DEF Tokens

\* Put writes one slot of one tab.
LEMMA PutType ==
  ASSUME SessionTypeOK, NEW t \in Tabs, NEW s \in Slots, NEW r \in Request, Put(t, s, r)
  PROVE  req' \in [Tabs -> [Slots -> Request]]
BY DEF SessionTypeOK, Put

\* The refresh a 401 starts is one.
LEMMA StartedRefresh ==
  ASSUME SessionTypeOK, NEW t \in Tabs
  PROVE  [NoFlight EXCEPT !.at = "sent", !.old = auth[t].id] \in RefreshCall
<1>1. auth[t].id \in 0..MaxToken
  BY DEF SessionTypeOK, Sessions
<1>2. \A f \in RefreshCall : [f EXCEPT !.at = "sent", !.old = auth[t].id] \in RefreshCall
  BY <1>1 DEF RefreshCall
<1> QED BY <1>2, Blanks

\* A step of a guard, a control or the browser's reload keeps the types.
LEMMA ControlsType ==
  ASSUME SessionTypeOK, QueryInv, NEW t \in Tabs, Guards(t) \/ Controls(t)
  PROVE  SessionTypeOK' /\ QueryInv'
<1> USE Blanks DEF SessionTypeOK
<1>1. CASE Guards(t)
  BY <1>1 DEF Guards, AuthGuardRedirect, RoleGuardRedirect, server, history, QueryInv, Pages
<1>2. CASE Navigate(t)
  <2>1. \A p \in habit.opens[t] : p \in Pages
    BY SessionAssumption DEF Pages
  <2> QED BY <1>2, <2>1 DEF Navigate, server, history, QueryInv, Cached
<1>3. CASE Reload(t)
  <2>1. events' \in 0..MaxEvents /\ events <= events'
    BY <1>3, SessionAssumption DEF Reload, Event
  <2>2. acct'.fails <= events'
    BY <1>3, <2>1 DEF Reload, server, Account
  <2>3. req' \in [Tabs -> [Slots -> Request]] /\ rotator' \in [Tokens -> Tabs \union {"nobody"}]
    BY <1>3 DEF Reload
  <2>4. QueryInv'
    BY <1>3 DEF Reload, QueryInv, Idle, Slots
  <2> QED BY <1>3, <2>1, <2>2, <2>3, <2>4 DEF Reload, server, Cached
<1>4. ASSUME NEW s \in Slots, NEW op \in Bearer \union Anon, Send(t, s, op),
             s = "query" => op \in {"load", "me", "sessions"}
      PROVE  SessionTypeOK' /\ QueryInv'
  <2>1. [Idle EXCEPT !.op = op, !.at = "sent", !.tok = auth[t].id] \in Request
    BY DEF Idle, Request, Sessions, Cached
  <2>2. req' \in [Tabs -> [Slots -> Request]]
    BY <1>4, <2>1 DEF Send
  <2>3. QueryInv'
    BY <1>4, <2>1 DEF Send, QueryInv, Slots, Idle, Request
  <2> QED BY <1>4, <2>2, <2>3 DEF Send, server, history
<1>5. CASE QueryPage(t)
  BY <1>4, <1>5 DEF QueryPage, Loads, Slots, Bearer
<1>6. CASE LoginSubmit(t) \/ SecuritySubmit(t) \/ LogoutAllClick(t) \/ MenuLogout(t) \/ MeLogout(t)
  BY <1>4, <1>6 DEF LoginSubmit, SecuritySubmit, LogoutAllClick, MenuLogout, MeLogout,
                    Slots, Bearer, Anon
<1> QED BY <1>1, <1>2, <1>3, <1>5, <1>6 DEF Controls

\* An event is counted, and the wrong passwords stay fewer than the events.
LEMMA EventCounts ==
  ASSUME SessionTypeOK, Event
  PROVE  events' \in 0..MaxEvents /\ events' = events + 1 /\ acct.fails <= events'
BY SessionAssumption DEF SessionTypeOK, Event, Account

\* So does a step of a page's query.
LEMMA QueryType ==
  ASSUME SessionTypeOK, QueryInv, NEW t \in Tabs, Query(t)
  PROVE  SessionTypeOK' /\ QueryInv'
<1> USE Blanks DEF SessionTypeOK
<1> DEFINE r == req[t]["query"]
<1>1. r \in Request /\ "query" \in Slots
  BY DEF Slots
<1>2. ASSUME NEW x \in Request, Put(t, "query", x),
             x.at # "idle" => x.op \in {"load", "me", "sessions"}
      PROVE  req' \in [Tabs -> [Slots -> Request]] /\ QueryInv'
  BY <1>1, <1>2 DEF Put, QueryInv
<1>3. CASE Refuse401(t, "query")
  <2>1. aged' \subseteq Tokens
    BY <1>1, <1>3 DEF Refuse401, Accepted, Request, Tokens
  <2>2. [r EXCEPT !.at = "401"] \in Request
    BY <1>1 DEF Request
  <2>3. r.op \in {"load", "me", "sessions"}
    BY <1>3 DEF Refuse401, QueryInv
  <2>4. req' \in [Tabs -> [Slots -> Request]] /\ QueryInv'
    BY <1>1, <1>2, <1>3, <2>2, <2>3 DEF Refuse401, Request
  <2> QED BY <1>3, <2>1, <2>4 DEF Refuse401, history
<1>4. CASE Refuse403(t)
  BY <1>2, <1>4 DEF Refuse403, server, history, Idle
<1>5. CASE ServeRead(t)
  <2>1. r.op \in {"load", "me", "sessions"}
    BY <1>5 DEF ServeRead, QueryInv
  <2>2. \A c \in Cached : [r EXCEPT !.at = c] \in Request /\ [r EXCEPT !.at = c].op = r.op
    BY <1>1 DEF Request
  <2>3. req' \in [Tabs -> [Slots -> Request]] /\ QueryInv'
    <3>1. CASE r.op = "me"
      BY <1>2, <1>5, <2>1, <2>2, <3>1 DEF ServeRead, Cached
    <3>2. CASE r.op = "sessions"
      BY <1>2, <1>5, <2>1, <2>2, <3>2 DEF ServeRead, Cached
    <3>3. CASE r.op = "load"
      BY <1>2, <1>5, <3>3 DEF ServeRead, Idle
    <3> QED BY <2>1, <3>1, <3>2, <3>3
  <2> QED BY <1>5, <2>3 DEF ServeRead, server, history
<1>6. CASE Arrive401(t, "query")
  <2>1. [r EXCEPT !.at = "wait"] \in Request /\ [r EXCEPT !.at = "wait"].op = r.op
    BY <1>1 DEF Request
  <2>2. r.op \in {"load", "me", "sessions"}
    BY <1>6 DEF Arrive401, QueryInv
  <2>3. req' \in [Tabs -> [Slots -> Request]] /\ QueryInv'
    BY <1>2, <1>6, <2>1, <2>2 DEF Arrive401, Idle
  <2>4. flight' \in [Tabs -> RefreshCall]
    BY <1>6, StartedRefresh DEF Arrive401
  <2> QED BY <1>6, <2>3, <2>4 DEF Arrive401, server, history
<1>7. CASE QueryAnswered(t)
  BY <1>2, <1>7 DEF QueryAnswered, server, history, Idle
<1> QED BY <1>3, <1>4, <1>5, <1>6, <1>7 DEF Query

\* The other slot's answer does not touch the query.
LEMMA ActionPut ==
  ASSUME SessionTypeOK, QueryInv, NEW t \in Tabs, NEW x \in Request, Put(t, "action", x)
  PROVE  req' \in [Tabs -> [Slots -> Request]] /\ QueryInv'
BY DEF SessionTypeOK, QueryInv, Put, Slots

\* A session stored by a sign-in or a sign-out is one.
LEMMA SignInType ==
  ASSUME SessionTypeOK, NEW t \in Tabs, NEW s \in Sessions, SignIn(t, s)
  PROVE  auth' \in [Tabs -> Sessions] /\ stored' \in Sessions /\ page' \in [Tabs -> Pages]
BY DEF SessionTypeOK, SignIn, SetSession, Pages

\* So does a step of a mutation.
LEMMA MutationType ==
  ASSUME SessionTypeOK, QueryInv, NEW t \in Tabs, Mutation(t)
  PROVE  SessionTypeOK' /\ QueryInv'
<1> USE Blanks DEF SessionTypeOK
<1> DEFINE r == req[t]["action"]
<1>1. r \in Request /\ "action" \in Slots
  BY DEF Slots
<1>2. ASSUME NEW a \in {"idle", "sent", "issue", "sweep", "wait", "ok", "bad", "401"}
      PROVE  /\ [r EXCEPT !.at = a] \in Request
             /\ \A u \in SUBSET Tokens : [r EXCEPT !.at = a, !.snap = u] \in Request
             /\ \A n \in Tokens : [r EXCEPT !.at = a, !.tok = n] \in Request
             /\ \A b \in BOOLEAN : [r EXCEPT !.at = a, !.again = b] \in Request
  <2>1. [r EXCEPT !.at = a] \in Request
    BY <1>1 DEF Request
  <2>2. \A u \in SUBSET Tokens : [r EXCEPT !.at = a, !.snap = u] \in Request
    BY <1>1 DEF Request
  <2>3. \A n \in Tokens : [r EXCEPT !.at = a, !.tok = n] \in Request
    BY <1>1, TokenIds DEF Request
  <2>4. \A b \in BOOLEAN : [r EXCEPT !.at = a, !.again = b] \in Request
    BY <1>1 DEF Request
  <2> QED BY <2>1, <2>2, <2>3, <2>4
<1>3. \A u \in SUBSET Tokens : Revoke(u) \in [Tokens -> {"unissued", "live", "lapsed", "revoked"}]
  BY DEF Revoke
<1>4. Unrevoked \in SUBSET Tokens
  BY DEF Unrevoked
<1>5. CASE Refuse401(t, "action")
  <2>1. aged' \subseteq Tokens
    BY <1>1, <1>5 DEF Refuse401, Accepted, Request, Tokens
  <2>2. req' \in [Tabs -> [Slots -> Request]] /\ QueryInv'
    BY <1>2, <1>4, <1>5, ActionPut DEF Refuse401
  <2> QED BY <1>5, <2>1, <2>2 DEF Refuse401, history
<1>6. CASE ServeChange(t)
  <2>1. req' \in [Tabs -> [Slots -> Request]] /\ QueryInv'
    BY <1>2, <1>4, <1>6, ActionPut DEF ServeChange
  <2>2. acct' \in Account /\ acct'.fails = acct.fails
    BY <1>6 DEF ServeChange, Account
  <2> QED BY <1>6, <2>1, <2>2 DEF ServeChange, history
<1>7. CASE ServeLogoutAll(t)
  BY <1>2, <1>4, <1>7, ActionPut DEF ServeLogoutAll, server, history
<1>8. CASE SweepRequest(t)
  <2>1. req' \in [Tabs -> [Slots -> Request]] /\ QueryInv'
    BY <1>2, <1>8, ActionPut DEF SweepRequest
  <2>2. tok' \in [Tokens -> {"unissued", "live", "lapsed", "revoked"}]
    BY <1>1, <1>3, <1>8 DEF SweepRequest, Request
  <2> QED BY <1>8, <2>1, <2>2 DEF SweepRequest, history
<1>9. CASE ServeLogout(t)
  <2>1. req' \in [Tabs -> [Slots -> Request]] /\ QueryInv'
    BY <1>2, <1>9, ActionPut DEF ServeLogout
  <2>2. tok' \in [Tokens -> {"unissued", "live", "lapsed", "revoked"}]
    BY <1>3, <1>4, <1>9 DEF ServeLogout
  <2> QED BY <1>9, <2>1, <2>2 DEF ServeLogout, history
<1>10. CASE LoginCheck(t)
  <2>1. req' \in [Tabs -> [Slots -> Request]] /\ QueryInv'
    BY <1>2, <1>10, ActionPut DEF LoginCheck, Account
  <2>2. tok' \in [Tokens -> {"unissued", "live", "lapsed", "revoked"}]
    BY <1>3, <1>4, <1>10 DEF LoginCheck
  <2>3. acct' \in Account /\ acct'.fails <= events' /\ events' \in 0..MaxEvents
    <3>1. CASE Event
      <4>1. acct.fails \in Nat /\ events \in Nat /\ acct.fails <= events
        BY SessionAssumption DEF Account
      <4>2. events' = events + 1 /\ events' \in 0..MaxEvents
        BY <3>1, EventCounts
      <4>3. \/ acct' = acct
            \/ \E st \in {"locked", acct.status} :
                  acct' = [acct EXCEPT !.fails = acct.fails + 1, !.status = st]
            \/ acct' = [acct EXCEPT !.fails = 0]
        BY <1>10 DEF LoginCheck, Counted
      <4>4. ASSUME NEW k \in Nat, NEW st \in {"locked", acct.status}
            PROVE  /\ [acct EXCEPT !.fails = k, !.status = st] \in Account
                   /\ [acct EXCEPT !.fails = k] \in Account
        BY DEF Account
      <4>5. acct' \in Account
        <5>1. acct.fails + 1 \in Nat /\ 0 \in Nat
          BY <4>1
        <5>2. CASE acct' = acct
          BY <5>2
        <5>3. CASE \E st \in {"locked", acct.status} :
                     acct' = [acct EXCEPT !.fails = acct.fails + 1, !.status = st]
          <6>1. PICK st \in {"locked", acct.status} :
                       acct' = [acct EXCEPT !.fails = acct.fails + 1, !.status = st]
            BY <5>3
          <6>2. [acct EXCEPT !.fails = acct.fails + 1, !.status = st] \in Account
            BY <4>4, <5>1
          <6> QED BY <6>1, <6>2
        <5>4. CASE acct' = [acct EXCEPT !.fails = 0]
          BY <4>4, <5>1, <5>4
        <5> QED BY <4>3, <5>2, <5>3, <5>4
      <4>6. acct'.fails \in {acct.fails, acct.fails + 1, 0}
        BY <4>3 DEF Account
      <4> QED BY <4>1, <4>2, <4>5, <4>6
    <3>2. CASE ~Event
      <4>1. UNCHANGED events /\ (acct' = acct \/ acct' = [acct EXCEPT !.fails = 0])
        BY <1>10, <3>2 DEF LoginCheck
      <4> QED BY <4>1, SessionAssumption DEF Account
    <3> QED BY <3>1, <3>2
  <2> QED BY <1>10, <2>1, <2>2, <2>3 DEF LoginCheck
<1>11. CASE LoginIssue(t)
  <2>1. events' \in 0..MaxEvents /\ acct.fails <= events'
    BY <1>11, EventCounts DEF LoginIssue
  <2>2. req' \in [Tabs -> [Slots -> Request]] /\ QueryInv'
    BY <1>2, <1>11, ActionPut DEF LoginIssue, Unused
  <2>3. /\ tok' \in [Tokens -> {"unissued", "live", "lapsed", "revoked"}]
        /\ family' \in [Tokens -> 0..MaxToken]
    <3>1. ASSUME NEW n \in Unused
          PROVE  /\ [tok EXCEPT ![n] = "live"]
                      \in [Tokens -> {"unissued", "live", "lapsed", "revoked"}]
                 /\ [family EXCEPT ![n] = n] \in [Tokens -> 0..MaxToken]
      BY SessionAssumption DEF Unused, Tokens
    <3>2. CASE UNCHANGED <<tok, family>>
      BY <3>2
    <3>3. CASE \E n \in Unused : /\ tok' = [tok EXCEPT ![n] = "live"]
                                /\ family' = [family EXCEPT ![n] = n]
      BY <3>1, <3>3
    <3> QED BY <1>11, <3>2, <3>3 DEF LoginIssue
  <2> QED BY <1>11, <2>1, <2>2, <2>3 DEF LoginIssue
<1>12. CASE Arrive401(t, "action")
  <2>1. req' \in [Tabs -> [Slots -> Request]] /\ QueryInv'
    BY <1>2, <1>12, ActionPut DEF Arrive401
  <2>2. flight' \in [Tabs -> RefreshCall]
    BY <1>12, StartedRefresh DEF Arrive401
  <2> QED BY <1>12, <2>1, <2>2 DEF Arrive401, server, history
<1>13. CASE LoginAnswered(t)
  <2>1. Session(r.tok, r.again) \in Sessions
    BY <1>1 DEF Session, Sessions, Request
  <2>2. auth' \in [Tabs -> Sessions] /\ stored' \in Sessions /\ page' \in [Tabs -> Pages]
    BY <1>13, <2>1, SignInType DEF LoginAnswered
  <2>3. req' \in [Tabs -> [Slots -> Request]] /\ QueryInv'
    BY <1>13, ActionPut DEF LoginAnswered
  <2> QED BY <1>13, <2>2, <2>3 DEF LoginAnswered, server, history
<1>14. ASSUME NEW op, NEW anyway \in BOOLEAN, SignOut(t, op, anyway)
       PROVE  SessionTypeOK' /\ QueryInv'
  <2>1. auth' \in [Tabs -> Sessions] /\ stored' \in Sessions /\ page' \in [Tabs -> Pages]
    BY <1>14, SignInType DEF SignOut
  <2>2. req' \in [Tabs -> [Slots -> Request]] /\ QueryInv'
    BY <1>14, ActionPut DEF SignOut
  <2> QED BY <1>14, <2>1, <2>2 DEF SignOut, server, history
<1> QED
  BY <1>5, <1>6, <1>7, <1>8, <1>9, <1>10, <1>11, <1>12, <1>13, <1>14
  DEF Mutation, ChangeAnswered, LogoutAllAnswered, LogoutAnswered

\* So does a step of a refresh.
LEMMA RefreshType ==
  ASSUME SessionTypeOK, QueryInv, HeldInv, NEW t \in Tabs, Refresh(t)
  PROVE  SessionTypeOK' /\ QueryInv'
<1> USE Blanks DEF SessionTypeOK
<1> DEFINE f == flight[t]
<1>1. f \in RefreshCall
  OBVIOUS
<1>2. Unrevoked \in SUBSET Tokens
  BY DEF Unrevoked
<1>3. ASSUME UNCHANGED req PROVE QueryInv'
  BY <1>3 DEF QueryInv
<1>4. CASE RefreshLook(t)
  <2>1. tok' \in [Tokens -> {"unissued", "live", "lapsed", "revoked"}]
    BY <1>4 DEF RefreshLook
  <2>2. events' \in 0..MaxEvents /\ acct.fails <= events'
    BY <1>4, EventCounts DEF RefreshLook
  <2>3. flight' \in [Tokens -> RefreshCall] \/ flight' \in [Tabs -> RefreshCall]
    <3>1. /\ [f EXCEPT !.at = "sweep", !.snap = Unrevoked] \in RefreshCall
          /\ [f EXCEPT !.at = "no"] \in RefreshCall
      BY <1>1, <1>2 DEF RefreshCall
    <3>2. \A x \in Sessions : [f EXCEPT !.at = "looked", !.new = x] \in RefreshCall
      BY <1>1 DEF RefreshCall
    <3>3. Session(0, acct.must) \in Sessions
      BY SessionAssumption DEF Session, Sessions, Account
    <3> QED BY <1>4, <3>1, <3>2, <3>3 DEF RefreshLook
  <2> QED BY <1>3, <1>4, <2>1, <2>2, <2>3 DEF RefreshLook
<1>5. CASE RefreshRotate(t)
  <2>1. events' \in 0..MaxEvents /\ acct.fails <= events'
    BY <1>5, EventCounts DEF RefreshRotate
  <2>2. CASE flight' = [flight EXCEPT ![t].at = "no"] /\ UNCHANGED <<tok, family, rotator>>
    <3>1. [f EXCEPT !.at = "no"] \in RefreshCall
      BY <1>1 DEF RefreshCall
    <3> QED BY <1>3, <1>5, <2>1, <2>2, <3>1 DEF RefreshRotate
  <2>3. ASSUME NEW n \in Unused,
               tok' = [tok EXCEPT ![f.old] = "revoked", ![n] = "live"],
               family' = [family EXCEPT ![n] = family[f.old]],
               flight' = [flight EXCEPT ![t].at = "ok", ![t].new.id = n],
               rotator' = [rotator EXCEPT ![f.old] = t]
        PROVE  SessionTypeOK' /\ QueryInv'
    <3>1. n \in Tokens
      BY DEF Unused
    <3>2. f.old \in Tokens
      BY <1>5 DEF RefreshRotate, HeldInv, TabHolds, Issued
    <3>3. family' \in [Tokens -> 0..MaxToken]
      BY <2>3, <3>2
    <3>4. [f EXCEPT !.at = "ok", !.new.id = n] \in RefreshCall
      <4>1. [f.new EXCEPT !.id = n] \in Sessions
        BY <1>1, <3>1, TokenIds DEF RefreshCall, Sessions
      <4>2. [f EXCEPT !.at = "ok", !.new = [f.new EXCEPT !.id = n]] \in RefreshCall
        BY <1>1, <4>1 DEF RefreshCall
      <4> QED BY <4>2
    <3>5. flight' \in [Tabs -> RefreshCall]
      BY <2>3, <3>4
    <3> QED BY <1>3, <1>5, <2>1, <2>3, <3>1, <3>3, <3>5 DEF RefreshRotate
  <2> QED BY <1>5, <2>2, <2>3 DEF RefreshRotate
<1>6. CASE RefreshSweep(t)
  <2>1. [f EXCEPT !.at = "no", !.snap = {}] \in RefreshCall
    BY <1>1 DEF RefreshCall
  <2>2. tok' \in [Tokens -> {"unissued", "live", "lapsed", "revoked"}]
    BY <1>6 DEF RefreshSweep, Revoke
  <2> QED BY <1>3, <1>6, <2>1, <2>2 DEF RefreshSweep, history
<1>7. CASE RefreshDone(t)
  <2>1. f.new \in Sessions
    BY <1>1 DEF RefreshCall
  <2>2. ASSUME NEW s \in Slots, NEW k \in 0..MaxToken
        PROVE  [req[t][s] EXCEPT !.at = "sent", !.again = TRUE, !.tok = k] \in Request
    <3>1. req[t][s] \in Request
      OBVIOUS
    <3> QED BY <3>1 DEF Request
  <2>3. f.new.id \in 0..MaxToken
    BY <2>1 DEF Sessions
  <2>9. Retried(t, f.new.id) \in [Slots -> Request]
    <3>1. ASSUME NEW s \in Slots
          PROVE  (IF req[t][s].at = "wait"
                  THEN [req[t][s] EXCEPT !.at = "sent", !.again = TRUE, !.tok = f.new.id]
                  ELSE req[t][s]) \in Request
      <4>1. req[t][s] \in Request
        OBVIOUS
      <4>2. [req[t][s] EXCEPT !.at = "sent", !.again = TRUE, !.tok = f.new.id] \in Request
        BY <2>2, <2>3, Zenon
      <4> QED BY <4>1, <4>2, Zenon
    <3> QED BY <3>1, Zenon DEF Retried
  <2>4. req' \in [Tabs -> [Slots -> Request]]
    BY <1>7, <2>9 DEF RefreshDone
  <2>5. Retried(t, f.new.id)["query"].op = req[t]["query"].op
        /\ (req[t]["query"].at = "idle" => Retried(t, f.new.id)["query"].at = "idle")
    BY <2>3 DEF Retried, Slots, Request
  <2>6. QueryInv'
    BY <1>7, <2>9, <2>5 DEF RefreshDone, QueryInv
  <2> QED BY <1>7, <2>1, <2>4, <2>6 DEF RefreshDone, SetSession, server, history
<1>8. CASE RefreshFailed(t)
  <2>1. /\ auth' \in [Tabs -> Sessions] /\ stored' \in Sessions
        /\ page' \in [Tabs -> Pages]
    BY <1>8 DEF RefreshFailed, SetSession, Pages
  <2>2. /\ req' \in [Tabs -> [Slots -> Request]]
        /\ cache' \in [Tabs -> Cached]
        /\ rotator' \in [Tokens -> Tabs \union {"nobody"}]
    <3>1. CASE page[t] = "login"
      <4>1. /\ req' = [req EXCEPT ![t] = [s \in Slots |->
                         IF req[t][s].at = "wait" THEN Idle ELSE req[t][s]]]
            /\ UNCHANGED <<cache, rotator>>
        BY <1>8, <3>1 DEF RefreshFailed
      <4> QED BY <4>1
    <3>2. CASE page[t] # "login"
      <4>1. /\ req' = [req EXCEPT ![t] = [s \in Slots |-> Idle]]
            /\ cache' = [cache EXCEPT ![t] = "nothing"]
            /\ rotator' = [n \in Tokens |-> IF rotator[n] = t THEN "nobody" ELSE rotator[n]]
        BY <1>8, <3>2 DEF RefreshFailed
      <4>2. "nothing" \in Cached
        BY DEF Cached
      <4> QED BY <4>1, <4>2
    <3> QED BY <3>1, <3>2
  <2>3. QueryInv'
    <3>1. req'[t]["query"] = req[t]["query"] \/ req'[t]["query"] = Idle
      BY <1>8 DEF RefreshFailed, Slots
    <3>2. \A u \in Tabs \ {t} : req'[u] = req[u]
      BY <1>8 DEF RefreshFailed
    <3>3. Idle.at = "idle"
      BY DEF Idle
    <3> QED BY <3>1, <3>2, <3>3 DEF QueryInv
  <2> QED BY <1>8, <2>1, <2>2, <2>3 DEF RefreshFailed, server
<1> QED BY <1>4, <1>5, <1>6, <1>7, <1>8 DEF Refresh

\* So does a lost message.
LEMMA NetworkType ==
  ASSUME SessionTypeOK, QueryInv, NEW t \in Tabs, Network(t)
  PROVE  SessionTypeOK' /\ QueryInv'
<1> USE Blanks DEF SessionTypeOK
<1>1. Event
  BY DEF Network, LoseRefresh, Lose
<1>2. events' \in 0..MaxEvents /\ acct.fails <= events'
  BY <1>1, EventCounts
<1>3. CASE LoseRefresh(t)
  <2>1. [flight[t] EXCEPT !.at = "no"] \in RefreshCall
    BY DEF RefreshCall
  <2> QED BY <1>2, <1>3, <2>1 DEF LoseRefresh, server, QueryInv
<1>4. ASSUME NEW s \in Slots, Lose(t, s)
      PROVE  SessionTypeOK' /\ QueryInv'
  <2>1. auth' \in [Tabs -> Sessions] /\ stored' \in Sessions /\ page' \in [Tabs -> Pages]
    BY <1>4, SignInType DEF Lose
  <2>2. req' \in [Tabs -> [Slots -> Request]] /\ QueryInv'
    BY <1>4 DEF Lose, Put, QueryInv, Idle, Slots
  <2> QED BY <1>2, <1>4, <2>1, <2>2 DEF Lose, server
<1> QED BY <1>3, <1>4 DEF Network

\* So does a step of the administrator.
LEMMA AdminType ==
  ASSUME SessionTypeOK, QueryInv, Admin
  PROVE  SessionTypeOK' /\ QueryInv'
<1> USE DEF SessionTypeOK
<1>1. CASE Suspend \/ ResetPassword \/ RevokeSessions
  <2>1. events' \in 0..MaxEvents /\ acct.fails <= events'
    BY <1>1, EventCounts DEF Suspend, ResetPassword, RevokeSessions
  <2>2. acct' \in Account /\ acct'.fails = acct.fails
    BY <1>1 DEF Suspend, ResetPassword, RevokeSessions, Account
  <2>3. sweep' \subseteq Tokens
    BY <1>1 DEF Suspend, ResetPassword, RevokeSessions, Unrevoked
  <2> QED
    BY <1>1, <2>1, <2>2, <2>3 DEF Suspend, ResetPassword, RevokeSessions, client, QueryInv
<1>2. CASE SweepAdmin
  BY <1>2 DEF SweepAdmin, Revoke, client, history, QueryInv
<1>3. CASE Reactivate
  <2>1. acct' \in Account /\ acct'.fails <= events
    <3>1. acct.fails \in Nat /\ events \in Nat /\ acct.fails <= events
      BY SessionAssumption DEF Account
    <3>2. \A k \in Nat : [acct EXCEPT !.status = "active", !.fails = k] \in Account
      BY DEF Account
    <3>3. PICK k \in {0, acct.fails} : acct' = [acct EXCEPT !.status = "active", !.fails = k]
      BY <1>3 DEF Reactivate
    <3>4. acct'.fails = k
      BY <3>3 DEF Account
    <3>5. k \in Nat /\ k <= events
      BY <3>1
    <3>6. acct' \in Account
      BY <3>2, <3>3, <3>5
    <3> QED BY <3>4, <3>5, <3>6
  <2> QED BY <1>3, <2>1 DEF Reactivate, client, history, QueryInv
<1> QED BY <1>1, <1>2, <1>3 DEF Admin

\* Every step keeps the types and the kinds of the queries.
LEMMA TypeNext ==
  ASSUME SessionTypeOK, QueryInv, HeldInv, [Next]_vars
  PROVE  SessionTypeOK' /\ QueryInv'
<1>1. CASE UNCHANGED vars
  BY <1>1 DEF vars, client, server, history, SessionTypeOK, QueryInv
<1> QED
  BY <1>1, ControlsType, QueryType, MutationType, RefreshType, NetworkType, AdminType DEF Next

-----------------------------------------------------------------------------
(* Tokens. *)

\* What a step can do to the tokens: nothing, revoke some that were issued, let one
\* lapse, issue one to a login, or replace one by a rotation.
LogsIn(n) == tok' = [tok EXCEPT ![n] = "live"] /\ family' = [family EXCEPT ![n] = n]
Rotates(o, n) ==
  /\ tok' = [tok EXCEPT ![o] = "revoked", ![n] = "live"]
  /\ family' = [family EXCEPT ![n] = family[o]]

TokenStep ==
  \/ UNCHANGED <<tok, family>>
  \/ \E u \in SUBSET Issued : tok' = Revoke(u) /\ UNCHANGED family
  \/ \E o \in Unrevoked : tok' = [tok EXCEPT ![o] = "lapsed"] /\ UNCHANGED family
  \/ \E n \in Tokens \ Issued : LogsIn(n)
  \/ \E o \in Unrevoked, n \in Tokens \ Issued : Rotates(o, n)

\* Every step of the service is one of these.
LEMMA TokensMove ==
  ASSUME SessionTypeOK, HeldInv, [Next]_vars
  PROVE  TokenStep
<1> USE DEF TokenStep
<1>1. Unrevoked \subseteq Issued /\ Unused \subseteq Tokens \ Issued
  BY DEF Unrevoked, Issued, Unused
<1>2. CASE UNCHANGED vars \/ Suspend \/ ResetPassword \/ RevokeSessions \/ Reactivate
  BY <1>2 DEF vars, server, Suspend, ResetPassword, RevokeSessions, Reactivate
<1>3. CASE SweepAdmin
  BY <1>3 DEF SweepAdmin, HeldInv
<1>4. ASSUME NEW t \in Tabs, Guards(t) \/ Controls(t) \/ Query(t) \/ Network(t)
      PROVE  UNCHANGED <<tok, family>>
  BY <1>4 DEF Guards, AuthGuardRedirect, RoleGuardRedirect, Controls, Navigate, Reload,
       LoginSubmit, QueryPage, SecuritySubmit, LogoutAllClick, MenuLogout, MeLogout, Send,
       Query, Refuse401, Refuse403, ServeRead, Arrive401, QueryAnswered,
       Network, LoseRefresh, Lose, server
<1>5. ASSUME NEW t \in Tabs, Mutation(t)
      PROVE  TokenStep
  <2>1. CASE SweepRequest(t)
    BY <2>1 DEF SweepRequest, HeldInv, TabHolds
  <2>2. CASE ServeLogout(t)
    BY <1>1, <2>2 DEF ServeLogout
  <2>3. CASE LoginCheck(t)
    BY <1>1, <2>3 DEF LoginCheck
  <2>4. CASE LoginIssue(t)
    BY <1>1, <2>4 DEF LoginIssue, LogsIn
  <2> QED
    BY <1>5, <2>1, <2>2, <2>3, <2>4
    DEF Mutation, Refuse401, ServeChange, ServeLogoutAll, Arrive401, LoginAnswered,
        ChangeAnswered, LogoutAllAnswered, LogoutAnswered, SignOut, server
<1>6. ASSUME NEW t \in Tabs, Refresh(t)
      PROVE  TokenStep
  <2>1. TabHolds(t)
    BY DEF HeldInv
  <2>2. CASE RefreshLook(t)
    <3>1. CASE UNCHANGED tok
      BY <2>2, <3>1 DEF RefreshLook
    <3>2. CASE tok[flight[t].old] \in {"live", "lapsed"} /\ tok' = [tok EXCEPT ![flight[t].old] = "lapsed"]
      <4>1. flight[t].old \in Unrevoked
        BY <2>1, <2>2, <3>2 DEF RefreshLook, TabHolds, Issued, Unrevoked
      <4> QED BY <2>2, <3>2, <4>1 DEF RefreshLook
    <3> QED BY <2>2, <3>1, <3>2 DEF RefreshLook
  <2>3. CASE RefreshRotate(t)
    <3>1. CASE UNCHANGED <<tok, family>>
      BY <3>1
    <3>2. ASSUME NEW n \in Unused, Rotatable(flight[t].old), Rotates(flight[t].old, n)
          PROVE  TokenStep
      <4>1. flight[t].old \in Unrevoked
        BY <2>1, <2>3, <3>2 DEF RefreshRotate, TabHolds, Issued, Unrevoked, Rotatable,
                                SessionTypeOK
      <4> QED BY <1>1, <3>2, <4>1
    <3> QED BY <2>3, <3>1, <3>2 DEF RefreshRotate, Rotates
  <2>4. CASE RefreshSweep(t)
    BY <2>1, <2>4 DEF RefreshSweep, TabHolds
  <2>5. CASE RefreshDone(t) \/ RefreshFailed(t)
    BY <2>5 DEF RefreshDone, RefreshFailed, server
  <2> QED BY <1>6, <2>2, <2>3, <2>4, <2>5 DEF Refresh
<1> QED BY <1>2, <1>3, <1>4, <1>5, <1>6 DEF Next, Admin

\* A token once issued stays issued.
LEMMA IssuedGrows ==
  ASSUME SessionTypeOK, TokenStep
  PROVE  Issued \subseteq Issued'
<1> SUFFICES ASSUME NEW m \in Issued PROVE tok'[m] # "unissued"
  BY DEF Issued
<1>1. m \in Tokens /\ tok[m] # "unissued"
  BY DEF Issued
<1> QED BY <1>1 DEF TokenStep, SessionTypeOK, Revoke, LogsIn, Rotates

\* A login starts a family of its own, a rotation replaces the one token of its family
\* that is not revoked, and nothing else adds to one.
LEMMA FamilyNext ==
  ASSUME SessionTypeOK, FamilyInv, TokenStep
  PROVE  FamilyInv'
<1> USE DEF SessionTypeOK
<1>1. Issued \subseteq Issued'
  BY IssuedGrows
<1>2. CASE UNCHANGED <<tok, family>>
  BY <1>2 DEF FamilyInv, Issued, Unrevoked
<1>3. ASSUME UNCHANGED family, Unrevoked' \subseteq Unrevoked, Issued' \subseteq Issued
      PROVE  FamilyInv'
  BY <1>1, <1>3 DEF FamilyInv
<1>4. CASE \E u \in SUBSET Issued : tok' = Revoke(u) /\ UNCHANGED family
  BY <1>3, <1>4 DEF Revoke, Unrevoked, Issued
<1>5. CASE \E o \in Unrevoked : tok' = [tok EXCEPT ![o] = "lapsed"] /\ UNCHANGED family
  BY <1>3, <1>5 DEF Unrevoked, Issued
<1>6. ASSUME NEW n \in Tokens \ Issued, LogsIn(n)
      PROVE  FamilyInv'
  <2>1. Unrevoked' = Unrevoked \union {n} /\ Issued' = Issued \union {n}
    BY <1>6 DEF LogsIn, Unrevoked, Issued
  <2>2. \A m \in Tokens \ {n} : family'[m] = family[m]
    BY <1>6 DEF LogsIn
  <2>3. family'[n] = n
    BY <1>6 DEF LogsIn
  <2>4. Unrevoked \subseteq Issued /\ Issued \subseteq Tokens
    BY DEF Unrevoked, Issued
  <2> QED BY <2>1, <2>2, <2>3, <2>4 DEF FamilyInv
<1>7. ASSUME NEW o \in Unrevoked, NEW n \in Tokens \ Issued, Rotates(o, n)
      PROVE  FamilyInv'
  <2>1. Unrevoked \subseteq Issued /\ Issued \subseteq Tokens
    BY DEF Unrevoked, Issued
  <2>2. Unrevoked' = (Unrevoked \ {o}) \union {n} /\ Issued' = Issued \union {n}
    BY <1>7, <2>1 DEF Rotates, Unrevoked, Issued
  <2>3. \A m \in Tokens \ {n} : family'[m] = family[m]
    BY <1>7 DEF Rotates
  <2>4. family'[n] = family[o]
    BY <1>7 DEF Rotates
  <2> QED BY <2>1, <2>2, <2>3, <2>4 DEF FamilyInv
<1> QED BY <1>2, <1>4, <1>5, <1>6, <1>7 DEF TokenStep

-----------------------------------------------------------------------------
(* Tabs. *)

TabStep(t) ==
  Guards(t) \/ Controls(t) \/ Query(t) \/ Mutation(t) \/ Refresh(t) \/ Network(t)

\* A tab's step touches no other tab's memory, requests or refresh: the tabs share
\* the stored session and the rows only.
LEMMA OthersUntouched ==
  ASSUME SessionTypeOK, NEW t \in Tabs, TabStep(t), NEW u \in Tabs, u # t
  PROVE  auth'[u] = auth[u] /\ req'[u] = req[u] /\ flight'[u] = flight[u]
<1> USE DEF SessionTypeOK
<1>1. CASE Guards(t) \/ Controls(t)
  BY <1>1 DEF Guards, AuthGuardRedirect, RoleGuardRedirect, Controls, Navigate, Reload,
       LoginSubmit, QueryPage, SecuritySubmit, LogoutAllClick, MenuLogout, MeLogout, Send
<1>2. CASE Query(t)
  BY <1>2 DEF Query, Refuse401, Refuse403, ServeRead, Arrive401, QueryAnswered, Put
<1>3. CASE Mutation(t)
  <2>1. CASE Refuse401(t, "action") \/ ServeChange(t) \/ ServeLogoutAll(t) \/ SweepRequest(t)
             \/ ServeLogout(t) \/ LoginCheck(t) \/ LoginIssue(t) \/ Arrive401(t, "action")
    BY <2>1 DEF Refuse401, ServeChange, ServeLogoutAll, SweepRequest, ServeLogout,
         LoginCheck, LoginIssue, Arrive401, Put
  <2>2. CASE LoginAnswered(t) \/ ChangeAnswered(t) \/ LogoutAllAnswered(t) \/ LogoutAnswered(t)
    BY <2>2 DEF LoginAnswered, ChangeAnswered, LogoutAllAnswered, LogoutAnswered, SignOut,
         SignIn, SetSession, Put
  <2> QED BY <1>3, <2>1, <2>2 DEF Mutation
<1>4. CASE Refresh(t)
  BY <1>4 DEF Refresh, RefreshLook, RefreshRotate, RefreshSweep, RefreshDone, RefreshFailed,
       SetSession
<1>5. CASE Network(t)
  BY <1>5 DEF Network, LoseRefresh, Lose, SignIn, SetSession, Put
<1> QED BY <1>1, <1>2, <1>3, <1>4, <1>5 DEF TabStep

\* A request that waits for the refresh of its tab still has one after any step.
LEMMA WaitersNext ==
  ASSUME SessionTypeOK, QueryInv, WaitersHaveRefresh, [Next]_vars
  PROVE  WaitersHaveRefresh'
<1> USE DEF SessionTypeOK, WaitersHaveRefresh
<1>1. CASE UNCHANGED vars \/ Admin
  BY <1>1 DEF vars, client, Admin, Suspend, ResetPassword, RevokeSessions, SweepAdmin, Reactivate
<1>2. ASSUME NEW t \in Tabs, TabStep(t)
      PROVE  WaitersHaveRefresh'
  <2> SUFFICES ASSUME NEW s \in Slots, req'[t][s].at = "wait"
               PROVE  flight'[t].at # "none"
    BY <1>2, OthersUntouched
  <2>1. ASSUME NEW r \in Request, NEW a \in STRING
        PROVE  /\ [r EXCEPT !.at = a].at = a
               /\ \A x : [r EXCEPT !.at = a, !.snap = x].at = a
               /\ \A x : [r EXCEPT !.at = a, !.tok = x].at = a
               /\ \A x : [r EXCEPT !.at = a, !.again = x].at = a
    BY DEF Request
  <2>2. ASSUME NEW p \in Slots, NEW x, Put(t, p, x), x.at # "wait", UNCHANGED flight
        PROVE  flight'[t].at # "none"
    BY <2>2 DEF Put
  <2>3. Idle.at # "wait" /\ req[t]["query"] \in Request /\ req[t]["action"] \in Request
    BY DEF Idle, Slots
  <2>4. CASE Guards(t)
    BY <2>4 DEF Guards, AuthGuardRedirect, RoleGuardRedirect
  <2>5. CASE Reload(t)
    BY <2>3, <2>5 DEF Reload
  <2>6. CASE Controls(t) /\ ~Reload(t)
    <3>1. ASSUME NEW p \in Slots, NEW op, Send(t, p, op)
          PROVE  flight'[t].at # "none"
      BY <3>1 DEF Send, Idle
    <3> QED
      BY <2>6, <3>1 DEF Controls, Navigate, LoginSubmit, QueryPage, SecuritySubmit,
           LogoutAllClick, MenuLogout, MeLogout, Slots
  <2>7. ASSUME NEW p \in Slots, Arrive401(t, p)
        PROVE  flight'[t].at # "none"
    <3>1. CASE UNCHANGED flight /\ flight[t].at # "none"
      BY <3>1
    <3>2. CASE flight' = [flight EXCEPT ![t] = [NoFlight EXCEPT !.at = "sent", !.old = auth[t].id]]
      BY <3>2 DEF NoFlight
    <3>3. CASE Put(t, p, Idle) /\ UNCHANGED flight
      BY <2>2, <2>3, <3>3
    <3> QED BY <2>7, <3>1, <3>2, <3>3 DEF Arrive401
  <2>8. ASSUME NEW p \in Slots, Refuse401(t, p)
        PROVE  flight'[t].at # "none"
    <3>1. [req[t][p] EXCEPT !.at = "401"].at = "401"
      BY <2>1
    <3> QED BY <2>2, <2>8, <3>1 DEF Refuse401
  <2>9. CASE Query(t)
    <3>1. CASE ServeRead(t)
      <4>1. \A c \in Cached : [req[t]["query"] EXCEPT !.at = c].at # "wait"
        BY <2>1, <2>3 DEF Cached
      <4>2. UNCHANGED flight /\ "query" \in Slots
        BY <3>1 DEF ServeRead, Slots
      <4>3. CASE req[t]["query"].op = "me"
        <5>1. \/ Put(t, "query", [req[t]["query"] EXCEPT !.at = "forced"])
              \/ Put(t, "query", [req[t]["query"] EXCEPT !.at = "free"])
          BY <3>1, <4>3 DEF ServeRead
        <5>2. "forced" \in Cached /\ "free" \in Cached
          BY DEF Cached
        <5> QED BY <2>2, <4>1, <4>2, <5>1, <5>2
      <4>4. CASE req[t]["query"].op = "sessions"
        <5>1. \/ Put(t, "query", [req[t]["query"] EXCEPT !.at = "empty"])
              \/ Put(t, "query", [req[t]["query"] EXCEPT !.at = "some"])
          BY <3>1, <4>4 DEF ServeRead
        <5>2. "empty" \in Cached /\ "some" \in Cached
          BY DEF Cached
        <5> QED BY <2>2, <4>1, <4>2, <5>1, <5>2
      <4>5. CASE req[t]["query"].op = "load"
        <5>1. Put(t, "query", Idle)
          BY <3>1, <4>5 DEF ServeRead
        <5> QED BY <2>2, <2>3, <4>2, <5>1
      <4>6. req[t]["query"].op \in {"load", "me", "sessions"}
        BY <3>1 DEF ServeRead, QueryInv
      <4> QED BY <4>3, <4>4, <4>5, <4>6
    <3>2. CASE Refuse403(t) \/ QueryAnswered(t)
      BY <2>2, <2>3, <3>2 DEF Refuse403, QueryAnswered, Slots
    <3> QED BY <2>7, <2>8, <2>9, <3>1, <3>2 DEF Query, Slots
  <2>10. CASE Mutation(t)
    <3> DEFINE r == req[t]["action"]
    <3>1. "action" \in Slots
      BY DEF Slots
    <3>2. CASE ServeChange(t)
      <4>1. /\ [r EXCEPT !.at = "bad"].at # "wait"
            /\ [r EXCEPT !.at = "sweep", !.snap = Unrevoked].at # "wait"
        BY <2>1, <2>3
      <4>2. CASE Put(t, "action", [r EXCEPT !.at = "bad"])
        BY <2>2, <3>1, <3>2, <4>1, <4>2 DEF ServeChange
      <4>3. CASE Put(t, "action", [r EXCEPT !.at = "sweep", !.snap = Unrevoked])
        BY <2>2, <3>1, <3>2, <4>1, <4>3 DEF ServeChange
      <4> QED BY <3>2, <4>2, <4>3 DEF ServeChange
    <3>3. CASE ServeLogoutAll(t)
      <4>1. [r EXCEPT !.at = "sweep", !.snap = Unrevoked].at # "wait"
        BY <2>1, <2>3
      <4> QED BY <2>2, <3>1, <3>3, <4>1 DEF ServeLogoutAll
    <3>4. CASE SweepRequest(t)
      <4>1. [r EXCEPT !.at = "ok", !.snap = {}].at # "wait"
        BY <2>1, <2>3
      <4> QED BY <2>2, <3>1, <3>4, <4>1 DEF SweepRequest
    <3>5. CASE ServeLogout(t)
      <4>1. [r EXCEPT !.at = "ok"].at # "wait"
        BY <2>1, <2>3
      <4> QED BY <2>2, <3>1, <3>5, <4>1 DEF ServeLogout
    <3>6. CASE LoginCheck(t)
      <4>1. /\ [r EXCEPT !.at = "bad"].at # "wait"
            /\ [r EXCEPT !.at = "issue", !.again = acct.must].at # "wait"
        BY <2>1, <2>3
      <4> QED BY <2>2, <3>1, <3>6, <4>1 DEF LoginCheck
    <3>7. CASE LoginIssue(t)
      <4>1. /\ [r EXCEPT !.at = "bad"].at # "wait"
            /\ \A n : [r EXCEPT !.at = "ok", !.tok = n].at # "wait"
        BY <2>1, <2>3
      <4>2. PICK x : Put(t, "action", x) /\ x.at # "wait"
        BY <3>7, <4>1 DEF LoginIssue
      <4> QED BY <2>2, <3>1, <3>7, <4>2 DEF LoginIssue
    <3>8. CASE LoginAnswered(t) \/ ChangeAnswered(t) \/ LogoutAllAnswered(t) \/ LogoutAnswered(t)
      BY <2>2, <2>3, <3>1, <3>8
         DEF LoginAnswered, ChangeAnswered, LogoutAllAnswered, LogoutAnswered, SignOut
    <3> QED
      BY <2>7, <2>8, <2>10, <3>1, <3>2, <3>3, <3>4, <3>5, <3>6, <3>7, <3>8 DEF Mutation
  <2>10a. CASE RefreshLook(t) \/ RefreshRotate(t) \/ RefreshSweep(t) \/ LoseRefresh(t)
    <3> DEFINE f == flight[t]
    <3>1. f \in RefreshCall
      OBVIOUS
    <3>2. ASSUME NEW x, flight' = [flight EXCEPT ![t] = x], x.at # "none"
          PROVE  flight'[t].at # "none"
      BY <3>2
    <3>3. [f EXCEPT !.at = "no"].at = "no"
      BY <3>1 DEF RefreshCall
    <3>4. CASE RefreshLook(t)
      <4>1. /\ [f EXCEPT !.at = "sweep", !.snap = Unrevoked].at = "sweep"
            /\ [f EXCEPT !.at = "looked", !.new = Session(0, acct.must)].at = "looked"
        BY <3>1 DEF RefreshCall
      <4> QED BY <3>2, <3>3, <3>4, <4>1 DEF RefreshLook
    <3>5. CASE RefreshRotate(t)
      <4>1. ASSUME NEW n, flight' = [flight EXCEPT ![t].at = "ok", ![t].new.id = n]
            PROVE  flight'[t].at # "none"
        <5>1. flight'[t] = [f EXCEPT !.at = "ok", !.new.id = n]
          BY <4>1
        <5>2. [f EXCEPT !.at = "ok", !.new.id = n].at = "ok"
          BY <3>1 DEF RefreshCall
        <5> QED BY <5>1, <5>2
      <4> QED BY <3>2, <3>3, <3>5, <4>1 DEF RefreshRotate
    <3>6. CASE RefreshSweep(t)
      <4>1. [f EXCEPT !.at = "no", !.snap = {}].at = "no"
        BY <3>1 DEF RefreshCall
      <4> QED BY <3>2, <3>6, <4>1 DEF RefreshSweep
    <3>7. CASE LoseRefresh(t)
      BY <3>2, <3>3, <3>7 DEF LoseRefresh
    <3> QED BY <2>10a, <3>4, <3>5, <3>6, <3>7
  <2>11. CASE RefreshDone(t)
    <3>1. Retried(t, flight[t].new.id)[s].at # "wait"
      <4>1. req[t][s] \in Request
        OBVIOUS
      <4> QED BY <4>1 DEF Retried, Request
    <3> QED BY <2>11, <3>1 DEF RefreshDone
  <2>12. CASE RefreshFailed(t)
    BY <2>3, <2>12 DEF RefreshFailed
  <2>13. ASSUME NEW p \in Slots, Lose(t, p)
         PROVE  flight'[t].at # "none"
    BY <2>2, <2>3, <2>13 DEF Lose
  <2> QED
    BY <1>2, <2>4, <2>5, <2>6, <2>9, <2>10, <2>11, <2>12, <2>13, <2>10a
    DEF TabStep, Controls, Refresh, Network
<1> QED BY <1>1, <1>2 DEF Next, TabStep

-----------------------------------------------------------------------------
(* What a step does to the tokens its tab knows. *)

Forget(t) == [n \in Tokens |-> IF rotator[n] = t THEN "nobody" ELSE rotator[n]]

\* The tab's mutation learns no token of a login and revokes no more than is valid.
KeepsAction(t) ==
  /\ req'[t]["action"].snap \subseteq req[t]["action"].snap \union Unrevoked
  /\ LoginPending(t)' => LoginPending(t) /\ req'[t]["action"].tok = req[t]["action"].tok
  /\ ~At(t, "action", "login", "sweep")'
KeepsSession(t) == auth'[t] = auth[t] /\ stored' = stored
TakesSession(t, s) == auth'[t] = s /\ stored' = s

Stays(t) == KeepsSession(t) /\ KeepsAction(t) /\ flight'[t] = flight[t] /\ UNCHANGED rotator
Rehydrates(t) ==
  auth'[t] = stored /\ stored' = stored /\ KeepsAction(t) /\ ~LoginPending(t)'
  /\ flight'[t] = NoFlight /\ rotator' = Forget(t)
LearnsLogin(t) ==
  /\ KeepsSession(t) /\ flight'[t] = flight[t] /\ UNCHANGED rotator
  /\ req'[t]["action"].snap = req[t]["action"].snap /\ ~At(t, "action", "login", "sweep")'
  /\ req'[t]["action"].tok \in Issued' \ Issued
SignsIn(t) ==
  /\ LoginPending(t) /\ ~LoginPending(t)' /\ KeepsAction(t)
  /\ auth'[t].id = req[t]["action"].tok /\ stored' = auth'[t]
  /\ flight'[t] = flight[t] /\ UNCHANGED rotator
SignsOut(t) ==
  TakesSession(t, None) /\ KeepsAction(t) /\ flight'[t] = flight[t] /\ UNCHANGED rotator
StartsRefresh(t) ==
  /\ flight[t].at = "none" /\ auth[t].id # 0
  /\ flight'[t].at = "sent" /\ flight'[t].old = auth[t].id /\ flight'[t].snap = {}
  /\ KeepsSession(t) /\ KeepsAction(t) /\ UNCHANGED rotator
Proceeds(t) ==
  /\ flight[t].at # "none" /\ flight'[t].at \in {"sweep", "looked", "no"}
  /\ flight'[t].old = flight[t].old /\ flight'[t].snap \subseteq flight[t].snap \union Unrevoked
  /\ KeepsSession(t) /\ KeepsAction(t) /\ UNCHANGED rotator
Rotated(t) ==
  /\ flight[t].at # "none" /\ flight'[t].at = "ok"
  /\ flight'[t].old = flight[t].old /\ flight'[t].snap = flight[t].snap
  /\ flight'[t].new.id \in Issued' \ Issued
  /\ rotator' = [rotator EXCEPT ![flight[t].old] = t]
  /\ KeepsSession(t) /\ KeepsAction(t)
Finishes(t) ==
  /\ flight[t].at = "ok" /\ TakesSession(t, flight[t].new) /\ flight'[t] = NoFlight
  /\ KeepsAction(t) /\ UNCHANGED rotator
Fails(t) ==
  /\ TakesSession(t, None) /\ flight'[t] = NoFlight /\ KeepsAction(t)
  /\ rotator' = rotator \/ rotator' = Forget(t)

TabMove(t) ==
  \/ Stays(t) \/ Rehydrates(t) \/ LearnsLogin(t) \/ SignsIn(t) \/ SignsOut(t)
  \/ StartsRefresh(t) \/ Proceeds(t) \/ Rotated(t) \/ Finishes(t) \/ Fails(t)

\* The slot of the mutation after a step that writes a slot.
LEMMA KeptAction ==
  ASSUME SessionTypeOK, NEW t \in Tabs, TabHolds(t)
  PROVE  /\ req'[t]["action"] = req[t]["action"] => KeepsAction(t)
         /\ \A x : Put(t, "query", x) => KeepsAction(t)
         /\ Put(t, "action", Idle) => KeepsAction(t) /\ ~LoginPending(t)'
         /\ \A x : /\ Put(t, "action", x)
                   /\ x.snap \subseteq req[t]["action"].snap \union Unrevoked
                   /\ x.op # "login" \/ x.at \notin {"ok", "sweep"}
                   => KeepsAction(t)
<1>1. req'[t]["action"] = req[t]["action"] => KeepsAction(t)
  BY DEF TabHolds, KeepsAction, LoginPending, At
<1>2. ASSUME NEW x, Put(t, "query", x) PROVE KeepsAction(t)
  <2>1. req'[t]["action"] = req[t]["action"]
    BY <1>2 DEF Put, SessionTypeOK, Slots
  <2> QED BY <1>1, <2>1
<1>3. ASSUME NEW x, Put(t, "action", x) PROVE req'[t]["action"] = x
  BY <1>3 DEF Put, SessionTypeOK, Slots
<1>4. Put(t, "action", Idle) => KeepsAction(t) /\ ~LoginPending(t)'
  BY <1>3 DEF Idle, KeepsAction, LoginPending, At
<1>5. ASSUME NEW x, Put(t, "action", x), x.snap \subseteq req[t]["action"].snap \union Unrevoked,
             x.op # "login" \/ x.at \notin {"ok", "sweep"}
      PROVE  KeepsAction(t)
  BY <1>3, <1>5 DEF KeepsAction, LoginPending, At
<1> QED BY <1>1, <1>2, <1>4, <1>5

\* Every step of a tab is one of these moves.
LEMMA TabMoves ==
  ASSUME SessionTypeOK, QueryInv, HeldInv, NEW t \in Tabs, TabStep(t)
  PROVE  TabMove(t)
<1> USE DEF TabMove
<1> DEFINE r == req[t]["action"]
<1> DEFINE f == flight[t]
<1>1. TabHolds(t)
  BY DEF HeldInv
<1>2. r \in Request /\ f \in RefreshCall /\ "action" \in Slots /\ "query" \in Slots
  BY DEF SessionTypeOK, Slots
<1>3. /\ req'[t]["action"] = r => KeepsAction(t)
      /\ \A x : Put(t, "query", x) => KeepsAction(t)
      /\ Put(t, "action", Idle) => KeepsAction(t) /\ ~LoginPending(t)'
      /\ \A x : /\ Put(t, "action", x)
                /\ x.snap \subseteq r.snap \union Unrevoked
                /\ x.op # "login" \/ x.at \notin {"ok", "sweep"}
                => KeepsAction(t)
  BY <1>1, KeptAction
<1>4. ASSUME UNCHANGED <<auth, stored, flight, rotator>>, KeepsAction(t)
      PROVE  TabMove(t)
  BY <1>4 DEF Stays, KeepsSession
<1>5. \A p \in Slots : Put(t, p, Idle) => KeepsAction(t)
  BY <1>3 DEF Slots
<1>6. \A a \in {"sent", "issue", "wait", "bad", "401"} :
        /\ [r EXCEPT !.at = a].snap = r.snap /\ [r EXCEPT !.at = a].at = a
        /\ \A b : /\ [r EXCEPT !.at = a, !.again = b].snap = r.snap
                 /\ [r EXCEPT !.at = a, !.again = b].at = a
  BY <1>2 DEF Request
<1>6a. ASSUME NEW a \in {"sent", "issue", "wait", "bad", "401"},
              \/ Put(t, "action", [r EXCEPT !.at = a])
              \/ \E b : Put(t, "action", [r EXCEPT !.at = a, !.again = b])
       PROVE  KeepsAction(t)
  <2>1. ASSUME NEW x, Put(t, "action", x), x.snap = r.snap, x.at = a
        PROVE  KeepsAction(t)
    BY <1>3, <2>1
  <2>2. CASE Put(t, "action", [r EXCEPT !.at = a])
    BY <1>6, <2>1, <2>2
  <2>3. ASSUME NEW b, Put(t, "action", [r EXCEPT !.at = a, !.again = b])
        PROVE  KeepsAction(t)
    <3> DEFINE x == [r EXCEPT !.at = a, !.again = b]
    <3>1. x.snap = r.snap /\ x.at = a
      BY <1>6
    <3>2. Put(t, "action", x)
      BY <2>3
    <3> HIDE DEF x
    <3> QED BY <2>1, <3>1, <3>2
  <2> QED BY <1>6a, <2>2, <2>3
<1>7. CASE Guards(t)
  BY <1>3, <1>4, <1>7 DEF Guards, AuthGuardRedirect, RoleGuardRedirect, history
<1>8. CASE Navigate(t)
  BY <1>3, <1>4, <1>8 DEF Navigate, history
<1>9. CASE Reload(t)
  <2>1. req'[t]["action"] = Idle /\ auth'[t] = stored /\ flight'[t] = NoFlight
    BY <1>2, <1>9 DEF Reload, SessionTypeOK
  <2>2. KeepsAction(t) /\ ~LoginPending(t)'
    BY <2>1 DEF KeepsAction, LoginPending, At, Idle
  <2> QED BY <1>9, <2>1, <2>2 DEF Reload, Rehydrates, Forget
<1>10. ASSUME NEW p \in Slots, NEW op, Send(t, p, op)
       PROVE  TabMove(t)
  <2>1. CASE p = "query"
    BY <1>3, <1>4, <1>10, <2>1 DEF Send, Put, history
  <2>2. CASE p = "action"
    <3>1. [Idle EXCEPT !.op = op, !.at = "sent", !.tok = auth[t].id].at = "sent"
      BY DEF Idle
    <3>2. [Idle EXCEPT !.op = op, !.at = "sent", !.tok = auth[t].id].snap = {}
      BY DEF Idle
    <3> QED BY <1>3, <1>4, <1>10, <2>2, <3>1, <3>2 DEF Send, Put, history
  <2> QED BY <2>1, <2>2 DEF Slots
<1>11. CASE Controls(t)
  BY <1>2, <1>8, <1>9, <1>10, <1>11 DEF Controls, LoginSubmit, QueryPage, SecuritySubmit,
       LogoutAllClick, MenuLogout, MeLogout
<1>12. ASSUME NEW p \in Slots, Refuse401(t, p)
       PROVE  TabMove(t)
  BY <1>3, <1>4, <1>6a, <1>12 DEF Refuse401, Slots, history
<1>13. ASSUME NEW p \in Slots, Arrive401(t, p)
       PROVE  TabMove(t)
  <2>1. KeepsAction(t)
    <3>1. CASE Put(t, p, Idle)
      BY <1>5, <3>1
    <3>2. CASE Put(t, p, [req[t][p] EXCEPT !.at = "wait"])
      BY <1>3, <1>6a, <3>2 DEF Slots
    <3> QED BY <1>13, <3>1, <3>2 DEF Arrive401
  <2>2. CASE UNCHANGED flight
    BY <1>4, <1>13, <2>1, <2>2 DEF Arrive401, history
  <2>3. CASE /\ f.at = "none" /\ auth[t].id # 0
             /\ flight' = [flight EXCEPT ![t] = [NoFlight EXCEPT !.at = "sent",
                                                               !.old = auth[t].id]]
    <3>1. flight'[t] = [NoFlight EXCEPT !.at = "sent", !.old = auth[t].id]
      BY <2>3 DEF SessionTypeOK
    <3>2. flight'[t].at = "sent" /\ flight'[t].old = auth[t].id /\ flight'[t].snap = {}
      BY <3>1 DEF NoFlight
    <3> QED BY <1>13, <2>1, <2>3, <3>2 DEF Arrive401, StartsRefresh, KeepsSession, history
  <2> QED BY <1>13, <2>2, <2>3 DEF Arrive401
<1>14. CASE Query(t)
  <2>1. CASE Refuse403(t) \/ QueryAnswered(t)
    BY <1>2, <1>3, <1>4, <1>5, <2>1 DEF Refuse403, QueryAnswered, history
  <2>2. CASE ServeRead(t)
    BY <1>3, <1>4, <2>2 DEF ServeRead, history
  <2> QED BY <1>2, <1>12, <1>13, <1>14, <2>1, <2>2 DEF Query
<1>15. CASE ServeChange(t) \/ ServeLogoutAll(t)
  <2>1. r.op # "login" /\ UNCHANGED <<auth, stored, flight, rotator>>
    BY <1>15 DEF ServeChange, ServeLogoutAll, At, history
  <2>2. /\ [r EXCEPT !.at = "sweep", !.snap = Unrevoked].snap = Unrevoked
        /\ [r EXCEPT !.at = "sweep", !.snap = Unrevoked].op = r.op
    BY <1>2 DEF Request
  <2> QED BY <1>3, <1>4, <1>6a, <1>15, <2>1, <2>2 DEF ServeChange, ServeLogoutAll
<1>16. CASE SweepRequest(t)
  <2>1. r.op # "login" /\ UNCHANGED <<auth, stored, flight, rotator>>
    BY <1>1, <1>16 DEF SweepRequest, TabHolds, At, history
  <2>2. [r EXCEPT !.at = "ok", !.snap = {}].snap = {} /\ [r EXCEPT !.at = "ok", !.snap = {}].op = r.op
    BY <1>2 DEF Request
  <2> QED BY <1>3, <1>4, <1>16, <2>1, <2>2 DEF SweepRequest
<1>17. CASE ServeLogout(t)
  <2>1. r.op # "login" /\ UNCHANGED <<auth, stored, flight, rotator>>
    BY <1>17 DEF ServeLogout, At, history
  <2>2. [r EXCEPT !.at = "ok"].snap = r.snap /\ [r EXCEPT !.at = "ok"].op = r.op
    BY <1>2 DEF Request
  <2> QED BY <1>3, <1>4, <1>17, <2>1, <2>2 DEF ServeLogout
<1>18. CASE LoginCheck(t)
  <2>1. \/ Put(t, "action", [r EXCEPT !.at = "bad"])
        \/ Put(t, "action", [r EXCEPT !.at = "issue", !.again = acct.must])
    BY <1>18 DEF LoginCheck
  <2>2. KeepsAction(t)
    BY <1>3, <1>6a, <2>1
  <2> QED BY <1>4, <1>18, <2>2 DEF LoginCheck
<1>19. CASE LoginIssue(t)
  <2>1. UNCHANGED <<auth, stored, flight, rotator>>
    BY <1>19 DEF LoginIssue
  <2>2. CASE Put(t, "action", [r EXCEPT !.at = "bad"])
    BY <1>3, <1>4, <1>6a, <2>1, <2>2
  <2>3. ASSUME NEW n \in Unused, tok' = [tok EXCEPT ![n] = "live"],
               Put(t, "action", [r EXCEPT !.at = "ok", !.tok = n])
        PROVE  TabMove(t)
    <3>1. n \in Issued' \ Issued
      BY <2>3 DEF Unused, Issued, SessionTypeOK
    <3>2. req'[t]["action"] = [r EXCEPT !.at = "ok", !.tok = n]
      BY <2>3 DEF Put, SessionTypeOK, Slots
    <3>3. req'[t]["action"].tok = n /\ req'[t]["action"].at = "ok" /\ req'[t]["action"].snap = r.snap
      BY <1>2, <3>2 DEF Request
    <3> QED BY <2>1, <3>1, <3>3 DEF LearnsLogin, KeepsSession, At
  <2> QED BY <1>19, <2>2, <2>3 DEF LoginIssue
<1>20. ASSUME SignIn(t, None), KeepsAction(t), UNCHANGED <<flight, rotator>>
       PROVE  TabMove(t)
  BY <1>20 DEF SignIn, SetSession, SignsOut, TakesSession, SessionTypeOK
<1>21. CASE LoginAnswered(t)
  <2>1. KeepsAction(t) /\ ~LoginPending(t)' /\ UNCHANGED <<flight, rotator>>
    BY <1>3, <1>21 DEF LoginAnswered, history
  <2>2. CASE r.at = "ok"
    <3>1. LoginPending(t) /\ SignIn(t, Session(r.tok, r.again))
      BY <1>21, <2>2 DEF LoginAnswered, LoginPending, At
    <3>2. auth'[t] = Session(r.tok, r.again) /\ stored' = auth'[t]
      BY <3>1 DEF SignIn, SetSession, SessionTypeOK
    <3> QED BY <2>1, <3>1, <3>2 DEF SignsIn, Session
  <2>3. CASE r.at # "ok"
    BY <1>4, <1>21, <2>1, <2>3 DEF LoginAnswered
  <2> QED BY <2>2, <2>3
<1>22. ASSUME NEW op, NEW anyway \in BOOLEAN, SignOut(t, op, anyway)
       PROVE  TabMove(t)
  BY <1>3, <1>4, <1>20, <1>22 DEF SignOut, history
<1>23. CASE Mutation(t)
  BY <1>2, <1>12, <1>13, <1>15, <1>16, <1>17, <1>18, <1>19, <1>21, <1>22, <1>23
     DEF Mutation, ChangeAnswered, LogoutAllAnswered, LogoutAnswered
<1>24. ASSUME UNCHANGED <<auth, stored, req, rotator>>, f.at # "none",
              flight'[t].at \in {"sweep", "looked", "no"}, flight'[t].old = f.old,
              flight'[t].snap \subseteq f.snap \union Unrevoked
       PROVE  TabMove(t)
  BY <1>3, <1>24 DEF Proceeds, KeepsSession
<1>25. [f EXCEPT !.at = "no"].at = "no" /\ [f EXCEPT !.at = "no"].old = f.old
       /\ [f EXCEPT !.at = "no"].snap = f.snap
  BY <1>2 DEF RefreshCall
<1>26. CASE RefreshLook(t)
  <2>1. PICK x \in { [f EXCEPT !.at = "sweep", !.snap = Unrevoked], [f EXCEPT !.at = "no"],
                     [f EXCEPT !.at = "looked", !.new = Session(0, acct.must)] } :
             flight' = [flight EXCEPT ![t] = x]
    BY <1>26 DEF RefreshLook
  <2>2. x.at \in {"sweep", "looked", "no"} /\ x.old = f.old /\ x.snap \subseteq f.snap \union Unrevoked
    BY <1>2, <1>25 DEF RefreshCall
  <2>3. flight'[t] = x
    BY <2>1 DEF SessionTypeOK
  <2> QED BY <1>24, <1>26, <2>2, <2>3 DEF RefreshLook
<1>27. CASE RefreshRotate(t)
  <2>1. CASE flight' = [flight EXCEPT ![t].at = "no"] /\ UNCHANGED rotator
    <3>1. flight'[t] = [f EXCEPT !.at = "no"]
      BY <2>1 DEF SessionTypeOK
    <3> QED BY <1>24, <1>25, <1>27, <2>1, <3>1 DEF RefreshRotate
  <2>2. ASSUME NEW n \in Unused, tok' = [tok EXCEPT ![f.old] = "revoked", ![n] = "live"],
               flight' = [flight EXCEPT ![t].at = "ok", ![t].new.id = n],
               rotator' = [rotator EXCEPT ![f.old] = t]
        PROVE  TabMove(t)
    <3>1. n \in Issued' \ Issued
      BY <2>2 DEF Unused, Issued, SessionTypeOK
    <3>2. flight'[t] = [f EXCEPT !.at = "ok", !.new.id = n]
      BY <2>2 DEF SessionTypeOK
    <3>3. flight'[t].at = "ok" /\ flight'[t].old = f.old /\ flight'[t].snap = f.snap
      BY <1>2, <3>2 DEF RefreshCall
    <3>4. flight'[t].new.id = n
      BY <1>2, <3>2 DEF RefreshCall, Sessions
    <3>5. KeepsAction(t)
      BY <1>3, <1>27 DEF RefreshRotate
    <3> QED BY <1>27, <2>2, <3>1, <3>3, <3>4, <3>5 DEF RefreshRotate, Rotated, KeepsSession
  <2> QED BY <1>27, <2>1, <2>2 DEF RefreshRotate
<1>28. CASE RefreshSweep(t)
  <2>1. flight'[t] = [f EXCEPT !.at = "no", !.snap = {}]
    BY <1>28 DEF RefreshSweep, SessionTypeOK
  <2>2. flight'[t].at = "no" /\ flight'[t].old = f.old /\ flight'[t].snap = {}
    BY <1>2, <2>1 DEF RefreshCall
  <2> QED BY <1>24, <1>28, <2>2 DEF RefreshSweep, history
<1>29. CASE RefreshDone(t)
  <2>1. req'[t] = Retried(t, f.new.id) /\ flight'[t] = NoFlight /\ TakesSession(t, f.new)
    BY <1>29 DEF RefreshDone, SetSession, TakesSession, SessionTypeOK
  <2>2. req'[t]["action"] = IF r.at = "wait"
                            THEN [r EXCEPT !.at = "sent", !.again = TRUE, !.tok = f.new.id] ELSE r
    BY <1>2, <2>1 DEF Retried
  <2>3. KeepsAction(t)
    <3>1. CASE r.at # "wait"
      BY <1>3, <2>2, <3>1
    <3>2. CASE r.at = "wait"
      <4>1. req'[t]["action"].at = "sent" /\ req'[t]["action"].snap = r.snap
        BY <1>2, <2>2, <3>2 DEF Request
      <4> QED BY <4>1 DEF KeepsAction, LoginPending, At
    <3> QED BY <3>1, <3>2
  <2> QED BY <1>29, <2>1, <2>3 DEF RefreshDone, Finishes, history
<1>30. CASE RefreshFailed(t)
  <2>1. TakesSession(t, None) /\ flight'[t] = NoFlight
    BY <1>30 DEF RefreshFailed, SetSession, TakesSession, SessionTypeOK
  <2>2. req'[t]["action"] = r \/ req'[t]["action"] = Idle
    BY <1>2, <1>30 DEF RefreshFailed, SessionTypeOK
  <2>3. KeepsAction(t)
    BY <1>3, <2>2 DEF KeepsAction, LoginPending, At, Idle
  <2>4. rotator' = rotator \/ rotator' = Forget(t)
    BY <1>30 DEF RefreshFailed, Forget
  <2> QED BY <2>1, <2>3, <2>4 DEF Fails
<1>31. CASE LoseRefresh(t)
  <2>1. flight'[t] = [f EXCEPT !.at = "no"]
    BY <1>31 DEF LoseRefresh, SessionTypeOK
  <2> QED BY <1>24, <1>25, <1>31, <2>1 DEF LoseRefresh
<1>32. ASSUME NEW p \in Slots, Lose(t, p)
       PROVE  TabMove(t)
  BY <1>4, <1>5, <1>20, <1>32 DEF Lose
<1> QED
  BY <1>7, <1>11, <1>14, <1>23, <1>26, <1>27, <1>28, <1>29, <1>30, <1>31, <1>32
     DEF TabStep, Refresh, Network

-----------------------------------------------------------------------------
(* What a tab holds was issued, and none of it was rotated by the tab. *)

\* The administrator touches the rows and no tab.
LEMMA AdminKeepsTabs ==
  ASSUME UNCHANGED vars \/ Admin
  PROVE  UNCHANGED <<auth, stored, req, flight, rotator>>
BY DEF vars, client, history, Admin, Suspend, ResetPassword, RevokeSessions, SweepAdmin, Reactivate

\* A tab's step leaves the administrator's snapshot alone.
LEMMA SweepKept ==
  ASSUME NEW t \in Tabs, TabStep(t)
  PROVE  sweep' = sweep
<1>1. CASE Guards(t) \/ Controls(t)
  BY <1>1 DEF Guards, AuthGuardRedirect, RoleGuardRedirect, Controls, Navigate, Reload,
       LoginSubmit, QueryPage, SecuritySubmit, LogoutAllClick, MenuLogout, MeLogout, Send, server
<1>2. CASE Query(t)
  BY <1>2 DEF Query, Refuse401, Refuse403, ServeRead, Arrive401, QueryAnswered, server
<1>3. CASE Mutation(t)
  BY <1>3 DEF Mutation, Refuse401, ServeChange, ServeLogoutAll, SweepRequest, ServeLogout,
       LoginCheck, LoginIssue, Arrive401, LoginAnswered, ChangeAnswered, LogoutAllAnswered,
       LogoutAnswered, SignOut, server
<1>4. CASE Refresh(t) \/ Network(t)
  BY <1>4 DEF Refresh, RefreshLook, RefreshRotate, RefreshSweep, RefreshDone, RefreshFailed,
       Network, LoseRefresh, Lose, server
<1> QED BY <1>1, <1>2, <1>3, <1>4 DEF TabStep

\* What a tab that does not move holds stays issued.
LEMMA HoldsStill ==
  ASSUME NEW u \in Tabs, TabHolds(u), Issued \subseteq Issued',
         auth'[u] = auth[u], req'[u] = req[u], flight'[u] = flight[u]
  PROVE  TabHolds(u)'
BY DEF TabHolds, LoginPending, At

\* What a tab learns was issued.
LEMMA HoldsOwn ==
  ASSUME SessionTypeOK, HeldInv, NEW t \in Tabs, TabMove(t), Issued \subseteq Issued'
  PROVE  TabHolds(t)' /\ stored'.id \in Issued' \union {0}
<1>1. TabHolds(t) /\ stored.id \in Issued \union {0} /\ Unrevoked \subseteq Issued
  BY DEF HeldInv, Unrevoked, Issued
<1>2. None.id = 0 /\ NoFlight.at = "none" /\ NoFlight.snap = {}
  BY DEF None, Session, NoFlight
<1>3. KeepsAction(t) => /\ req'[t]["action"].snap \subseteq Issued'
                        /\ LoginPending(t)' => req'[t]["action"].tok \in Issued'
                        /\ ~At(t, "action", "login", "sweep")'
  BY <1>1 DEF KeepsAction, TabHolds
<1> USE DEF TabHolds
<1>4. CASE Stays(t)
  BY <1>1, <1>3, <1>4 DEF Stays, KeepsSession
<1>5. CASE Rehydrates(t)
  BY <1>1, <1>2, <1>3, <1>5 DEF Rehydrates
<1>6. CASE LearnsLogin(t)
  BY <1>1, <1>6 DEF LearnsLogin, KeepsSession
<1>7. CASE SignsIn(t)
  BY <1>1, <1>3, <1>7 DEF SignsIn
<1>8. CASE SignsOut(t)
  BY <1>1, <1>2, <1>3, <1>8 DEF SignsOut, TakesSession
<1>9. CASE StartsRefresh(t)
  BY <1>1, <1>3, <1>9 DEF StartsRefresh, KeepsSession
<1>10. CASE Proceeds(t)
  BY <1>1, <1>3, <1>10 DEF Proceeds, KeepsSession
<1>11. CASE Rotated(t)
  BY <1>1, <1>3, <1>11 DEF Rotated, KeepsSession
<1>12. CASE Finishes(t)
  BY <1>1, <1>2, <1>3, <1>12 DEF Finishes, TakesSession
<1>13. CASE Fails(t)
  BY <1>1, <1>2, <1>3, <1>13 DEF Fails, TakesSession
<1> QED
  BY <1>4, <1>5, <1>6, <1>7, <1>8, <1>9, <1>10, <1>11, <1>12, <1>13 DEF TabMove

\* Every step leaves every tab, the entry they share and the snapshots with issued tokens.
LEMMA HeldNext ==
  ASSUME SessionTypeOK, QueryInv, HeldInv, [Next]_vars
  PROVE  HeldInv'
<1>1. Issued \subseteq Issued'
  BY TokensMove, IssuedGrows
<1>2. CASE UNCHANGED vars \/ Admin
  <2>1. sweep' \subseteq Issued
    <3>1. Unrevoked \subseteq Issued
      BY DEF Unrevoked, Issued
    <3> QED
      BY <1>2, <3>1 DEF vars, server, Admin, Suspend, ResetPassword, RevokeSessions,
           SweepAdmin, Reactivate, HeldInv
  <2>2. UNCHANGED <<auth, stored, req, flight>>
    BY <1>2, AdminKeepsTabs
  <2> QED BY <1>1, <2>1, <2>2, HoldsStill DEF HeldInv
<1>3. ASSUME NEW t \in Tabs, TabStep(t)
      PROVE  HeldInv'
  <2>1. TabHolds(t)' /\ stored'.id \in Issued' \union {0}
    BY <1>1, <1>3, TabMoves, HoldsOwn
  <2>2. \A u \in Tabs \ {t} : TabHolds(u)'
    BY <1>1, <1>3, OthersUntouched, HoldsStill DEF HeldInv
  <2>3. sweep' = sweep
    BY <1>3, SweepKept
  <2> QED BY <1>1, <2>1, <2>2, <2>3 DEF HeldInv
<1> QED BY <1>2, <1>3 DEF Next, TabStep

\* A tab rotates the token of its own refresh, and only its own rotations are forgotten
\* with its page.
LEMMA RotatorMoves ==
  ASSUME SessionTypeOK, HeldInv, NEW t \in Tabs, TabMove(t)
  PROVE  /\ \A n \in Tokens \ Issued : rotator[n] = "nobody" => rotator'[n] = "nobody"
         /\ \A u \in Tabs \ {t}, n \in Tokens : rotator'[n] = u => rotator[n] = u
<1>1. CASE UNCHANGED rotator
  BY <1>1
<1>2. CASE rotator' = Forget(t)
  BY <1>2, SessionAssumption DEF Forget, SessionTypeOK
<1>3. CASE Rotated(t)
  BY <1>3 DEF Rotated, SessionTypeOK, HeldInv, TabHolds
<1> QED
  BY <1>1, <1>2, <1>3 DEF TabMove, Stays, Rehydrates, LearnsLogin, SignsIn, SignsOut,
       StartsRefresh, Proceeds, Finishes, Fails

\* What a tab that does not move holds stays fresh.
LEMMA FreshStill ==
  ASSUME SessionTypeOK, NEW u \in Tabs, TabHolds(u), TabIsFresh(u),
         \A n \in Tokens : rotator'[n] = u => rotator[n] = u,
         auth'[u] = auth[u], req'[u] = req[u], flight'[u] = flight[u]
  PROVE  TabIsFresh(u)'
<1>1. Issued \subseteq Tokens
  BY DEF Issued
<1>2. auth[u].id \in Tokens \union {0}
  BY <1>1 DEF TabHolds
<1>3. flight[u].at # "none" => flight[u].old \in Tokens
  BY <1>1 DEF TabHolds
<1>4. flight[u].at = "ok" => flight[u].new.id \in Tokens
  BY <1>1 DEF TabHolds
<1>5. LoginPending(u) => req[u]["action"].tok \in Tokens
  BY <1>1 DEF TabHolds
<1>6. LoginPending(u)' = LoginPending(u)
  BY DEF LoginPending, At
<1> QED BY <1>2, <1>3, <1>4, <1>5, <1>6 DEF TabIsFresh

\* What a tab learns it has not rotated.
LEMMA FreshOwn ==
  ASSUME SessionTypeOK, HeldInv, ReuseInv, NEW t \in Tabs, TabMove(t)
  PROVE  TabIsFresh(t)'
<1> DEFINE p == req[t]["action"].tok
<1> DEFINE q == req'[t]["action"].tok
<1>1. TabHolds(t) /\ TabIsFresh(t)
  BY DEF HeldInv, ReuseInv
<1>2. \A n \in Issued' \ Issued : n \in Tokens /\ n # 0 /\ rotator[n] # t
  BY SessionAssumption, TokenIds DEF Issued, ReuseInv
<1>3. Issued \subseteq Tokens /\ 0 \notin Issued
  BY TokenIds DEF Issued
<1>4. /\ auth[t].id \in Issued \union {0}
      /\ flight[t].at # "none" => flight[t].old \in Issued
      /\ flight[t].at = "ok" => flight[t].new.id \in Issued
      /\ LoginPending(t) => p \in Issued
  BY <1>1 DEF TabHolds
<1>5. \A n \in Tokens : Forget(t)[n] # t
  BY SessionAssumption DEF Forget
<1>6. None.id = 0 /\ NoFlight.at = "none"
  BY DEF None, Session, NoFlight
<1>7. KeepsAction(t) => (LoginPending(t)' => LoginPending(t) /\ q = p)
  BY DEF KeepsAction
<1>8. CASE Stays(t)
  BY <1>1, <1>7, <1>8 DEF Stays, KeepsSession, TabIsFresh
<1>9. CASE Rehydrates(t)
  <2>1. auth'[t].id # 0 => auth'[t].id \in Tokens
    BY <1>3, <1>9 DEF Rehydrates, HeldInv
  <2> QED BY <1>5, <1>6, <1>9, <2>1 DEF Rehydrates, TabIsFresh
<1>10. CASE LearnsLogin(t)
  <2>1. q \in Tokens /\ q # 0 /\ rotator[q] # t /\ q \notin Issued
    BY <1>2, <1>10 DEF LearnsLogin
  <2> QED BY <1>1, <1>4, <1>10, <2>1 DEF LearnsLogin, KeepsSession, TabIsFresh
<1>11. CASE SignsIn(t)
  BY <1>1, <1>11 DEF SignsIn, TabIsFresh
<1>12. CASE SignsOut(t)
  BY <1>1, <1>3, <1>4, <1>6, <1>7, <1>12 DEF SignsOut, TakesSession, TabIsFresh
<1>13. CASE StartsRefresh(t)
  BY <1>1, <1>7, <1>13 DEF StartsRefresh, KeepsSession, TabIsFresh
<1>14. CASE Proceeds(t)
  BY <1>1, <1>7, <1>14 DEF Proceeds, KeepsSession, TabIsFresh
<1>15. CASE Rotated(t)
  <2> DEFINE n == flight'[t].new.id
  <2> DEFINE o == flight[t].old
  <2>1. n \in Issued' \ Issued /\ o \in Issued /\ rotator' = [rotator EXCEPT ![o] = t]
    BY <1>4, <1>15 DEF Rotated
  <2>2. \A m \in Tokens \ {o} : rotator'[m] = rotator[m]
    BY <2>1 DEF SessionTypeOK
  <2>3. rotator'[n] # t
    BY <1>2, <2>1, <2>2
  <2>4. flight'[t].at = "ok" /\ flight[t].at # "none" /\ auth'[t] = auth[t] /\ flight'[t].old = o
    BY <1>15 DEF Rotated, KeepsSession
  <2>5. ASSUME LoginPending(t)'
        PROVE  LoginPending(t) /\ q = p /\ p \in Issued /\ p # o /\ p # auth[t].id /\ rotator[p] # t
    BY <1>1, <1>4, <1>7, <1>15, <2>4, <2>5 DEF Rotated, TabIsFresh
  <2>6. ASSUME LoginPending(t)'
        PROVE  rotator'[q] # t /\ q # auth'[t].id /\ q # flight'[t].old /\ q # n
    BY <1>3, <2>1, <2>2, <2>4, <2>5, <2>6
  <2> QED BY <2>3, <2>4, <2>6 DEF TabIsFresh
<1>16. CASE Finishes(t)
  BY <1>1, <1>4, <1>6, <1>7, <1>16 DEF Finishes, TakesSession, TabIsFresh
<1>17. CASE Fails(t)
  <2>1. \A n \in Tokens : rotator[n] # t => rotator'[n] # t
    BY <1>5, <1>17 DEF Fails
  <2> QED BY <1>1, <1>3, <1>4, <1>6, <1>7, <1>17, <2>1 DEF Fails, TakesSession, TabIsFresh
<1> QED
  BY <1>8, <1>9, <1>10, <1>11, <1>12, <1>13, <1>14, <1>15, <1>16, <1>17 DEF TabMove

\* Every step leaves every tab with tokens it has not rotated.
LEMMA ReuseNext ==
  ASSUME SessionTypeOK, QueryInv, HeldInv, ReuseInv, [Next]_vars
  PROVE  ReuseInv'
<1>1. Issued \subseteq Issued' /\ Tokens' = Tokens
  BY TokensMove, IssuedGrows DEF Tokens
<1>2. CASE UNCHANGED vars \/ Admin
  <2>1. UNCHANGED <<auth, req, flight, rotator>>
    BY <1>2, AdminKeepsTabs
  <2>2. \A u \in Tabs : TabIsFresh(u)'
    BY <2>1, FreshStill DEF HeldInv, ReuseInv
  <2> QED BY <1>1, <2>1, <2>2 DEF ReuseInv
<1>3. ASSUME NEW t \in Tabs, TabStep(t)
      PROVE  ReuseInv'
  <2>1. TabMove(t)
    BY <1>3, TabMoves
  <2>2. TabIsFresh(t)'
    BY <2>1, FreshOwn
  <2>3. \A u \in Tabs \ {t} : TabIsFresh(u)'
    BY <1>3, <2>1, OthersUntouched, RotatorMoves, FreshStill DEF HeldInv, ReuseInv
  <2>4. \A n \in Tokens \ Issued' : rotator'[n] = "nobody"
    BY <1>1, <2>1, RotatorMoves DEF ReuseInv
  <2> QED BY <1>1, <2>2, <2>3, <2>4 DEF ReuseInv
<1> QED BY <1>2, <1>3 DEF Next, TabStep

-----------------------------------------------------------------------------
(* The theorems. *)

\* A browser with the session of an earlier visit, or none, starts in the invariant.
LEMMA InitInv == Init => SessionInv
<1> SUFFICES ASSUME Init PROVE SessionInv
  OBVIOUS
<1>1. PICK n \in {0, 1} :
        LET s == IF n = 0 THEN None ELSE Session(1, acct.must)
            open == {t \in Tabs : habit.opens[t] # {}} IN
        /\ stored = s
        /\ auth = [t \in Tabs |-> IF t \in open THEN s ELSE None]
        /\ page = [t \in Tabs |-> IF n = 1 /\ t \in open THEN "home" ELSE "login"]
        /\ tok = [m \in Tokens |-> IF m = n THEN "live" ELSE "unissued"]
        /\ family = [m \in Tokens |-> IF m = n THEN 1 ELSE 0]
  BY DEF Init
<1>2. 0 \in 0..MaxToken /\ 1 \in 0..MaxToken /\ 1 \in Tokens /\ 0 \in 0..MaxEvents /\ 0 \in Nat
  BY SessionAssumption DEF Tokens
<1>3. acct \in Account /\ acct.fails = 0 /\ acct.must \in BOOLEAN
  BY <1>2 DEF Init, Account
<1>4. stored \in Sessions /\ \A t \in Tabs : auth[t] \in {stored, None}
  BY <1>1, <1>2, <1>3, Blanks DEF Session, Sessions
<1>5. stored.id = n /\ None.id = 0
  BY <1>1 DEF Session, None
<1>6. Issued = {n} \ {0} /\ Unrevoked = {n} \ {0}
  BY <1>1, <1>2, TokenIds DEF Issued, Unrevoked
<1>7. \A t \in Tabs : flight[t] = NoFlight /\ req[t]["query"] = Idle /\ req[t]["action"] = Idle
  BY DEF Init, Slots
<1>8. SessionTypeOK
  <2>1. /\ auth \in [Tabs -> Sessions] /\ page \in [Tabs -> Pages]
        /\ tok \in [Tokens -> {"unissued", "live", "lapsed", "revoked"}]
        /\ family \in [Tokens -> 0..MaxToken]
    BY <1>1, <1>2, <1>4, Blanks DEF Pages
  <2>2. acct.fails <= events /\ events \in 0..MaxEvents
    BY <1>2, <1>3 DEF Init
  <2> QED BY <1>3, <1>4, <2>1, <2>2, Blanks DEF SessionTypeOK, Init, Cached
<1>9. QueryInv /\ WaitersHaveRefresh
  BY <1>7 DEF QueryInv, WaitersHaveRefresh, Init, Idle, Slots
<1>10. \A t \in Tabs : auth[t].id \in Issued \union {0}
  BY <1>4, <1>5, <1>6
<1>11. HeldInv
  <2>1. Idle.at = "idle" /\ Idle.snap = {} /\ NoFlight.at = "none" /\ NoFlight.snap = {}
    BY DEF Idle, NoFlight
  <2>2. \A t \in Tabs : TabHolds(t)
    BY <1>7, <1>10, <2>1 DEF TabHolds, LoginPending, At
  <2>3. stored.id \in Issued \union {0} /\ sweep = {}
    BY <1>5, <1>6 DEF Init
  <2> QED BY <2>2, <2>3 DEF HeldInv
<1>12. FamilyInv
  BY <1>1, <1>2, <1>6 DEF FamilyInv
<1>13. ReuseInv
  <2>1. \A m \in Tokens, t \in Tabs : rotator[m] = "nobody" /\ rotator[m] # t
    BY SessionAssumption DEF Init
  <2>2. \A t \in Tabs : auth[t].id # 0 => auth[t].id \in Tokens
    BY <1>10 DEF Issued
  <2>3. Idle.at = "idle" /\ NoFlight.at = "none"
    BY DEF Idle, NoFlight
  <2>4. \A t \in Tabs : TabIsFresh(t)
    BY <1>7, <2>1, <2>2, <2>3 DEF TabIsFresh, LoginPending, At
  <2>5. \A m \in Tokens \ Issued : rotator[m] = "nobody"
    BY <2>1, SessionAssumption
  <2> QED BY <2>4, <2>5 DEF ReuseInv
<1> QED BY <1>8, <1>9, <1>11, <1>12, <1>13 DEF SessionInv

\* Every step keeps the invariant.
LEMMA NextInv == SessionInv /\ [Next]_vars => SessionInv'
<1> SUFFICES ASSUME SessionInv, [Next]_vars PROVE SessionInv'
  OBVIOUS
<1>1. SessionTypeOK /\ QueryInv /\ HeldInv /\ FamilyInv /\ WaitersHaveRefresh /\ ReuseInv
  BY DEF SessionInv
<1> QED
  BY <1>1, TypeNext, HeldNext, TokensMove, FamilyNext, WaitersNext, ReuseNext DEF SessionInv

\* The invariant of the session: the types, the families of tokens, that whatever a tab
\* or the service is about to use was issued, and that a tab holds no token it rotated.
THEOREM SessionInvariant == Spec => []SessionInv
BY InitInv, NextInv, PTL DEF Spec

\* RotateRefresh gives a login one live refresh token at a time, for every number of
\* tabs that refresh and every revocation between its statements.
THEOREM OneTokenPerLogin == Spec => []OneLiveTokenPerLogin
<1>1. SessionInv => OneLiveTokenPerLogin
  BY DEF SessionInv, FamilyInv, OneLiveTokenPerLogin, Live, Unrevoked
<1> QED BY <1>1, SessionInvariant, PTL

\* refreshInFlight keeps a tab from presenting a refresh token it has rotated itself.
THEOREM NeverReused == Spec => []NoSelfReuse
<1>1. SessionInv => NoSelfReuse
  BY DEF SessionInv, ReuseInv, TabIsFresh, NoSelfReuse
<1> QED BY <1>1, SessionInvariant, PTL

\* A request that awaits the tab's refresh has a refresh to wait for.
THEOREM WaitersServed == Spec => []WaitersHaveRefresh
<1>1. SessionInv => WaitersHaveRefresh
  BY DEF SessionInv
<1> QED BY <1>1, SessionInvariant, PTL
=============================================================================
