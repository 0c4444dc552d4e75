----------------------------- MODULE PagedList -----------------------------
(***************************************************************************)
(* The list pages: rows of the service a page at a time, under a filter    *)
(* that is chosen or typed, typed text taking effect after a pause.  What  *)
(* is shown is the cached answer of the query key, filter and page, or     *)
(* while that loads the last list seen (keepPreviousData).  The pages      *)
(* differ in a few choices, a record for each page's filter card and one   *)
(* for its pager; answers of different keys overtake each other.           *)
(***************************************************************************)
EXTENDS Browser

CONSTANT MaxPage  \* bound: pages of rows the service has under one filter

ASSUME ListAssumption == MaxPage \in Nat \ {0}

Filters == {"all", "few"}
PageKeys == Filters \X (1..MaxPage + 1)
Unseen == MaxPage + 1            \* no answer for a key; the others are page counts

\* text: when what is typed becomes the filter; choice: a filter picked at once.
Filter(text, choice) == [text |-> text, choice |-> choice]
UsersFilter        == Filter("pause", TRUE)
AttemptsFilter     == Filter("pause", TRUE)
AuditFilter        == Filter("pause", TRUE)
SchoolsFilter      == Filter("pause", FALSE)
BankFilter         == Filter("enter", TRUE)
ClassesFilter      == Filter("none", TRUE)
AdminClassesFilter == Filter("none", TRUE)
ClassAuditFilter   == Filter("none", TRUE)
NoFilter           == Filter("none", FALSE)

\* keeps: the last list stands in for one that loads; prev, next: what the buttons
\* wait for; hidden: when there are none; own: the page changes rows itself;
\* refresh: "Refresh" or "Coba lagi"; alone: an error takes the whole page.
UsersPager == [keeps |-> TRUE, prev |-> "fetch", next |-> "nothing", hidden |-> "never",
               own |-> FALSE, refresh |-> FALSE, alone |-> FALSE]
AttemptsPager     == UsersPager
AuditPager        == UsersPager
UserAuditPager    == UsersPager
UserLoginsPager   == UsersPager
SchoolsPager      == [UsersPager EXCEPT !.prev = "nothing", !.own = TRUE]
ClassesPager      == [UsersPager EXCEPT !.own = TRUE, !.refresh = TRUE]
AdminClassesPager == [UsersPager EXCEPT !.own = TRUE, !.refresh = TRUE]
BankPager         == [UsersPager EXCEPT !.keeps = FALSE, !.next = "fetch", !.hidden = "empty",
                                        !.own = TRUE]
ClassAuditPager   == [UsersPager EXCEPT !.keeps = FALSE, !.prev = "data", !.next = "data",
                                        !.alone = TRUE]
StudentsPager     == [UsersPager EXCEPT !.next = "fetch", !.hidden = "single",
                                        !.refresh = TRUE, !.alone = TRUE]

ListPages ==
  {<<UsersFilter, UsersPager>>, <<AttemptsFilter, AttemptsPager>>, <<AuditFilter, AuditPager>>,
   <<SchoolsFilter, SchoolsPager>>, <<ClassesFilter, ClassesPager>>,
   <<AdminClassesFilter, AdminClassesPager>>, <<BankFilter, BankPager>>,
   <<ClassAuditFilter, ClassAuditPager>>, <<NoFilter, UserAuditPager>>,
   <<NoFilter, UserLoginsPager>>, <<NoFilter, StudentsPager>>}

Pages == {n \in [Filters -> 0..MaxPage] : n["few"] <= n["all"]}

\* typed is the text in the field, filter and page make the key, prev is the key
\* last seen with data.
InitList ==
  \E p \in ListPages, n \in Pages :
    /\ ui = [screen |-> "list", form |-> p[1], pager |-> p[2], typed |-> "all", timer |-> FALSE,
             filter |-> "all", page |-> 1, prev |-> <<"all", 1>>, failed |-> {},
             cache |-> [k \in PageKeys |-> Unseen]]
    /\ net = {<<"all", 1>>}
    /\ srv = n
    /\ past = [events |-> 0, fewer |-> FALSE]

InList == ui.screen = "list"
Key == <<ui.filter, ui.page>>
Fetching == Key \in net
Failed == Key \in ui.failed
Observed == IF ui.cache[Key] # Unseen \/ Failed \/ ~ui.pager.keeps THEN ui.cache[Key]
            ELSE ui.cache[ui.prev]
PagerFree(what) == CASE what = "fetch" -> ~Fetching
                 [] what = "data"  -> Observed # Unseen \/ Failed
                 [] what = "nothing" -> TRUE

\* A key that has no answer is read, one that has may be fresh enough.
Reads(k) == IF ui.cache[k] = Unseen THEN {{k}} ELSE {{}, {k}}
Show(filter, page, typed, timer, beside) ==
  /\ \E read \in Reads(<<filter, page>>) :
       /\ net' = net \union read \union beside
       /\ ui' = [ui EXCEPT !.typed = typed, !.timer = timer, !.filter = filter, !.page = page,
                           !.prev = IF ui.cache[Key] = Unseen THEN @ ELSE Key,
                           !.failed = @ \ {k \in read \union beside : ui.cache[k] = Unseen}]
  /\ UNCHANGED <<srv, past>>

-----------------------------------------------------------------------------
(* The controls. *)

Controls == InList /\ (ui.pager.alone => ~Failed)

\* Typing restarts the pause; the topic of the question bank waits for Enter.
Type(text) ==
  /\ Controls /\ ui.form.text # "none" /\ text # ui.typed
  /\ ui' = [ui EXCEPT !.typed = text, !.timer = TRUE]
  /\ UNCHANGED <<net, srv, past>>

\* The filter changes first, which reads its key with the old page, and the effect
\* turns to the first page.
Refilter(filter) ==
  Show(filter, 1, filter, FALSE,
       IF ui.cache[<<filter, ui.page>>] = Unseen THEN {<<filter, ui.page>>} ELSE {})
TypedSettles ==
  /\ Controls /\ ui.timer
  /\ IF ui.typed = ui.filter
     THEN ui' = [ui EXCEPT !.timer = FALSE] /\ UNCHANGED <<net, srv, past>>
     ELSE Refilter(ui.typed)
Choose(filter) ==
  /\ Controls /\ ui.form.choice /\ ~ui.timer /\ filter # ui.filter
  /\ Refilter(filter)

\* "Reset": the first page at once, the filter after the pause.
ResetFilters ==
  /\ Controls /\ ui.form = UsersFilter /\ ui.typed # "all"
  /\ Show(ui.filter, 1, "all", TRUE, {})

PagerShown ==
  CASE ui.pager.hidden = "never"  -> TRUE
    [] ui.pager.hidden = "empty"  -> Observed \in 1..MaxPage
    [] ui.pager.hidden = "single" -> Observed \in 2..MaxPage
PrevOffered == Controls /\ PagerShown /\ ui.page > 1 /\ PagerFree(ui.pager.prev)
\* Mutant: the number of pages is no bound.
NextOfferedAlways == Controls /\ PagerShown /\ Observed # Unseen /\ PagerFree(ui.pager.next)

NextOffered ==
  /\ Controls /\ PagerShown
  /\ Observed # Unseen /\ ui.page < Observed
  /\ PagerFree(ui.pager.next)
PrevPage == PrevOffered /\ Show(ui.filter, ui.page - 1, ui.typed, ui.timer, {})
NextPage == NextOffered /\ Show(ui.filter, ui.page + 1, ui.typed, ui.timer, {})

RefreshPage ==
  /\ InList /\ ui.pager.refresh /\ ~Fetching
  /\ net' = net \union {Key}
  /\ ui' = [ui EXCEPT !.failed = IF ui.cache[Key] = Unseen THEN @ \ {Key} ELSE @]
  /\ UNCHANGED <<srv, past>>

-----------------------------------------------------------------------------
(* The answers, and the rows. *)

PageArrives(k) ==
  /\ InList /\ k \in net
  /\ ui' = [ui EXCEPT !.cache[k] = srv[k[1]], !.failed = @ \ {k}]
  /\ net' = net \ {k}
  /\ UNCHANGED <<srv, past>>

PageFails(k) ==
  /\ InList /\ k \in net /\ Spend
  /\ ui' = [ui EXCEPT !.failed = @ \union {k}]
  /\ net' = net \ {k}
  /\ UNCHANGED srv

RowsChange(n) ==
  /\ past.events < MaxEvents /\ srv' = n
  /\ past' = [past EXCEPT !.events = @ + 1,
                          !.fewer = @ \/ \E f \in Filters : n[f] < srv[f]]
\* Others add and remove rows, unseen until the key is read again.
OthersChange == /\ InList /\ \E n \in Pages \ {srv} : RowsChange(n)
                /\ UNCHANGED <<ui, net>>
\* The page's own dialogs do, and what it shows is read again.
OwnChange == /\ InList /\ ui.pager.own /\ \E n \in Pages \ {srv} : RowsChange(n)
             /\ net' = net \union {Key}
             /\ UNCHANGED ui

NextList ==
  \/ \E f \in Filters : Type(f) \/ Choose(f)
  \/ TypedSettles \/ ResetFilters \/ PrevPage \/ NextPage \/ RefreshPage
  \/ \E k \in PageKeys : PageArrives(k) \/ PageFails(k)
  \/ OthersChange \/ OwnChange

-----------------------------------------------------------------------------
(* Properties. *)

\* Filters, pages and cached answers hold what the code's types allow.
ListScreen ==
  [screen : {"list"}, form : {p[1] : p \in ListPages}, pager : {p[2] : p \in ListPages},
   typed : Filters, timer : BOOLEAN, filter : Filters, page : 1..MaxPage + 1,
   prev : PageKeys, failed : SUBSET PageKeys, cache : [PageKeys -> 0..Unseen]]
ListPast == [events : Nat, fewer : BOOLEAN]
ListType ==
  /\ ui \in ListScreen /\ <<ui.form, ui.pager>> \in ListPages
  /\ net \subseteq PageKeys /\ srv \in Pages /\ past \in ListPast
ListTypeOK == InList => ListType

\* Once the pause is over and nothing loads, the rows are an answer to the filter
\* in the field and the page in the pager, not the list kept from another key: the
\* answers of keys left behind never show.
RowsFitFilter ==
  InList /\ ~ui.timer /\ ~Fetching /\ ~Failed =>
    ui.filter = ui.typed /\ ui.cache[Key] # Unseen

\* A pager that waits for its answer never turns past the last page of its filter,
\* as long as no row goes away.
PageExists ==
  InList /\ ui.pager.next # "nothing" /\ ~past.fewer =>
    ui.page = 1 \/ ui.page <= srv[ui.filter]

\* Whoever is left on an empty page behind the last, because rows went, has a way
\* back, but for the list of students (below).
WayBack == InList /\ ui.cache[Key] \in 1..MaxPage /\ ui.page > ui.cache[Key] /\ ~Fetching =>
             Failed \/ PrevOffered
NotStranded == InList /\ ui.pager.hidden # "single" => WayBack

\* The page holds: its rows fit the filter, it exists, and where it no longer does
\* there is a way back (the list pages).
PageHolds == RowsFitFilter /\ PageExists /\ NotStranded

-----------------------------------------------------------------------------
(* The inductive invariant of the proofs.                                  *)

SpecList == InitList /\ [][NextList]_browser

\* Only a running pause keeps the field apart from the filter.
PauseInv == ~ui.timer => ui.typed = ui.filter

\* The key of the page has its answer, waits for it or has failed.
KeyInv == ui.cache[Key] # Unseen \/ Fetching \/ Failed

\* While no row goes away no cached answer counts a page that is not there, and the
\* pagers that wait stay on one that is.
CountsInv ==
  ~past.fewer =>
    /\ \A k \in PageKeys : ui.cache[k] # Unseen => ui.cache[k] <= srv[k[1]]
    /\ ui.pager.next # "nothing" => ui.page = 1 \/ ui.page <= srv[ui.filter]

ListInv == ListType /\ PauseInv /\ KeyInv /\ CountsInv
=============================================================================
