--------------------------- MODULE BrowserProofs ---------------------------
EXTENDS Browser, TLAPS

(* What a view sends and paints, whoever calls it. *)
LEMMA ViewTypes ==
    ASSUME TypeOK, NEW route \in Routes, NEW of \in Account, NEW refresh \in BOOLEAN,
           View(route, of, refresh)
    PROVE  sent' \in Nat /\ fetches' \subseteq Fetch /\ shown' \in Painted /\ uncaught' \in BOOLEAN
<1>1. sent \in Nat /\ sent + 1 \in Nat /\ acct \in Account /\ None \in Account
  BY DEF TypeOK, Account
<1>2. [n |-> sent + 1, route |-> route, of |-> of, as |-> acct, refresh |-> refresh,
       served |-> FALSE, card |-> "absent"] \in Fetch
  BY <1>1 DEF Fetch, Face
<1>3. Screen("loading", sent + 1, route, of, None, "absent") \in Painted
  BY <1>1 DEF Painted, Screen, Face
<1>4. fetches \subseteq Fetch
  BY DEF TypeOK
<1>5. QED
  BY <1>1, <1>2, <1>3, <1>4 DEF View

(* route() starts a view, unless it throws before there is one. *)
LEMMA RouteViews ==
    ASSUME NEW route \in Routes, NEW who \in Account, Route(route, who)
    PROVE  \/ \E of \in Account : View(route, of, FALSE)
           \/ who = None /\ UNCHANGED <<shown, fetches, sent, uncaught>>
<1>1. None \in Account
  BY DEF Account
<1>2. CASE route # "me"
  BY <1>1, <1>2 DEF Route
<1>3. CASE route = "me" /\ who # None
  BY <1>3 DEF Route
<1>4. CASE route = "me" /\ who = None
  BY <1>4 DEF Route
<1>5. QED
  BY <1>2, <1>3, <1>4

LEMMA RouteTypes ==
    ASSUME TypeOK, NEW route \in Routes, NEW who \in Account, Route(route, who)
    PROVE  sent' \in Nat /\ fetches' \subseteq Fetch /\ shown' \in Painted /\ uncaught' \in BOOLEAN
<1>1. ASSUME NEW of \in Account, View(route, of, FALSE)
      PROVE  /\ sent' \in Nat /\ fetches' \subseteq Fetch
             /\ shown' \in Painted /\ uncaught' \in BOOLEAN
  BY <1>1, ViewTypes
<1>2. QED
  BY <1>1, RouteViews DEF TypeOK

LEMMA SettleTypes ==
    ASSUME TypeOK, NEW f \in fetches, NEW caught \in BOOLEAN, Settle(f, caught)
    PROVE  /\ shown' \in Painted /\ uncaught' \in BOOLEAN
           /\ fetches' \subseteq Fetch
<1>1. f \in Fetch /\ fetches \subseteq Fetch /\ shown \in Painted /\ uncaught \in BOOLEAN
  BY DEF TypeOK
<1>2. f.n \in Nat /\ Screen("error", f.n, f.route, f.of, f.as, "absent") \in Painted
  BY <1>1 DEF Fetch, Painted, Screen, Face
<1>3. fetches' \subseteq Fetch
  BY <1>1 DEF Settle, Done
<1>4. shown' \in Painted /\ uncaught' \in BOOLEAN
  BY <1>1, <1>2 DEF Settle
<1>5. QED
  BY <1>3, <1>4

LEMMA NextType ==
    ASSUME TypeOK, [Next]_vars
    PROVE  TypeOK'
<1> USE BrowserAssumption DEF session, router, server, like
<1>1. ASSUME NEW r \in Routes, Navigate(r) PROVE TypeOK'
  <2>1. acts' \in 0..MaxActs
    BY <1>1 DEF Navigate, Act, TypeOK
  <2>2. /\ sent' \in Nat /\ fetches' \subseteq Fetch
        /\ shown' \in Painted /\ uncaught' \in BOOLEAN
    <3>1. me \in Account /\ Route(r, me)
      BY <1>1 DEF Navigate, TypeOK
    <3>2. QED
      BY <3>1, RouteTypes
  <2>3. hash' \in Routes
    BY <1>1 DEF Navigate
  <2>4. QED
    BY <1>1, <2>1, <2>2, <2>3 DEF Navigate, TypeOK
<1>2. ASSUME NEW f \in fetches, Serve(f) PROVE TypeOK'
  <2>1. f \in Fetch /\ f.as \in Accounts
    BY <1>2 DEF Serve, TypeOK, Fetch, Account
  <2>2. Seen(f.as) \in Face
    BY DEF Seen, Face
  <2> DEFINE card == CASE f.route \in {"explore", "me"} -> "absent"
                       [] f.route = "thread"  -> Seen(f.as)
                       [] f.route = "home"    -> IF cached[f.as] # None THEN cached[f.as]
                                                 ELSE Seen(f.as)
  <2>3. card \in Face
    BY <2>1, <2>2 DEF TypeOK, Fetch, Routes, Face
  <2>4. [f EXCEPT !.served = TRUE, !.card = card] \in Fetch
    BY <2>1, <2>3 DEF Fetch
  <2>5. fetches' \subseteq Fetch
    BY <1>2, <2>4 DEF Serve, TypeOK
  <2>6. cached' \in [Accounts -> Face \cup {None}]
    BY <1>2, <2>3 DEF Serve, TypeOK
  <2>7. QED
    BY <1>2, <2>5, <2>6 DEF Serve, TypeOK
<1>3. ASSUME NEW f \in fetches, Paint(f) PROVE TypeOK'
  BY <1>3 DEF Paint, Done, Screen, TypeOK, Painted, Fetch
<1>4. ASSUME NEW f \in fetches, FetchFails(f) PROVE TypeOK'
  BY <1>4, SettleTypes DEF FetchFails, Settle, Done, TypeOK
<1>5. ASSUME NEW f \in fetches, PaintThrows(f) PROVE TypeOK'
  BY <1>5, SettleTypes DEF PaintThrows, Settle, Done, TypeOK
<1>6. ASSUME NEW a \in Accounts, AskLogIn(a) PROVE TypeOK'
  BY <1>6 DEF AskLogIn, Act, TypeOK, Account
<1>7. ASSUME LoggedIn PROVE TypeOK'
  BY <1>7 DEF LoggedIn, TypeOK, Account
<1>8. ASSUME LogInFails PROVE TypeOK'
  BY <1>8 DEF LogInFails, TypeOK, Account
<1>9. ASSUME NEW b \in boots, Boot(b) PROVE TypeOK'
  <2>1. b.as \in Account /\ hash \in Routes /\ Route(hash, b.as)
    BY <1>9 DEF Boot, TypeOK
  <2>2. QED
    BY <1>9, <2>1, RouteTypes DEF Boot, TypeOK
<1>10. ASSUME NEW b \in boots, BootFails(b) PROVE TypeOK'
  BY <1>10 DEF BootFails, TypeOK
<1>11. ASSUME LogOut PROVE TypeOK'
  <2>1. acts' \in 0..MaxActs
    BY <1>11 DEF LogOut, Act, TypeOK
  <2>2. acct' \in Account /\ me' \in Account
    BY <1>11 DEF LogOut, TypeOK, Account
  <2>3. app' \in BOOLEAN
    BY <1>11 DEF LogOut
  <2>4. QED
    BY <1>11, <2>1, <2>2, <2>3 DEF LogOut, TypeOK
<1>12. ASSUME SessionEnds PROVE TypeOK'
  BY <1>12 DEF SessionEnds, TypeOK, Account
<1>13. ASSUME Submit PROVE TypeOK'
  BY <1>13 DEF Submit, Act, TypeOK, Painted
<1>14. ASSUME NEW s \in submits, Refresh(s) PROVE TypeOK'
  <2>1. s.route \in Routes /\ s.of \in Account
    BY <1>14 DEF TypeOK, Editable
  <2>2. QED
    BY <1>14, <2>1, ViewTypes DEF Refresh, TypeOK
<1>15. ASSUME NEW s \in submits, SubmitFails(s) PROVE TypeOK'
  BY <1>15 DEF SubmitFails, TypeOK
<1>16. ASSUME Click PROVE TypeOK'
  <2>1. shown' \in Painted
    BY <1>16 DEF Click, TypeOK, Painted
  <2>2. acts + 1 \in Nat /\ acct \in Accounts /\ shown.n \in Nat
    BY <1>16 DEF Click, TypeOK, Painted, Account
  <2>3. [n |-> acts + 1, on_page |-> shown.n, as |-> acct, on |-> shown.card = "off",
         stage |-> "write", card |-> "absent", heard |-> TRUE] \in Like
    BY <2>2 DEF Like, Face
  <2>4. clicks' \subseteq Like
    BY <1>16, <2>3 DEF Click, TypeOK
  <2>5. QED
    BY <1>16, <2>1, <2>4 DEF Click, Act, TypeOK, Account
<1>17. ASSUME NEW l \in clicks, WriteLike(l) PROVE TypeOK'
  BY <1>17 DEF WriteLike, Becomes, TypeOK, Like
<1>18. ASSUME NEW l \in clicks, ReloadPost(l) PROVE TypeOK'
  BY <1>18 DEF ReloadPost, Becomes, Seen, TypeOK, Like, Face
<1>19. ASSUME NEW l \in clicks, LikeArrives(l) PROVE TypeOK'
  BY <1>19 DEF LikeArrives, Over, OnScreen, TypeOK, Like, Painted, Account
<1>20. ASSUME NEW l \in clicks, LikeLost(l) PROVE TypeOK'
  BY <1>20 DEF LikeLost, Becomes, TypeOK, Like
<1>21. ASSUME NEW l \in clicks, LikeFails(l) PROVE TypeOK'
  BY <1>21 DEF LikeFails, Over, TypeOK, Like
<1>22. ASSUME DeletePost PROVE TypeOK'
  BY <1>22 DEF DeletePost, TypeOK
<1>23. ASSUME NEW a \in Accounts, ExpireTimeline(a) PROVE TypeOK'
  BY <1>23 DEF ExpireTimeline, TypeOK
<1>24. ASSUME EditProfile PROVE TypeOK'
  BY <1>24 DEF EditProfile, Act, TypeOK
<1>25. ASSUME NEW x \in edits, Edited(x) PROVE TypeOK'
  <2>1. x.as \in Account /\ hash \in Routes /\ Route(hash, x.as)
    BY <1>25 DEF Edited, TypeOK
  <2>2. QED
    BY <1>25, <2>1, RouteTypes DEF Edited, TypeOK
<1>26. ASSUME NEW x \in edits, EditFails(x) PROVE TypeOK'
  BY <1>26 DEF EditFails, TypeOK
<1>27. CASE UNCHANGED vars
  BY <1>27 DEF vars, TypeOK
<1>28. QED
  BY <1>1, <1>2, <1>3, <1>4, <1>5, <1>6, <1>7, <1>8, <1>9, <1>10, <1>11, <1>12,
     <1>13, <1>14, <1>15, <1>16, <1>17, <1>18, <1>19, <1>20, <1>21, <1>22, <1>23, <1>24,
     <1>25, <1>26, <1>27 DEF Next

-----------------------------------------------------------------------------
(* The pages.  The spinner belongs to a request, or to a failure nobody     *)
(* caught, and the numbers of requests only grow.                           *)

PagesOK == Numbered /\ NoOrphanSpinner

LEMMA ViewPages ==
    ASSUME TypeOK, PagesOK, NEW route, NEW of, NEW refresh, View(route, of, refresh),
           UNCHANGED clicks
    PROVE  PagesOK'
<1> DEFINE new == [n |-> sent + 1, route |-> route, of |-> of, as |-> acct,
                   refresh |-> refresh, served |-> FALSE, card |-> "absent"]
<1>1. /\ sent \in Nat /\ sent' = sent + 1 /\ shown'.n = sent + 1
      /\ fetches' = fetches \cup {new}
  BY DEF View, Screen, TypeOK
<1>2. \A f \in fetches : f.n \in Nat /\ f.n <= sent
  BY DEF TypeOK, Fetch, PagesOK, Numbered
<1>3. \A l \in clicks : l.on_page \in Nat /\ l.on_page <= sent
  BY DEF TypeOK, Like, PagesOK, Numbered
<1>4. new \in fetches' /\ new.n = shown'.n /\ new.n = sent'
  BY <1>1
<1>5. Numbered'
  BY <1>1, <1>2, <1>3 DEF Numbered
<1>6. NoOrphanSpinner'
  BY <1>1, <1>4 DEF NoOrphanSpinner
<1>7. QED
  BY <1>5, <1>6 DEF PagesOK

LEMMA RoutePages ==
    ASSUME TypeOK, PagesOK, NEW route \in Routes, NEW who \in Account, Route(route, who),
           UNCHANGED clicks
    PROVE  PagesOK'
<1>1. ASSUME NEW of \in Account, View(route, of, FALSE) PROVE PagesOK'
  BY <1>1, ViewPages
<1>2. ASSUME UNCHANGED <<shown, fetches, sent, uncaught>> PROVE PagesOK'
  BY <1>2 DEF PagesOK, Numbered, NoOrphanSpinner
<1>3. QED
  BY <1>1, <1>2, RouteViews

(* An answer, painted or reported, takes its own request away only.         *)
LEMMA DonePages ==
    ASSUME TypeOK, PagesOK, NEW f \in fetches, Done(f),
           \/ shown'.n = f.n /\ shown'.kind # "loading"
           \/ uncaught' = (uncaught \/ f.n = shown.n) /\ UNCHANGED shown
    PROVE  PagesOK'
<1> USE DEF like
<1>1. Numbered'
  BY DEF Done, PagesOK, Numbered
<1>2. NoOrphanSpinner'
  <2>1. SUFFICES ASSUME shown'.kind = "loading"
                 PROVE  (\E g \in fetches' : g.n = shown'.n) \/ uncaught'
    BY DEF NoOrphanSpinner
  <2>2. shown' = shown /\ uncaught' = (uncaught \/ f.n = shown.n)
    BY <2>1
  <2>3. (\E g \in fetches : g.n = shown.n) \/ uncaught
    BY <2>1, <2>2 DEF PagesOK, NoOrphanSpinner
  <2>4. QED
    BY <2>2, <2>3 DEF Done
<1>3. QED
  BY <1>1, <1>2 DEF PagesOK

(* A like request stays the same request as it goes along. *)
LEMMA LikeGoesOn ==
    ASSUME TypeOK, NEW l \in clicks, WriteLike(l) \/ ReloadPost(l) \/ LikeLost(l) \/ LikeFails(l)
    PROVE  \A m \in clicks' : m \in clicks \/ (m.on_page = l.on_page /\ m.as = l.as /\ m.on = l.on)
<1>1. l \in Like
  BY DEF TypeOK
<1>2. CASE WriteLike(l)
  BY <1>1, <1>2 DEF WriteLike, Becomes, Like
<1>3. CASE ReloadPost(l)
  BY <1>1, <1>3 DEF ReloadPost, Becomes, Like
<1>4. CASE LikeLost(l)
  BY <1>1, <1>4 DEF LikeLost, Becomes, Like
<1>5. CASE LikeFails(l)
  BY <1>5 DEF LikeFails, Over
<1>6. QED
  BY <1>2, <1>3, <1>4, <1>5

LEMMA NextPages ==
    ASSUME TypeOK, PagesOK, [Next]_vars
    PROVE  PagesOK'
<1> USE DEF session, router, server, like
<1>1. ASSUME NEW route \in Routes, Navigate(route) PROVE PagesOK'
  BY <1>1, RoutePages DEF Navigate, TypeOK
<1>2. ASSUME NEW b \in boots, Boot(b) PROVE PagesOK'
  BY <1>2, RoutePages DEF Boot, TypeOK
<1>0. ASSUME NEW x \in edits, Edited(x) PROVE PagesOK'
  BY <1>0, RoutePages DEF Edited, TypeOK
<1>3. ASSUME NEW s \in submits, Refresh(s) PROVE PagesOK'
  BY <1>3, ViewPages DEF Refresh
<1>4. ASSUME NEW f \in fetches, Serve(f) PROVE PagesOK'
  <2>1. PICK g : g.n = f.n /\ fetches' = (fetches \ {f}) \cup {g}
    BY <1>4 DEF Serve, TypeOK, Fetch
  <2>2. QED
    BY <1>4, <2>1 DEF Serve, PagesOK, Numbered, NoOrphanSpinner
<1>5. ASSUME NEW f \in fetches, Paint(f) PROVE PagesOK'
  BY <1>5, DonePages DEF Paint, Screen
<1>6. ASSUME NEW f \in fetches, NEW caught \in BOOLEAN, Settle(f, caught) PROVE PagesOK'
  BY <1>6, DonePages DEF Settle, Screen
<1>7. ASSUME NEW f \in fetches, FetchFails(f) \/ PaintThrows(f) PROVE PagesOK'
  <2>1. Settle(f, f.route \in {"thread", "me"} \/ ~ f.refresh) \/ Settle(f, ~ f.refresh)
    BY <1>7 DEF FetchFails, PaintThrows
  <2>2. QED
    BY <1>6, <2>1
<1>8. ASSUME Click PROVE PagesOK'
  <2>1. /\ shown'.n = shown.n /\ shown'.kind = shown.kind
        /\ \A l \in clicks' : l \in clicks \/ l.on_page = shown.n
    BY <1>8 DEF Click, TypeOK, Painted
  <2>2. QED
    BY <1>8, <2>1 DEF Click, PagesOK, Numbered, NoOrphanSpinner
<1>9. ASSUME NEW l \in clicks, LikeArrives(l) PROVE PagesOK'
  <2>1. /\ shown'.n = shown.n /\ shown'.kind = shown.kind
        /\ clicks' \subseteq clicks
    BY <1>9 DEF LikeArrives, Over, TypeOK, Painted
  <2>2. QED
    BY <1>9, <2>1
       DEF LikeArrives, PagesOK, Numbered, NoOrphanSpinner
<1>10. ASSUME NEW l \in clicks, WriteLike(l) \/ ReloadPost(l) \/ LikeLost(l) \/ LikeFails(l)
       PROVE PagesOK'
  <2>1. \A m \in clicks' : m \in clicks \/ m.on_page = l.on_page
    BY <1>10, LikeGoesOn
  <2>2. UNCHANGED <<hash, shown, fetches, sent, uncaught>>
    BY <1>10 DEF WriteLike, ReloadPost, LikeLost, LikeFails
  <2>3. QED
    BY <2>1, <2>2 DEF PagesOK, Numbered, NoOrphanSpinner
<1>11. ASSUME UNCHANGED <<hash, shown, fetches, sent, clicks, uncaught>>
       PROVE  PagesOK'
  BY <1>11 DEF PagesOK, Numbered, NoOrphanSpinner
<1>12. QED
  BY <1>0, <1>1, <1>2, <1>3, <1>4, <1>5, <1>7, <1>8, <1>9, <1>10, <1>11
     DEF Next, vars, AskLogIn, LoggedIn, LogInFails, BootFails, LogOut, SessionEnds,
         EditProfile, EditFails, Submit, SubmitFails, DeletePost, ExpireTimeline

-----------------------------------------------------------------------------
(* The account.  What changes the cookie to another account also starts a   *)
(* boot(), and only a boot() shows the app: by then everything that is      *)
(* younger than it was sent with the new cookie.                            *)

WhoOK == AccountOK /\ RightAccount

(* What may happen to `me' when a view starts: nothing, or the answer of    *)
(* GET or PATCH /api/me.                                                    *)
MeTold ==
    \/ UNCHANGED <<app, boots, edits, me>>
    \/ \E b \in boots : b.as # None /\ boots' = boots \ {b} /\ me' = b.as /\ UNCHANGED edits
    \/ \E x \in edits : /\ x.as # None /\ edits' = edits \ {x} /\ me' = x.as
                         /\ UNCHANGED <<app, boots>>

LEMMA ViewAccount ==
    ASSUME TypeOK, Numbered, AccountOK, RightAccount,
           NEW route, NEW of, NEW refresh, View(route, of, refresh),
           UNCHANGED <<acct, clicks, rival>>, MeTold
    PROVE  WhoOK'
<1>1. /\ sent \in Nat /\ sent' = sent + 1 /\ shown'.kind = "loading"
      /\ \A f \in fetches' : f \in fetches \/ f.as = acct
  BY DEF View, Screen, TypeOK
<1>2. \A f \in fetches : f.n # sent'
  BY <1>1 DEF TypeOK, Fetch, Numbered
<1>3. \A l \in clicks : l.on_page # sent'
  BY <1>1 DEF TypeOK, Like, Numbered
<1>4. AccountOK'
  <2>1. boots' \subseteq boots /\ edits' \subseteq edits
    BY DEF MeTold
  <2>2. QED
    BY <1>1, <1>2, <1>3, <2>1 DEF AccountOK
<1>5. RightAccount'
  <2>1. SUFFICES ASSUME app', boots' = {}, acct # None, ~ rival PROVE me' = acct
    BY <1>1 DEF RightAccount
  <2>2. \A x \in boots \cup edits : x.as \in {acct, None}
    BY <2>1 DEF AccountOK
  <2>3. QED
    BY <2>1, <2>2 DEF MeTold, RightAccount
<1>6. QED
  BY <1>4, <1>5 DEF WhoOK

LEMMA NextAccount ==
    ASSUME TypeOK, Numbered, WhoOK, [Next]_vars
    PROVE  WhoOK'
<1> USE DEF session, router, server, like
<1>1. ASSUME NEW route \in Routes, Navigate(route) PROVE WhoOK'
  <2>1. ASSUME NEW of \in Account, View(route, of, FALSE) PROVE WhoOK'
    BY <1>1, <2>1, ViewAccount DEF Navigate, WhoOK, MeTold
  <2>2. ASSUME UNCHANGED <<shown, fetches, sent>> PROVE WhoOK'
    BY <1>1, <2>2 DEF Navigate, WhoOK, AccountOK, RightAccount
  <2>3. QED
    BY <1>1, <2>1, <2>2, RouteViews DEF Navigate, TypeOK
<1>2. ASSUME NEW b \in boots, Boot(b) PROVE WhoOK'
  <2>1. PICK of \in Account : View(hash, of, FALSE)
    BY <1>2, RouteViews DEF Boot, TypeOK
  <2>2. QED
    BY <1>2, <2>1, ViewAccount DEF Boot, WhoOK, MeTold
<1>0. ASSUME NEW x \in edits, Edited(x) PROVE WhoOK'
  <2>1. PICK of \in Account : View(hash, of, FALSE)
    BY <1>0, RouteViews DEF Edited, TypeOK
  <2>2. QED
    BY <1>0, <2>1, ViewAccount DEF Edited, WhoOK, MeTold
<1>3. ASSUME NEW s \in submits, Refresh(s) PROVE WhoOK'
  BY <1>3, ViewAccount DEF Refresh, WhoOK, MeTold
<1>4. ASSUME NEW f \in fetches, Serve(f) PROVE WhoOK'
  <2>1. PICK g : g.n = f.n /\ g.as = f.as /\ fetches' = (fetches \ {f}) \cup {g}
    BY <1>4 DEF Serve, TypeOK, Fetch
  <2>2. QED
    BY <1>4, <2>1 DEF Serve, WhoOK, AccountOK, RightAccount
<1>5. ASSUME NEW f \in fetches, Paint(f) PROVE WhoOK'
  BY <1>5 DEF Paint, Screen, Done, WhoOK, AccountOK, RightAccount
<1>6. ASSUME NEW f \in fetches, FetchFails(f) \/ PaintThrows(f) PROVE WhoOK'
  <2>1. Settle(f, f.route \in {"thread", "me"} \/ ~ f.refresh) \/ Settle(f, ~ f.refresh)
    BY <1>6 DEF FetchFails, PaintThrows
  <2>2. /\ UNCHANGED shown \/ shown'.kind = "error"
        /\ fetches' \subseteq fetches /\ UNCHANGED <<session, sent, clicks>>
    BY <2>1 DEF Settle, Done, Screen
  <2>3. QED
    BY <2>2 DEF WhoOK, AccountOK, RightAccount
<1>7. ASSUME LoggedIn PROVE WhoOK'
  <2>1. boots' # {} /\ acct' = asked /\ asked # None
    BY <1>7 DEF LoggedIn
  <2>2. ~ rival' => \A x \in boots' \cup edits' : x.as \in {acct', None}
    BY <1>7 DEF LoggedIn
  <2>3. QED
    BY <2>1, <2>2 DEF WhoOK, AccountOK, RightAccount
<1>8. ASSUME NEW b \in boots, BootFails(b) PROVE WhoOK'
  BY <1>8 DEF BootFails, WhoOK, AccountOK, RightAccount
<1>9. ASSUME LogOut \/ SessionEnds PROVE WhoOK'
  BY <1>9 DEF LogOut, SessionEnds, WhoOK, AccountOK, RightAccount
<1>10. ASSUME Click PROVE WhoOK'
  <2>1. /\ shown'.n = shown.n /\ shown'.as = shown.as /\ shown'.kind = shown.kind
        /\ \A l \in clicks' : l \in clicks \/ l.as = acct
    BY <1>10 DEF Click, TypeOK, Painted
  <2>2. QED
    BY <1>10, <2>1 DEF Click, WhoOK, AccountOK, RightAccount
<1>11. ASSUME NEW l \in clicks, LikeArrives(l) PROVE WhoOK'
  <2>1. clicks' \subseteq clicks /\ UNCHANGED <<session, fetches, sent>>
    BY <1>11 DEF LikeArrives, Over
  <2>2. AccountOK'
    BY <2>1 DEF WhoOK, AccountOK
  <2>3. \/ UNCHANGED shown
        \/ shown'.n = l.on_page /\ shown'.as = l.as
    BY <1>11 DEF LikeArrives, OnScreen, TypeOK, Painted
  <2>4. RightAccount'
    BY <2>1, <2>3 DEF WhoOK, AccountOK, RightAccount
  <2>5. QED
    BY <2>2, <2>4 DEF WhoOK
<1>12. ASSUME NEW l \in clicks, WriteLike(l) \/ ReloadPost(l) \/ LikeLost(l) \/ LikeFails(l)
       PROVE WhoOK'
  <2>1. \A m \in clicks' : m \in clicks \/ (m.on_page = l.on_page /\ m.as = l.as)
    BY <1>12, LikeGoesOn
  <2>2. UNCHANGED <<session, shown, fetches, sent>>
    BY <1>12 DEF WriteLike, ReloadPost, LikeLost, LikeFails
  <2>3. QED
    BY <2>1, <2>2 DEF WhoOK, AccountOK, RightAccount
<1>13. ASSUME UNCHANGED <<acct, me, app, boots, rival, shown, fetches, sent, clicks>>,
              \A x \in edits' : x \in edits \/ x.as = acct
       PROVE  WhoOK'
  BY <1>13 DEF WhoOK, AccountOK, RightAccount
<1>14. ASSUME EditProfile PROVE WhoOK'
  BY <1>13, <1>14 DEF EditProfile
<1>15. ASSUME NEW x \in edits, EditFails(x) PROVE WhoOK'
  BY <1>13, <1>15 DEF EditFails
<1>16. QED
  BY <1>0, <1>1, <1>2, <1>3, <1>4, <1>5, <1>6, <1>7, <1>8, <1>9, <1>10, <1>11, <1>12, <1>13,
     <1>14, <1>15
     DEF Next, vars, AskLogIn, LogInFails, Submit, SubmitFails, DeletePost, ExpireTimeline

-----------------------------------------------------------------------------
(* The like button.  An account that is not in `mixed' only has requests    *)
(* for the same out: each leaves the row as every other found it.           *)

ButtonOK == LikesOK /\ ButtonTellsTruth

LEMMA NextButton ==
    ASSUME TypeOK, ButtonOK, [Next]_vars
    PROVE  ButtonOK'
<1> USE DEF session, router, server, like
<1>1. ASSUME Click PROVE ButtonOK'
  <2> DEFINE on == shown.card = "off"
             new == [n |-> acts + 1, on_page |-> shown.n, as |-> acct, on |-> on,
                     stage |-> "write", card |-> "absent", heard |-> TRUE]
  <2>1. /\ clicks' = clicks \cup {new} /\ ~ shown'.sure
        /\ UNCHANGED <<post, liked>>
    BY <1>1 DEF Click, TypeOK, Painted
  <2>2. /\ mixed \subseteq mixed'
        /\ acct \notin mixed' => \A l \in clicks : l.as = acct => l.on = on
    BY <1>1 DEF Click
  <2>3. new.as = acct /\ new.on = on /\ new.stage = "write"
    OBVIOUS
  <2>4. \A l, m \in clicks' : l.as = m.as /\ l.as \notin mixed' => l.on = m.on
    BY <2>1, <2>2, <2>3 DEF ButtonOK, LikesOK, Agreed, Written, Settled
  <2>5. QED
    BY <2>1, <2>2, <2>3, <2>4 DEF ButtonOK, LikesOK, Agreed, Written, Settled, ButtonTellsTruth
<1>2. ASSUME NEW l \in clicks, WriteLike(l) PROVE ButtonOK'
  <2> DEFINE new == [l EXCEPT !.stage = "reload"]
  <2>1. /\ l \in Like /\ new.as = l.as /\ new.on = l.on /\ new.stage = "reload"
        /\ clicks' = (clicks \ {l}) \cup {new}
        /\ UNCHANGED <<shown, post, mixed>>
    BY <1>2 DEF WriteLike, Becomes, TypeOK, Like
  <2>2. liked'[l.as] = l.on /\ \A a \in Accounts \ {l.as} : liked'[a] = liked[a]
    BY <1>2, <2>1 DEF WriteLike, TypeOK, Like
  <2>3. \A m \in clicks' : m.as \in Accounts
    BY <2>1 DEF TypeOK, Like
  <2> HIDE DEF new
  <2>4. LikesOK'
    <3>1. Agreed'
      BY <2>1 DEF ButtonOK, LikesOK, Agreed
    <3>2. Written'
      <4>1. \A m \in clicks : m.as = l.as /\ m.as \notin mixed => m.on = l.on
        BY DEF ButtonOK, LikesOK, Agreed
      <4>2. QED
        BY <2>1, <2>2, <2>3, <4>1 DEF ButtonOK, LikesOK, Written
    <3>3. Settled'
      BY <2>1 DEF ButtonOK, LikesOK, Settled
    <3>4. QED
      BY <3>1, <3>2, <3>3 DEF LikesOK
  <2>5. ButtonTellsTruth'
    BY <2>1, <2>2
       DEF ButtonOK, LikesOK, Settled, ButtonTellsTruth, Seen, Told, TypeOK, Painted, Account
  <2>6. QED
    BY <2>4, <2>5 DEF ButtonOK
<1>3. ASSUME NEW l \in clicks, ReloadPost(l) PROVE ButtonOK'
  <2> DEFINE new == [l EXCEPT !.stage = "answer", !.card = Seen(l.as)]
  <2>1. /\ l \in Like /\ new.as = l.as /\ new.on = l.on /\ new.stage = "answer"
        /\ new.card = Seen(l.as) /\ clicks' = (clicks \ {l}) \cup {new}
        /\ UNCHANGED <<shown, post, liked, mixed>>
    BY <1>3 DEF ReloadPost, Becomes, TypeOK, Like
  <2>2. l.as \notin mixed => liked[l.as] = l.on /\ Seen(l.as) = Told(l.on)
    BY <1>3 DEF ReloadPost, ButtonOK, LikesOK, Written, Seen, Told
  <2> HIDE DEF new
  <2>3. LikesOK'
    <3>1. Agreed'
      BY <2>1 DEF ButtonOK, LikesOK, Agreed
    <3>2. Written'
      BY <2>1, <2>2 DEF ButtonOK, LikesOK, Written
    <3>3. Settled'
      BY <2>1 DEF ButtonOK, LikesOK, Settled
    <3>4. QED
      BY <3>1, <3>2, <3>3 DEF LikesOK
  <2>4. QED
    BY <2>1, <2>3 DEF ButtonOK, ButtonTellsTruth, Seen
<1>4. ASSUME NEW l \in clicks, LikeLost(l) PROVE ButtonOK'
  <2> DEFINE new == [l EXCEPT !.heard = FALSE]
  <2>1. /\ new.as = l.as /\ new.on = l.on /\ new.stage = l.stage /\ new.card = l.card
        /\ clicks' = (clicks \ {l}) \cup {new}
        /\ UNCHANGED <<shown, post, liked, mixed>>
    BY <1>4 DEF LikeLost, Becomes, TypeOK, Like
  <2> HIDE DEF new
  <2>2. LikesOK'
    <3>1. Agreed'
      BY <2>1 DEF ButtonOK, LikesOK, Agreed
    <3>2. Written'
      BY <2>1 DEF ButtonOK, LikesOK, Written
    <3>3. Settled'
      BY <2>1 DEF ButtonOK, LikesOK, Settled
    <3>4. QED
      BY <3>1, <3>2, <3>3 DEF LikesOK
  <2>3. QED
    BY <2>1, <2>2 DEF ButtonOK, ButtonTellsTruth, Seen
<1>5. ASSUME NEW l \in clicks, Over(l), UNCHANGED <<post, liked>>
      PROVE  Agreed' /\ Written'
  <2>1. clicks' \subseteq clicks /\ \A m \in clicks' : m.as \notin mixed' => m.as \notin mixed
    BY <1>5 DEF Over
  <2>2. QED
    BY <1>5, <2>1 DEF ButtonOK, LikesOK, Agreed, Written
<1>6. ASSUME NEW l \in clicks, LikeArrives(l) PROVE ButtonOK'
  <2>1. CASE OnScreen(l.on_page)
    <3>1. /\ shown'.as = l.as /\ shown'.card = l.card /\ shown'.sure = (l.as \notin mixed)
          /\ l.as \in Accounts /\ clicks' \subseteq clicks /\ UNCHANGED <<post, liked>>
      BY <1>6, <2>1 DEF LikeArrives, Over, TypeOK, Painted, Like
    <3>2. l.as \notin mixed => \A m \in clicks : m.as = l.as => m.on = l.on
      BY DEF ButtonOK, LikesOK, Agreed
    <3>3. l.as \notin mixed => (post => liked[l.as] = l.on) /\ l.card = Told(l.on)
      BY <1>6 DEF LikeArrives, ButtonOK, LikesOK, Written
    <3>4. Agreed' /\ Written'
      BY <1>5, <1>6, <3>1 DEF LikeArrives
    <3>5. Settled'
      BY <3>1, <3>2, <3>3, <1>6 DEF Settled
    <3>6. ButtonTellsTruth'
      BY <3>1, <3>3, BrowserAssumption DEF ButtonTellsTruth, Seen, Told
    <3>7. QED
      BY <3>4, <3>5, <3>6 DEF ButtonOK, LikesOK
  <2>2. CASE ~ OnScreen(l.on_page)
    <3>1. clicks' \subseteq clicks /\ UNCHANGED <<shown, post, liked>>
      BY <1>6, <2>2 DEF LikeArrives, Over
    <3>2. Agreed' /\ Written'
      BY <1>5, <1>6, <3>1 DEF LikeArrives
    <3>3. QED
      BY <3>1, <3>2 DEF ButtonOK, LikesOK, Settled, ButtonTellsTruth, Seen
  <2>3. QED
    BY <2>1, <2>2
<1>7. ASSUME NEW l \in clicks, LikeFails(l) PROVE ButtonOK'
  <2>1. clicks' \subseteq clicks /\ UNCHANGED <<shown, post, liked>>
    BY <1>7 DEF LikeFails, Over
  <2>2. Agreed' /\ Written'
    BY <1>5, <1>7, <2>1 DEF LikeFails
  <2>3. QED
    BY <2>1, <2>2 DEF ButtonOK, LikesOK, Settled, ButtonTellsTruth, Seen
<1>8. ASSUME DeletePost PROVE ButtonOK'
  BY <1>8 DEF DeletePost, ButtonOK, LikesOK, Agreed, Written, Settled, ButtonTellsTruth
<1>9. ASSUME \/ UNCHANGED shown
             \/ ~ shown'.sure,
             UNCHANGED <<clicks, mixed, post, liked>>
      PROVE  ButtonOK'
  BY <1>9 DEF ButtonOK, LikesOK, Agreed, Written, Settled, ButtonTellsTruth, Seen
<1>10. ASSUME NEW f \in fetches, Paint(f) \/ FetchFails(f) \/ PaintThrows(f)
       PROVE  ButtonOK'
  <2>1. UNCHANGED <<server, like>> /\ (UNCHANGED shown \/ shown'.sure = FALSE)
    <3>1. CASE Paint(f)
      BY <3>1 DEF Paint, Done, Screen
    <3>2. CASE FetchFails(f)
      BY <3>2 DEF FetchFails, Settle, Done, Screen
    <3>3. CASE PaintThrows(f)
      BY <3>3 DEF PaintThrows, Settle, Done, Screen
    <3>4. QED
      BY <1>10, <3>1, <3>2, <3>3
  <2>2. QED
    BY <1>9, <2>1
<1>11. ASSUME NEW route, NEW of, NEW refresh, View(route, of, refresh), UNCHANGED <<server, like>>
       PROVE  ButtonOK'
  BY <1>9, <1>11 DEF View, Screen
<1>13. ASSUME NEW route \in Routes, NEW who \in Account, Route(route, who),
              UNCHANGED <<server, like>>
       PROVE  ButtonOK'
  BY <1>9, <1>11, <1>13, RouteViews
<1>14. ASSUME NEW route \in Routes, Navigate(route) PROVE ButtonOK'
  BY <1>13, <1>14 DEF Navigate, TypeOK
<1>15. ASSUME NEW b \in boots, Boot(b) PROVE ButtonOK'
  BY <1>13, <1>15 DEF Boot, TypeOK
<1>16. ASSUME NEW x \in edits, Edited(x) PROVE ButtonOK'
  BY <1>13, <1>16 DEF Edited, TypeOK
<1>17. QED
  BY <1>1, <1>2, <1>3, <1>4, <1>6, <1>7, <1>8, <1>9, <1>10, <1>11, <1>14, <1>15, <1>16
     DEF Next, vars, Serve, Refresh, AskLogIn, LoggedIn, LogInFails, BootFails, LogOut,
         SessionEnds, EditProfile, EditFails, Submit, SubmitFails, ExpireTimeline

-----------------------------------------------------------------------------
LEMMA InitInv == Init => IInv
<1> SUFFICES ASSUME Init PROVE IInv
  OBVIOUS
<1> USE BrowserAssumption DEF Init, Screen
<1>1. TypeOK
  <2>1. shown \in Painted
    BY DEF Painted, Account, Routes, Face
  <2>2. boots \subseteq [n : 0..MaxActs, as : Account]
    BY DEF Account
  <2>3. QED
    BY <2>1, <2>2 DEF TypeOK, Account
<1>2. Numbered /\ NoOrphanSpinner
  BY DEF Numbered, NoOrphanSpinner
<1>3. AccountOK /\ RightAccount
  BY DEF AccountOK, RightAccount
<1>4. LikesOK /\ ButtonTellsTruth
  BY DEF LikesOK, Agreed, Written, Settled, ButtonTellsTruth
<1>5. QED
  BY <1>1, <1>2, <1>3, <1>4 DEF IInv

LEMMA NextInv ==
    ASSUME IInv, [Next]_vars
    PROVE  IInv'
BY NextType, NextPages, NextAccount, NextButton DEF IInv, PagesOK, WhoOK, ButtonOK

THEOREM BrowserInvariance == Spec => []IInv
BY InitInv, NextInv, PTL DEF Spec

(* The script, the requests it has out and the tables keep their types: no  *)
(* answer paints a card the api cannot have sent.                           *)
THEOREM BrowserTypes == Spec => []TypeOK
BY BrowserInvariance, PTL DEF IInv

(* A page on show is never another account's, and neither is `me', over any *)
(* number of logins, logouts, expired sessions, saved profiles and boots    *)
(* that answer out of order - but for an answer that was out at the login.  *)
THEOREM PagesKeepToAccounts == Spec => []RightAccount
BY BrowserInvariance, PTL DEF IInv

(* Only a refresh nobody catches can leave "Loading..." behind.             *)
THEOREM SpinnersEnd == Spec => []NoOrphanSpinner
BY BrowserInvariance, PTL DEF IInv

(* Overlapping, lost and repeated like requests leave the button as         *)
(* Postgres has it, as long as they ask for the same.                       *)
THEOREM LikeButtonTellsTruth == Spec => []ButtonTellsTruth
BY BrowserInvariance, PTL DEF IInv
=============================================================================
