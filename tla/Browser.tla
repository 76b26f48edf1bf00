------------------------------ MODULE Browser ------------------------------
(***************************************************************************)
(* One tab of the web UI (frontend/index.html) against the api: who the     *)
(* page believes is logged in, the router that fetches and paints pages,    *)
(* and the like button on a post card.                                      *)
(*                                                                          *)
(* A view paints "Loading...", sends its request and paints again when the  *)
(* answer comes, whatever happened in between; several requests may be out, *)
(* and their answers come in any order.  A click on the like button sends   *)
(* PUT or DELETE by what the card shows, and the button stays enabled: its  *)
(* requests overlap as well, each of them a write and a separate reload.    *)
(* The login form is there while the first boot() is still out.             *)
(*                                                                          *)
(* There is one post, by somebody else.  It is on the home page and on its  *)
(* own page, the thread; the profile of another is a page like the thread.  *)
(* #/me is the profile of `me', with the button that edits it.  What the    *)
(* api knows of the browser is the account of its cookie; the script has    *)
(* its own in `me', from GET /api/me and from the answer of PATCH /api/me.  *)
(***************************************************************************)
EXTENDS Naturals, FiniteSets

CONSTANTS Accounts,
          MaxActs,    \* bound on what the user does: links, forms and buttons
          None

ASSUME BrowserAssumption ==
    /\ MaxActs \in Nat
    /\ None \notin Accounts /\ None \notin {"on", "off", "absent"}

Account  == Accounts \cup {None}
Routes   == {"home", "explore", "thread", "me"}
Editable == Routes \ {"explore"}    \* pages with a composer or trash buttons
Face     == {"on", "off", "absent"} \* the card of the post: liked, not, no card

VARIABLES
    acts,                \* how often the user did something
    acct, me, app,       \* the cookie's account, the script's, is #app shown?
    asked, boots,        \* the account a login asks for, the runs of boot()
    hash, shown,         \* location.hash, and what #view holds
    fetches, sent,       \* page requests out, and how many there were
    submits, edits,      \* composers and trash buttons, and edited profiles,
                         \*   waiting for an answer
    post, liked, cached, \* Postgres: the post and its likes; Redis: the card
                         \*   on each account's cached home page
    clicks,              \* like requests
    rival,               \* history: at the last login a request was out whose
                         \*   answer is another account, for `me'
    uncaught,            \* history: nobody handled the failure of this page
    mixed                \* history: accounts with opposite like requests out

session == <<acct, me, app, asked, boots, edits, rival>>
router  == <<hash, shown, fetches, sent, uncaught>>
server  == <<post, liked, cached>>
like    == <<clicks, mixed>>
vars == <<acts, session, router, submits, server, like>>

(* A profile is `of' an account; `sure' is history, see LikeArrives. *)
Screen(kind, n, route, of, as, card) ==
    [kind |-> kind, n |-> n, route |-> route, of |-> of, as |-> as, card |-> card,
     sure |-> FALSE]

Init ==
    /\ acts = 0 /\ acct \in Account /\ me = None /\ app = FALSE
    /\ asked = None /\ boots = {[n |-> 0, as |-> acct]}
    /\ hash \in Routes /\ shown = Screen("blank", 0, hash, None, None, "absent")
    /\ fetches = {} /\ sent = 0
    /\ submits = {} /\ edits = {} /\ clicks = {}
    /\ post = TRUE
    /\ liked = [a \in Accounts |-> FALSE]
    /\ cached = [a \in Accounts |-> None]
    /\ rival = FALSE /\ uncaught = FALSE /\ mixed = {}
-----------------------------------------------------------------------------
Act == acts < MaxActs /\ acts' = acts + 1

(* A view: loading(), then api(). *)
View(route, of, refresh) ==
    /\ sent' = sent + 1
    /\ fetches' = fetches \cup {[n |-> sent + 1, route |-> route, of |-> of, as |-> acct,
                                 refresh |-> refresh, served |-> FALSE, card |-> "absent"]}
    /\ shown' = Screen("loading", sent + 1, route, of, None, "absent")
    /\ uncaught' = FALSE

(* route(): #/me without `me' throws before there is a view. *)
Route(route, who) ==
    CASE route # "me"                -> View(route, None, FALSE)
      [] route = "me" /\ who # None -> View(route, who, FALSE)
      [] route = "me" /\ who = None -> UNCHANGED <<shown, fetches, sent, uncaught>>

(* hashchange runs route(), logged in or not. *)
Navigate(route) ==
    /\ Act
    /\ route # hash
    /\ hash' = route
    /\ Route(route, me)
    /\ UNCHANGED <<session, submits, server, like>>

(* liked_by_me of the one post, if it is there. *)
Seen(a) == IF ~ post THEN "absent" ELSE IF liked[a] THEN "on" ELSE "off"

(* Mutant: the miss of the cache is taken for an entry. *)
ServeMiss(f) ==
    /\ f \in fetches /\ ~ f.served /\ f.as # None
    /\ fetches' = (fetches \ {f}) \cup {[f EXCEPT !.served = TRUE, !.card = cached[f.as]]}
    /\ UNCHANGED <<acts, session, hash, shown, sent, uncaught, submits, server, like>>

(* The api reads the page.  The home page may come from the cache, where a  *)
(* like changes nothing.                                                    *)
Serve(f) ==
    /\ f \in fetches /\ ~ f.served /\ f.as # None
    /\ f.route = "thread" => post
    /\ LET card == CASE f.route \in {"explore", "me"} -> "absent"
                     [] f.route = "thread"  -> Seen(f.as)
                     [] f.route = "home"    -> IF cached[f.as] # None THEN cached[f.as]
                                               ELSE Seen(f.as) IN
       /\ fetches' = (fetches \ {f}) \cup {[f EXCEPT !.served = TRUE, !.card = card]}
       /\ cached' = IF f.route = "home" THEN [cached EXCEPT ![f.as] = card] ELSE cached
    /\ UNCHANGED <<acts, session, hash, shown, sent, uncaught, submits, post,
                   liked, like>>

Done(f) ==
    /\ fetches' = fetches \ {f}
    /\ UNCHANGED <<acts, session, hash, sent, submits, server, like>>

(* The answer is painted over whatever #view holds by then.  After a logout *)
(* composers and cards trip over `me'; on a profile there may be no card.   *)
Paint(f) ==
    /\ f \in fetches /\ f.served
    /\ me # None \/ f.route \in {"explore", "me"}
    /\ shown' = Screen("page", f.n, f.route, f.of, f.as, f.card)
    /\ uncaught' = FALSE
    /\ Done(f)

(* Mutant: api() swallows the error of a failed request. *)
SettleUnseen(f, caught) ==
    /\ UNCHANGED <<shown, uncaught>>
    /\ Done(f)

(* Who is told of an error?  Thread and profile catch what api() throws;    *)
(* the rest is up to the caller: route() has .catch(fail), and the          *)
(* callbacks onDone and onChange have nothing.                              *)
Settle(f, caught) ==
    /\ IF caught
       THEN /\ shown' = Screen("error", f.n, f.route, f.of, f.as, "absent")
            /\ uncaught' = FALSE
       ELSE /\ uncaught' = (uncaught \/ f.n = shown.n)
            /\ UNCHANGED shown
    /\ Done(f)

(* Not logged in, 404, 500, or the network. *)
FetchFails(f) ==
    /\ f \in fetches
    /\ Settle(f, f.route \in {"thread", "me"} \/ ~ f.refresh)

PaintThrows(f) ==
    /\ f \in fetches /\ f.served
    /\ me = None /\ f.route # "explore"
    /\ Settle(f, ~ f.refresh)
-----------------------------------------------------------------------------
(* The login form, there as long as #app is not.  Its button is disabled    *)
(* until the boot() of its login is over.                                   *)
AskLogIn(a) ==
    /\ Act
    /\ ~ app /\ asked = None
    /\ \A b \in boots : b.n = 0
    /\ asked' = a
    /\ UNCHANGED <<acct, me, app, boots, edits, rival, router, submits, server, like>>

(* The cookie is set, and boot() asks GET /api/me.                          *)
LoggedIn ==
    /\ asked # None
    /\ acct' = asked
    /\ asked' = None
    /\ boots' = boots \cup {[n |-> acts, as |-> asked]}
    /\ rival' = (\E x \in boots \cup edits : x.as \notin {None, asked})
    /\ UNCHANGED <<acts, me, app, edits, router, submits, server, like>>

LogInFails ==
    /\ asked # None
    /\ asked' = None
    /\ UNCHANGED <<acts, acct, me, app, boots, edits, rival, router, submits, server, like>>

(* Mutant: boot() leaves a page that is already there alone. *)
BootQuietly(b) ==
    /\ b \in boots /\ b.as # None
    /\ boots' = boots \ {b}
    /\ me' = b.as /\ app' = TRUE
    /\ IF shown.kind = "page" THEN UNCHANGED <<shown, fetches, sent, uncaught>>
                              ELSE Route(hash, b.as)
    /\ UNCHANGED <<acts, acct, asked, edits, rival, hash, submits, server, like>>

(* GET /api/me answers whose cookie it was sent with; then route().         *)
Boot(b) ==
    /\ b \in boots /\ b.as # None
    /\ boots' = boots \ {b}
    /\ me' = b.as /\ app' = TRUE
    /\ Route(hash, b.as)
    /\ UNCHANGED <<acts, acct, asked, edits, rival, hash, submits, server, like>>

(* 401, 500, or the network: back to the login form, and `me' stays.        *)
BootFails(b) ==
    /\ b \in boots
    /\ boots' = boots \ {b}
    /\ app' = FALSE
    /\ UNCHANGED <<acts, acct, me, asked, edits, rival, router, submits, server, like>>

(* The page forgets the account even when the request failed. *)
LogOut ==
    /\ Act
    /\ app
    /\ me' = None /\ app' = FALSE
    /\ acct' \in {None, acct}
    /\ UNCHANGED <<asked, boots, edits, rival, router, submits, server, like>>

(* The session ends in Redis, or the cookie expires. *)
SessionEnds ==
    /\ acct # None
    /\ acct' = None
    /\ UNCHANGED <<acts, me, app, asked, boots, edits, rival, router, submits, server, like>>
-----------------------------------------------------------------------------
(* The button on one's own profile: prompts, then PATCH /api/me. *)
EditProfile ==
    /\ Act
    /\ app /\ shown.kind = "page" /\ shown.route = "me" /\ shown.of = shown.as
    /\ edits' = edits \cup {[n |-> acts + 1, as |-> acct]}
    /\ UNCHANGED <<acct, me, app, asked, boots, rival, router, submits, server, like>>

(* The answer is `me' from then on, whoever is logged in by then; route().  *)
Edited(x) ==
    /\ x \in edits /\ x.as # None
    /\ edits' = edits \ {x}
    /\ me' = x.as
    /\ Route(hash, x.as)
    /\ UNCHANGED <<acts, acct, app, asked, boots, rival, hash, submits, server, like>>

EditFails(x) ==
    /\ x \in edits
    /\ edits' = edits \ {x}
    /\ UNCHANGED <<acts, acct, me, app, asked, boots, rival, router, submits, server, like>>
-----------------------------------------------------------------------------
(* The composer's POST, or a DELETE by the trash button: once it is         *)
(* answered the page it was on is asked for again, by a direct call of the  *)
(* view and not through the router, wherever the user is by then.  (Only    *)
(* the deletion of a thread's own post goes home by the hash: a Navigate.)  *)
Submit ==
    /\ Act
    /\ app /\ shown.kind = "page" /\ shown.route \in Editable
    /\ submits' = submits \cup {[n |-> acts + 1, route |-> shown.route, of |-> shown.of]}
    /\ UNCHANGED <<session, router, server, like>>

Refresh(s) ==
    /\ s \in submits
    /\ submits' = submits \ {s}
    /\ View(s.route, s.of, TRUE)
    /\ UNCHANGED <<acts, session, hash, server, like>>

SubmitFails(s) ==
    /\ s \in submits
    /\ submits' = submits \ {s}
    /\ UNCHANGED <<acts, session, router, server, like>>
-----------------------------------------------------------------------------
(* The like button. *)
OnScreen(n) == shown.kind = "page" /\ shown.n = n

Click ==
    LET on == shown.card = "off" IN
    /\ Act
    /\ app /\ acct # None
    /\ shown.kind = "page" /\ shown.card # "absent"
    /\ clicks' = clicks \cup {[n |-> acts + 1, on_page |-> shown.n, as |-> acct, on |-> on,
                               stage |-> "write", card |-> "absent", heard |-> TRUE]}
    /\ mixed' = IF \E l \in clicks : l.as = acct /\ l.on # on
                THEN mixed \cup {acct} ELSE mixed
    /\ shown' = [shown EXCEPT !.sure = FALSE]
    /\ UNCHANGED <<session, hash, fetches, sent, uncaught, submits, server>>

Becomes(l, m) == clicks' = (clicks \ {l}) \cup {m}

(* The last request of an account takes its history along. *)
Over(l) ==
    /\ clicks' = clicks \ {l}
    /\ mixed' = IF \E m \in clicks \ {l} : m.as = l.as THEN mixed ELSE mixed \ {l.as}

(* Mutant: PUT toggles the row. *)
ToggleLike(l) ==
    /\ l \in clicks /\ l.stage = "write" /\ post
    /\ liked' = [liked EXCEPT ![l.as] = ~ @]
    /\ Becomes(l, [l EXCEPT !.stage = "reload"])
    /\ UNCHANGED <<acts, session, router, submits, post, cached, mixed>>

(* INSERT ... ON CONFLICT DO NOTHING, or DELETE: a like of a post that is   *)
(* gone is refused by the foreign key (see LikeFails), its unlike is not.   *)
WriteLike(l) ==
    /\ l \in clicks /\ l.stage = "write"
    /\ l.on => post
    /\ liked' = [liked EXCEPT ![l.as] = l.on]
    /\ Becomes(l, [l EXCEPT !.stage = "reload"])
    /\ UNCHANGED <<acts, session, router, submits, post, cached, mixed>>

ReloadPost(l) ==
    /\ l \in clicks /\ l.stage = "reload" /\ post
    /\ Becomes(l, [l EXCEPT !.stage = "answer", !.card = Seen(l.as)])
    /\ UNCHANGED <<acts, session, router, submits, server, mixed>>

(* Object.assign(p, updated): the card is as the answer says, for whom it   *)
(* says so.  It is `sure' unless that account had requests in both          *)
(* directions out.                                                          *)
LikeArrives(l) ==
    /\ l \in clicks /\ l.stage = "answer" /\ l.heard
    /\ shown' = IF OnScreen(l.on_page)
                THEN [shown EXCEPT !.as = l.as, !.card = l.card, !.sure = l.as \notin mixed]
                ELSE shown
    /\ Over(l)
    /\ UNCHANGED <<acts, session, hash, fetches, sent, uncaught, submits, server>>

(* The browser gives up on a request the api may still carry out ...        *)
LikeLost(l) ==
    /\ l \in clicks /\ l.heard
    /\ Becomes(l, [l EXCEPT !.heard = FALSE])
    /\ UNCHANGED <<acts, session, router, submits, server, mixed>>

(* ... and the api is done with it: an error, or nobody there to answer.    *)
LikeFails(l) ==
    /\ l \in clicks
    /\ Over(l)
    /\ UNCHANGED <<acts, session, router, submits, server>>

(* The author deletes the post: its likes go with it. *)
DeletePost ==
    /\ post
    /\ post' = FALSE
    /\ liked' = [a \in Accounts |-> FALSE]
    /\ UNCHANGED <<acts, session, router, submits, cached, like>>

(* Its TTL, or a DEL by one of the invalidations of module Timeline. *)
ExpireTimeline(a) ==
    /\ cached[a] # None
    /\ cached' = [cached EXCEPT ![a] = None]
    /\ UNCHANGED <<acts, session, router, submits, post, liked, like>>
-----------------------------------------------------------------------------
Next ==
    \/ \E route \in Routes : Navigate(route)
    \/ \E f \in fetches : Serve(f) \/ Paint(f) \/ FetchFails(f) \/ PaintThrows(f)
    \/ \E a \in Accounts : AskLogIn(a) \/ ExpireTimeline(a)
    \/ LoggedIn \/ LogInFails \/ LogOut \/ SessionEnds
    \/ \E b \in boots : Boot(b) \/ BootFails(b)
    \/ EditProfile \/ Submit
    \/ \E x \in edits : Edited(x) \/ EditFails(x)
    \/ \E s \in submits : Refresh(s) \/ SubmitFails(s)
    \/ Click
    \/ \E l \in clicks : \/ WriteLike(l) \/ ReloadPost(l) \/ LikeArrives(l)
                         \/ LikeLost(l) \/ LikeFails(l)
    \/ DeletePost

Spec == Init /\ [][Next]_vars
-----------------------------------------------------------------------------
Fetch == [n : Nat, route : Routes, of : Account, as : Account, refresh : BOOLEAN,
          served : BOOLEAN, card : Face]

Painted == [kind : {"blank", "loading", "page", "error"}, n : Nat, route : Routes,
            of : Account, as : Account, card : Face, sure : BOOLEAN]

Like == [n : Nat, on_page : Nat, as : Accounts, on : BOOLEAN,
         stage : {"write", "reload", "answer"}, card : Face, heard : BOOLEAN]

(* What the script and the api keep. *)
TypeOK ==
    /\ acts \in 0..MaxActs /\ sent \in Nat
    /\ acct \in Account /\ me \in Account /\ asked \in Account
    /\ app \in BOOLEAN /\ post \in BOOLEAN /\ rival \in BOOLEAN
    /\ boots \subseteq [n : 0..MaxActs, as : Account]
    /\ edits \subseteq [n : 1..MaxActs, as : Account]
    /\ hash \in Routes /\ fetches \subseteq Fetch
    /\ shown \in Painted
    /\ submits \subseteq [n : 1..MaxActs, route : Editable, of : Account]
    /\ clicks \subseteq Like
    /\ liked \in [Accounts -> BOOLEAN] /\ cached \in [Accounts -> Face \cup {None}]
    /\ uncaught \in BOOLEAN /\ mixed \subseteq Accounts

(* Unless an older answer was the last to come, the page on show is one of  *)
(* the account the next request acts for, whoever logs out and in, saves a  *)
(* profile or submits a post meanwhile and whichever answer comes last; the *)
(* script agrees, unless at the login an answer was still to come that is   *)
(* another account: of the boot() of the page load (index.html:654), or of  *)
(* a profile saved before the logout (index.html:578).                      *)
RightAccount ==
    app /\ boots = {} /\ acct # None =>
        /\ shown.kind = "page" /\ shown.n = sent => shown.as = acct
        /\ me = acct \/ rival

(* "Loading..." stands for a request that is out, or for a refresh whose    *)
(* failure nobody caught (index.html:485 and 492).                          *)
NoOrphanSpinner ==
    shown.kind = "loading" =>
        (\E f \in fetches : f.n = shown.n) \/ uncaught

(* social.go:92 "Both are idempotent, which is what lets the UI fire them   *)
(* optimistically": once a like request is answered the button shows what   *)
(* Postgres holds, whatever was lost, repeated or reloaded meanwhile; not   *)
(* so when likes and unlikes of the account were out together.              *)
ButtonTellsTruth ==
    shown.kind = "page" /\ shown.sure /\ post =>
        shown.as # None /\ shown.card = Seen(shown.as)
-----------------------------------------------------------------------------
(* The inductive invariant: what holds of the page on show must hold        *)
(* already of the requests that will paint it.                              *)
Numbered ==
    /\ shown.n <= sent
    /\ \A f \in fetches : f.n <= sent
    /\ \A l \in clicks : l.on_page <= sent

AccountOK ==
    /\ ~ rival /\ acct # None => \A x \in boots \cup edits : x.as \in {acct, None}
    /\ app /\ boots = {} /\ acct # None =>
          /\ \A f \in fetches : f.n = sent => f.as = acct
          /\ \A l \in clicks : l.on_page = sent => l.as = acct

(* The like requests of an account that is not in `mixed' all ask for the   *)
(* same, so that none of them undoes what another has seen.                 *)
Told(on) == IF on THEN "on" ELSE "off"

Agreed == \A l, m \in clicks : l.as = m.as /\ l.as \notin mixed => l.on = m.on

Written ==
    \A l \in clicks : l.as \notin mixed =>
        /\ l.stage # "write" /\ post => liked[l.as] = l.on
        /\ l.stage = "answer" => l.card = Told(l.on)

Settled == shown.sure => \A l \in clicks : l.as = shown.as => shown.card = Told(l.on)

LikesOK == Agreed /\ Written /\ Settled

IInv == /\ TypeOK /\ Numbered
        /\ NoOrphanSpinner
        /\ AccountOK /\ RightAccount
        /\ LikesOK /\ ButtonTellsTruth
=============================================================================
