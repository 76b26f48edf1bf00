------------------------- MODULE TimelineFeedProofs -------------------------
(* The refinement of Feed by Timeline, for every set of users and clients. *)
EXTENDS TimelineFeed, TimelineProofs

USE DEF redis

(* Taints are not part of the mapping: only pages are. *)
SameFills == \A c \in Clients : /\ fill[c] = None <=> fill'[c] = None
                                /\ fill[c] # None => fill'[c].page = fill[c].page
SameFile  == \A u \in Users : PageKept(file, u)' = PageKept(file, u)
SameKept  == \A u \in Users : PageKept(cache, u)' = PageKept(cache, u)
SameDb    == posts' = posts /\ follows' = follows /\ nextId' = nextId

LEMMA SameReads ==
    ASSUME SameFills, SameFile
    PROVE  \A u \in Users : PagesRead(u)' = PagesRead(u)
BY DEF SameFills, SameFile, PagesRead

LEMMA TaintPage ==
    ASSUME NEW cause \in Cause, NEW e \in Entry
    PROVE  Taint(e, cause).page = e.page /\ e # None /\ Taint(e, cause) # None
<1>1. Taint(e, cause).page = e.page
  BY DEF Taint, Entry
<1>2. QED
  BY <1>1, TaintType, TimelineAssumption

LEMMA TaintedPages ==
    ASSUME TypeOK, NEW us, NEW cause \in Cause,
           TaintFills(us, cause), file' = Tainted(file, us, cause)
    PROVE  SameFills /\ SameFile
<1>1. SameFills
  BY TaintPage DEF TypeOK, TaintFills, SameFills
<1>2. SameFile
  BY TaintPage DEF TypeOK, Tainted, SameFile, PageKept
<1>3. QED
  BY <1>1, <1>2

LEMMA MissedPages ==
    ASSUME TypeOK, NEW us, NEW cause \in Cause, Missed(us, cause)
    PROVE  SameFills /\ SameFile /\ SameKept
<1>1. SameKept
  BY TaintPage DEF TypeOK, Missed, Tainted, SameKept, PageKept
<1>2. QED
  BY <1>1, TaintedPages DEF Missed

LEMMA PageType ==
    ASSUME TypeOK'
    PROVE  /\ \A u \in Users : PagesRead(u)' \in SUBSET (SUBSET Row)
           /\ \A u \in Users : PageKept(cache, u)' \in (SUBSET Row) \cup {None}
BY DEF TypeOK, PagesRead, PageKept, Entry

LEMMA SameRow == Timelines!Row = Row
BY DEF Timelines!Row, Row, Timelines!PostId, PostId, Timelines!Null, Null

(* The mapped step, by what happens to pages and tables. *)
LEMMA QuietStep ==
    ASSUME SameDb, SameFills, SameFile, SameKept
    PROVE  UNCHANGED Timelines!vars
<1>1. [u \in Users |-> PagesRead(u)]' = [u \in Users |-> PagesRead(u)]
  BY SameReads
<1>2. [u \in Users |-> PageKept(cache, u)]' = [u \in Users |-> PageKept(cache, u)]
  BY DEF SameKept
<1>3. QED
  BY <1>1, <1>2 DEF SameDb, Timelines!vars

LEMMA TableStep ==
    ASSUME SameFills, SameFile, SameKept,
           \/ \E u \in Users, parent \in PostId \cup {Null} :
                 /\ nextId <= MaxPost
                 /\ parent = Null \/ Exists(posts, parent)
                 /\ posts' = posts \cup {[id |-> nextId, author |-> u, parent |-> parent]}
                 /\ nextId' = nextId + 1 /\ follows' = follows
           \/ \E p \in posts : /\ posts' = WithoutThread(posts, p.id)
                               /\ follows' = follows /\ nextId' = nextId
           \/ \E u, other \in Users :
                 /\ \/ u # other /\ follows' = follows \cup {<<u, other>>}
                    \/ follows' = follows \ {<<u, other>>}
                 /\ posts' = posts /\ nextId' = nextId
    PROVE  Timelines!Next
<1>1. [u \in Users |-> PagesRead(u)]' = [u \in Users |-> PagesRead(u)]
  BY SameReads
<1>2. [u \in Users |-> PageKept(cache, u)]' = [u \in Users |-> PageKept(cache, u)]
  BY DEF SameKept
<1>3. QED
  BY <1>1, <1>2 DEF Timelines!Next, Timelines!Post, Timelines!Remove, Timelines!Follow,
     Timelines!Unfollow, Timelines!Null, Timelines!PostId, Timelines!Exists,
     Timelines!WithoutThread, Timelines!InThread, Timelines!ClosedUnderReply,
     Exists, PostId, WithoutThread, InThread, ClosedUnderReply, Null

LEMMA HandStep ==
    ASSUME TypeOK', NEW STATE may,
           \A u \in Users : PagesRead(u)' \subseteq may[u]
    PROVE  Timelines!InHand(may)
<1>1. \A u \in Users : PagesRead(u)' \in SUBSET (SUBSET Timelines!Row)
  BY PageType, SameRow
<1>2. QED
  BY <1>1 DEF Timelines!InHand

LEMMA ForgetStep ==
    ASSUME TypeOK', NEW us \in SUBSET Users, SameDb,
           \A u \in Users : PagesRead(u)' \subseteq PagesRead(u),
           cache' = [u \in Users |-> IF u \in us THEN None ELSE cache[u]]
    PROVE  Timelines!Next
<1> DEFINE read == [v \in Users |-> PagesRead(v)]
<1>1. Timelines!InHand(read)
  BY HandStep
<1>2. [u \in Users |-> PageKept(cache, u)]'
        = [u \in Users |-> IF u \in us THEN None ELSE [v \in Users |-> PageKept(cache, v)][u]]
  BY DEF PageKept
<1>3. Timelines!Forget(us)
  BY <1>1, <1>2 DEF SameDb, Timelines!Forget
<1>4. QED
  BY <1>3 DEF Timelines!Next

(* A request lets go of the page it read. *)
LEMMA LetGo ==
    ASSUME NEW c \in Clients, TypeOK, fill' = [fill EXCEPT ![c] = None], file' = file
    PROVE  \A u \in Users : PagesRead(u)' \subseteq PagesRead(u)
<1>1. \A d \in Clients : fill'[d] # None => fill'[d] = fill[d]
  BY DEF TypeOK
<1>2. \A u \in Users : PageKept(file, u)' = PageKept(file, u)
  BY DEF PageKept
<1>3. QED
  BY <1>1, <1>2 DEF PagesRead

LEMMA RememberStep ==
    ASSUME TypeOK, TypeOK', ControlOK, NEW c \in Clients, PutTimeline(c)
    PROVE  Timelines!Next
<1> DEFINE u == Owner[c]
           kept == [v \in Users |-> PageKept(cache, v)]
           read == [v \in Users |-> PagesRead(v)]
<1>1. u \in Users /\ fill[c] # None
  BY TimelineAssumption DEF PutTimeline, ControlOK
<1>2. kept' = [kept EXCEPT ![u] = fill[c].page]
  BY <1>1 DEF PutTimeline, PageKept, TypeOK
<1>3. Timelines!InHand(read)
  BY LetGo, HandStep DEF PutTimeline
<1>4. fill[c].page \in read[u]
  BY <1>1 DEF PagesRead
<1>5. Timelines!Remember(u, fill[c].page)
  BY <1>1, <1>2, <1>3, <1>4 DEF PutTimeline, db, Timelines!Remember
<1>6. QED
  BY <1>1, <1>4, <1>5 DEF Timelines!Next

(* What Redis does by itself. *)
LEMMA ExpireStep ==
    ASSUME TypeOK, TypeOK', NEW u \in Users, Expire(u) \/ Evict(u)
    PROVE  Timelines!Next
<1>1. SameDb /\ fill' = fill
  BY DEF Expire, Evict, SameDb, db, web
<1>2. \A v \in Users : PageKept(file, v)' \in {PageKept(file, v), None}
  BY DEF Expire, Evict, PageKept, TypeOK
<1>3. \A v \in Users : PagesRead(v)' \subseteq PagesRead(v)
  BY <1>1, <1>2 DEF PagesRead
<1>4. PICK us \in {{}, {u}} :
         cache' = [v \in Users |-> IF v \in us THEN None ELSE cache[v]]
  BY DEF Expire, Evict, TypeOK
<1>5. QED
  BY <1>1, <1>3, <1>4, ForgetStep

LEMMA SyncStep ==
    ASSUME TypeOK, TypeOK', Sync
    PROVE  Timelines!Next
<1> DEFINE kept == [v \in Users |-> PageKept(cache, v)]
           read == [v \in Users |-> PagesRead(v)]
           may  == [v \in Users |-> read[v] \cup ({kept[v]} \ {None})]
<1>1. SameDb /\ fill' = fill /\ cache' = cache
  BY DEF Sync, SameDb, db, web
<1>2. \A v \in Users : PageKept(file, v)' = PageKept(cache, v)
  BY DEF Sync, PageKept
<1>3. \A v \in Users : PagesRead(v)' \subseteq may[v]
  BY <1>1, <1>2 DEF PagesRead
<1>4. Timelines!InHand(may)
  BY <1>3, HandStep
<1>5. kept' = kept
  BY <1>1 DEF PageKept
<1>6. Timelines!Keep
  BY <1>1, <1>4, <1>5 DEF SameDb, Timelines!Keep
<1>7. QED
  BY <1>6 DEF Timelines!Next

LEMMA RestartStep ==
    ASSUME TypeOK, TypeOK', Restart
    PROVE  Timelines!Next
<1> DEFINE kept == [v \in Users |-> PageKept(cache, v)]
           read == [v \in Users |-> PagesRead(v)]
<1>1. SameDb /\ fill' = fill /\ file' = file
  BY DEF Restart, SameDb, db, web
<1>2. \A v \in Users : PageKept(cache, v)' = PageKept(file, v)
  BY DEF Restart, PageKept
<1>3. \A v \in Users : kept'[v] \in read[v] \cup {None}
  BY <1>2 DEF PagesRead
<1>4. kept' \in [Users -> (SUBSET Timelines!Row) \cup {None}]
  BY PageType, SameRow
<1>5. read' = read
  BY <1>1 DEF PagesRead, PageKept
<1>6. Timelines!Recall
  BY <1>1, <1>3, <1>4, <1>5 DEF SameDb, Timelines!Recall
<1>7. QED
  BY <1>6 DEF Timelines!Next

LEMMA SameCount == \A S : Timelines!Cardinality(S) = Cardinality(S)
BY DEF Timelines!Cardinality, Cardinality

LEMMA ReadStep ==
    ASSUME TypeOK, ControlOK, NEW c \in Clients, Query(c)
    PROVE  Timelines!Next
<1> DEFINE u == Owner[c]
           read == [v \in Users |-> PagesRead(v)]
<1>1. u \in Users
  BY TimelineAssumption
<1>2. PICK page \in Pages(Visible(posts, follows, u)) :
          fill' = [fill EXCEPT ![c] = [page |-> page, taint |-> {}]]
  BY DEF Query
<1>3. fill[c] = None
  BY DEF Query, ControlOK
<1>4. [page |-> page, taint |-> {}] # None
  <2>1. page \subseteq Row
    BY DEF Pages, Visible, TypeOK
  <2>2. QED
    BY <2>1, TimelineAssumption DEF Entry
<1>5. \A v \in Users : PagesRead(v)' = IF v = u THEN PagesRead(v) \cup {page} ELSE PagesRead(v)
  <2>1. /\ fill'[c] # None /\ fill'[c].page = page
        /\ \A d \in Clients : d # c => fill'[d] = fill[d]
    BY <1>2, <1>4 DEF TypeOK
  <2>2. QED
    BY <2>1, <1>3 DEF PagesRead, PageKept, Query
<1>6. read' = [read EXCEPT ![u] = @ \cup {page}]
  BY <1>5, <1>1
<1>7. [v \in Users |-> PageKept(cache, v)]' = [v \in Users |-> PageKept(cache, v)]
  BY DEF Query, PageKept
<1>8. Timelines!Read(u)
  BY <1>2, <1>6, <1>7, SameCount DEF Query, db, Timelines!Read, Timelines!Pages, Timelines!IsPage,
     Timelines!Visible, Timelines!IsTopLevel, Timelines!Null,
     Pages, IsPage, Visible, IsTopLevel, Null
<1>9. QED
  BY <1>1, <1>8 DEF Timelines!Next

LEMMA NextFeed == TypeOK /\ ControlOK /\ [Next]_vars => [Timelines!Next]_(Timelines!vars)
<1> SUFFICES ASSUME TypeOK, ControlOK, [Next]_vars
             PROVE  Timelines!Next \/ UNCHANGED Timelines!vars
    OBVIOUS
<1> DEFINE Mapped == Timelines!Next \/ UNCHANGED Timelines!vars
<1> USE DEF db, web, work
<1>0. TypeOK'
  BY NextType
<1>1. ASSUME fill' = fill, file' = file PROVE SameFills /\ SameFile
  BY <1>1 DEF SameFills, SameFile, PageKept
<1>2. ASSUME cache' = cache PROVE SameKept
  BY <1>2 DEF SameKept, PageKept
<1>3. \A w \in Workers : targets[w] \in SUBSET Users
  BY DEF TypeOK
<1>4. ASSUME NEW c \in Clients, Begin(c) PROVE Mapped
  <2>1. ASSUME CreateTopLevel(c) PROVE Mapped
    BY <2>1, <1>1, <1>2, TableStep, TimelineAssumption DEF CreateTopLevel, InsertPost
  <2>2. ASSUME NEW id \in PostId, CheckParent(c, id) PROVE Mapped
    BY <2>2, <1>1, <1>2, QuietStep DEF CheckParent, SameDb
  <2>3. ASSUME NEW p \in posts, DeletePost(c, p) PROVE Mapped
    BY <2>3, <1>1, <1>2, TableStep DEF DeletePost
  <2>4. ASSUME NEW other \in Users, Follow(c, other) PROVE Mapped
    BY <2>4, <1>1, <1>2, TableStep, TimelineAssumption DEF Follow
  <2>5. ASSUME NEW other \in Users, Unfollow(c, other) PROVE Mapped
    BY <2>5, <1>1, <1>2, TableStep, TimelineAssumption DEF Unfollow
  <2>6. ASSUME Miss(c) PROVE Mapped
    BY <2>6, <1>1, <1>2, QuietStep DEF Miss, SameDb
  <2>7. QED
    BY <1>4, <2>1, <2>2, <2>3, <2>4, <2>5, <2>6 DEF Begin
<1>5. ASSUME NEW c \in Clients, Continue(c) PROVE Mapped
  <2>1. ASSUME CreateReply(c) PROVE Mapped
    <3>1. reply[c] \in PostId \cup {Null} /\ Owner[c] \in Users
      BY TimelineAssumption DEF TypeOK
    <3>2. QED
      BY <2>1, <3>1, <1>1, <1>2, TableStep DEF CreateReply, InsertPost
  <2>2. ASSUME ReplyRefused(c) PROVE Mapped
    BY <2>2, <1>1, <1>2, QuietStep DEF ReplyRefused, SameDb
  <2>3. ASSUME Publish(c) PROVE Mapped
    BY <2>3, <1>1, <1>2, QuietStep DEF Publish, SameDb
  <2>4. ASSUME PublishDropped(c) PROVE Mapped
    BY <2>4, MissedPages, QuietStep DEF PublishDropped, Missed, SameDb, Cause
  <2>5. ASSUME DropOwn(c) PROVE Mapped
    BY <2>5, <1>0, TaintedPages, SameReads, ForgetStep, TimelineAssumption DEF DropOwn, Invalidate, SameDb, Cause
  <2>6. ASSUME DropOwnFails(c) PROVE Mapped
    BY <2>6, MissedPages, QuietStep DEF DropOwnFails, Missed, SameDb, Cause
  <2>7. ASSUME Query(c) PROVE Mapped
    BY <2>7, ReadStep
  <2>8. ASSUME PutTimeline(c) PROVE Mapped
    BY <2>8, <1>0, RememberStep
  <2>9. ASSUME Abandon(c) PROVE Mapped
    <3>1. PICK us \in {{}} :
             cache' = [v \in Users |-> IF v \in us THEN None ELSE cache[v]]
      BY <2>9 DEF Abandon, TypeOK
    <3>2. \A v \in Users : PagesRead(v)' \subseteq PagesRead(v)
      BY <2>9, LetGo DEF Abandon
    <3>3. QED
      BY <2>9, <1>0, <3>1, <3>2, ForgetStep DEF Abandon, SameDb
  <2>10. QED
    BY <1>5, <2>1, <2>2, <2>3, <2>4, <2>5, <2>6, <2>7, <2>8, <2>9 DEF Continue
<1>6. ASSUME NEW w \in Workers, Work(w) PROVE Mapped
  <2>1. ASSUME NEW m \in bus, Deliver(w, m) PROVE Mapped
    BY <2>1, <1>1, <1>2, QuietStep DEF Deliver, SameDb
  <2>2. ASSUME LookUpFollowers(w) PROVE Mapped
    BY <2>2, <1>1, <1>2, QuietStep DEF LookUpFollowers, SameDb
  <2>3. ASSUME DropFollowers(w) PROVE Mapped
    <3>1. Invalidate(targets[w], "fanout") /\ SameDb
      BY <2>3 DEF DropFollowers, SameDb
    <3>2. \A u \in Users : PagesRead(u)' \subseteq PagesRead(u)
      BY <3>1, TaintedPages, SameReads DEF Invalidate, Cause
    <3>3. QED
      BY <1>0, <1>3, <3>1, <3>2, ForgetStep DEF Invalidate
  <2>4. ASSUME LookUpFails(w) \/ DropFollowersFails(w) PROVE Mapped
    BY <2>4, MissedPages, QuietStep
       DEF LookUpFails, DropFollowersFails, Missed, SameDb, Cause
  <2>5. QED
    BY <1>6, <2>1, <2>2, <2>3, <2>4 DEF Work
<1>7. ASSUME NEW m \in bus, Lose(m) PROVE Mapped
  BY <1>7, MissedPages, QuietStep DEF Lose, Missed, SameDb, Cause
<1>8. ASSUME NEW u \in Users, Expire(u) \/ Evict(u) PROVE Mapped
  BY <1>8, <1>0, ExpireStep
<1>9. ASSUME Sync \/ Restart PROVE Mapped
  BY <1>9, <1>0, SyncStep, RestartStep
<1>10. ASSUME UNCHANGED vars PROVE Mapped
  BY <1>10, <1>1, <1>2, QuietStep DEF vars, sys, SameDb
<1>11. QED
  BY <1>4, <1>5, <1>6, <1>7, <1>8, <1>9, <1>10 DEF Next, Step

(* What timeline:<id> holds is always a page that one query of              *)
(* Store.Timeline returned for that user, after a restart of Redis too, and *)
(* every change of the tables is one of the four statements of the social graph.                          *)
THEOREM TimelineIsAFeed == Spec => ImplementsFeed
<1>1. Init => Timelines!Init
  <2>1. ASSUME Init PROVE \A u \in Users : PagesRead(u) = {}
    BY <2>1 DEF Init, PagesRead, PageKept
  <2>2. ASSUME Init PROVE \A u \in Users : PageKept(cache, u) = None
    BY <2>2 DEF Init, PageKept
  <2>3. QED
    BY <2>1, <2>2 DEF Init, Timelines!Init
<1>2. QED
  BY <1>1, NextFeed, TypeCorrect, PTL DEF Spec, ImplementsFeed, Timelines!Spec
=============================================================================
