--------------------------- MODULE TimelineProofs ---------------------------
(* Theorems about Timeline for every set of users, clients and workers. *)
EXTENDS Timeline, TLAPS

USE DEF Null, Cause, Stage, redis

LEMMA TaintType ==
    ASSUME NEW e \in Entry, NEW cause \in Cause
    PROVE  Taint(e, cause) \in Entry
BY DEF Entry, Taint

LEMMA TaintFillsType ==
    ASSUME TypeOK, NEW us, NEW cause \in Cause, TaintFills(us, cause)
    PROVE  fill' \in [Clients -> Entry \cup {None}]
BY TaintType DEF TypeOK, TaintFills

LEMMA TaintedType ==
    ASSUME NEW held \in [Users -> Entry \cup {None}], NEW us, NEW cause \in Cause
    PROVE  Tainted(held, us, cause) \in [Users -> Entry \cup {None}]
BY TaintType DEF Tainted

LEMMA InvalidateType ==
    ASSUME TypeOK, NEW us, NEW cause \in Cause, Invalidate(us, cause)
    PROVE  /\ cache' \in [Users -> Entry \cup {None}]
           /\ file' \in [Users -> Entry \cup {None}]
           /\ fill' \in [Clients -> Entry \cup {None}]
BY TaintFillsType, TaintedType DEF TypeOK, Invalidate

LEMMA MissedType ==
    ASSUME TypeOK, NEW us, NEW cause \in Cause, Missed(us, cause)
    PROVE  /\ cache' \in [Users -> Entry \cup {None}]
           /\ file' \in [Users -> Entry \cup {None}]
           /\ fill' \in [Clients -> Entry \cup {None}]
BY TaintFillsType, TaintedType DEF TypeOK, Missed

LEMMA InsertRow ==
    ASSUME TypeOK, NEW c \in Clients, NEW parent \in PostId \cup {0},
           InsertPost(c, parent)
    PROVE  /\ [id |-> nextId, author |-> Owner[c], parent |-> parent] \in Row
           /\ nextId' \in 1..(MaxPost + 1)
<1>1. nextId \in PostId /\ nextId' \in 1..(MaxPost + 1)
  <2>1. nextId \in 1..(MaxPost + 1) /\ nextId <= MaxPost /\ nextId' = nextId + 1
    BY DEF TypeOK, InsertPost
  <2>2. QED
    BY <2>1, SchemaAssumption DEF PostId
<1>2. Owner[c] \in Users
  BY TimelineAssumption
<1>3. QED
  BY <1>1, <1>2 DEF Row

LEMMA InsertType ==
    ASSUME TypeOK, NEW c \in Clients, NEW parent \in PostId \cup {0},
           InsertPost(c, parent), reply' \in [Clients -> PostId \cup {0}],
           hasty' \subseteq Users
    PROVE  TypeOK'
<1> DEFINE row == [id |-> nextId, author |-> Owner[c], parent |-> parent]
<1>1. row \in Row /\ nextId' \in 1..(MaxPost + 1)
  BY InsertRow
<1>2. posts' \subseteq Row /\ made' \in [Clients -> Row \cup {None}]
  BY <1>1 DEF TypeOK, InsertPost
<1>3. QED
  BY <1>1, <1>2 DEF TypeOK, InsertPost, work

LEMMA InitType == Init => TypeOK
BY SchemaAssumption DEF Init, TypeOK

LEMMA NextType == TypeOK /\ ControlOK /\ [Next]_vars => TypeOK'
<1> SUFFICES ASSUME TypeOK, ControlOK, [Next]_vars PROVE TypeOK'
  OBVIOUS
<1> USE DEF db, web, work
<1>0. hasty' \subseteq Users
  BY DEF Next, vars, TypeOK
<1> USE <1>0
<1>1. ASSUME NEW c \in Clients, Begin(c) PROVE TypeOK'
  <2>1. CASE CreateTopLevel(c)
    BY <2>1, InsertType DEF CreateTopLevel, TypeOK
  <2>2. ASSUME NEW id \in PostId, CheckParent(c, id) PROVE TypeOK'
    BY <2>2 DEF CheckParent, TypeOK
  <2>3. ASSUME NEW p \in posts, DeletePost(c, p) PROVE TypeOK'
    BY <2>3 DEF DeletePost, TypeOK, WithoutThread
  <2>4. ASSUME NEW other \in Users, Follow(c, other) PROVE TypeOK'
    <3>1. <<Owner[c], other>> \in Users \X Users
      BY TimelineAssumption
    <3>2. QED
      BY <2>4, <3>1 DEF Follow, TypeOK
  <2>5. ASSUME NEW other \in Users, Unfollow(c, other) PROVE TypeOK'
    BY <2>5 DEF Unfollow, TypeOK
  <2>6. CASE Miss(c)
    BY <2>6 DEF Miss, TypeOK
  <2>7. QED
    BY <1>1, <2>1, <2>2, <2>3, <2>4, <2>5, <2>6 DEF Begin
<1>2. ASSUME NEW c \in Clients, Continue(c) PROVE TypeOK'
  <2>1. CASE CreateReply(c)
    BY <2>1, InsertType DEF CreateReply, TypeOK
  <2>2. CASE ReplyRefused(c)
    BY <2>2 DEF ReplyRefused, TypeOK
  <2>3. CASE Publish(c)
    <3>1. made[c] \in Row
      BY <2>3 DEF Publish, TypeOK, ControlOK
    <3>2. QED
      BY <2>3, <3>1 DEF Publish, TypeOK
  <2>4. CASE PublishDropped(c)
    BY <2>4, MissedType DEF PublishDropped, TypeOK
  <2>5. CASE DropOwn(c)
    BY <2>5, InvalidateType DEF DropOwn, TypeOK
  <2>6. CASE DropOwnFails(c)
    BY <2>6, MissedType DEF DropOwnFails, TypeOK
  <2>7. CASE Query(c)
    <3>1. PICK page \in Pages(Visible(posts, follows, Owner[c])) :
             fill' = [fill EXCEPT ![c] = [page |-> page, taint |-> {}]]
      BY <2>7 DEF Query
    <3>2. page \in SUBSET Row
      BY DEF Pages, Visible, TypeOK
    <3>3. [page |-> page, taint |-> {}] \in Entry
      BY <3>2 DEF Entry
    <3>4. QED
      BY <2>7, <3>1, <3>3 DEF Query, TypeOK
  <2>8. CASE PutTimeline(c)
    BY <2>8 DEF PutTimeline, TypeOK
  <2>9. CASE Abandon(c)
    BY <2>9 DEF Abandon, TypeOK
  <2>10. QED
    BY <1>2, <2>1, <2>2, <2>3, <2>4, <2>5, <2>6, <2>7, <2>8, <2>9 DEF Continue
<1>3. ASSUME NEW w \in Workers, Work(w) PROVE TypeOK'
  <2>1. ASSUME NEW m \in bus, Deliver(w, m) PROVE TypeOK'
    BY <2>1 DEF Deliver, TypeOK
  <2>2. CASE LookUpFollowers(w)
    BY <2>2 DEF LookUpFollowers, TypeOK, FollowerIDs
  <2>3. CASE DropFollowers(w)
    BY <2>3, InvalidateType DEF DropFollowers, Rest, TypeOK
  <2>4. CASE LookUpFails(w)
    BY <2>4, MissedType DEF LookUpFails, Rest, TypeOK
  <2>5. CASE DropFollowersFails(w)
    BY <2>5, MissedType DEF DropFollowersFails, Rest, TypeOK
  <2>6. QED
    BY <1>3, <2>1, <2>2, <2>3, <2>4, <2>5 DEF Work
<1>4. ASSUME NEW m \in bus, Lose(m) PROVE TypeOK'
  BY <1>4, MissedType DEF Lose, TypeOK
<1>5. ASSUME NEW u \in Users, Expire(u) \/ Evict(u) PROVE TypeOK'
  BY <1>5 DEF Expire, Evict, TypeOK
<1>6. CASE Sync \/ Restart
  BY <1>6 DEF Sync, Restart, TypeOK
<1>7. CASE UNCHANGED vars
  BY <1>7 DEF vars, sys, TypeOK
<1>8. QED
  BY <1>1, <1>2, <1>3, <1>4, <1>5, <1>6, <1>7 DEF Next, Step

(* Which stage goes with which auxiliary value. *)

LEMMA TaintFillsNone ==
    ASSUME TypeOK, NEW us, NEW cause \in Cause, TaintFills(us, cause)
    PROVE  \A c \in Clients : fill'[c] = None <=> fill[c] = None
BY TaintType, TimelineAssumption DEF TypeOK, TaintFills

LEMMA RowNotNone == None \notin Row /\ None \notin Entry
BY TimelineAssumption

LEMMA InitControl == Init => ControlOK
BY DEF Init, ControlOK

LEMMA InsertControl ==
    ASSUME TypeOK, ControlOK, NEW c \in Clients, NEW parent \in PostId \cup {0},
           InsertPost(c, parent), pc[c] # "put"
    PROVE  ControlOK'
<1> DEFINE row == [id |-> nextId, author |-> Owner[c], parent |-> parent]
<1>1. row \in Row
  BY InsertRow
<1>2. row # None /\ row.author = Owner[c]
  BY <1>1, RowNotNone
<1>3. made' = [made EXCEPT ![c] = row] /\ pc' = [pc EXCEPT ![c] = "publish"]
      /\ fill' = fill /\ wpc' = wpc /\ job' = job
  BY DEF InsertPost, work, TypeOK
<1> HIDE DEF row
<1>4. QED
  BY <1>2, <1>3 DEF TypeOK, ControlOK

LEMMA NextControl == TypeOK /\ ControlOK /\ [Next]_vars => ControlOK'
<1> SUFFICES ASSUME TypeOK, ControlOK, [Next]_vars PROVE ControlOK'
  OBVIOUS
<1> USE RowNotNone DEF db, web, work
<1>1. ASSUME NEW c \in Clients, Begin(c) PROVE ControlOK'
  <2>1. CASE CreateTopLevel(c)
    BY <2>1, InsertControl DEF CreateTopLevel
  <2>2. ASSUME NEW id \in PostId, CheckParent(c, id) PROVE ControlOK'
    BY <2>2 DEF CheckParent, TypeOK, ControlOK
  <2>3. ASSUME NEW p \in posts, DeletePost(c, p) PROVE ControlOK'
    BY <2>3 DEF DeletePost, TypeOK, ControlOK
  <2>4. ASSUME NEW other \in Users, Follow(c, other) PROVE ControlOK'
    BY <2>4 DEF Follow, TypeOK, ControlOK
  <2>5. ASSUME NEW other \in Users, Unfollow(c, other) PROVE ControlOK'
    BY <2>5 DEF Unfollow, TypeOK, ControlOK
  <2>6. CASE Miss(c)
    BY <2>6 DEF Miss, TypeOK, ControlOK
  <2>7. QED
    BY <1>1, <2>1, <2>2, <2>3, <2>4, <2>5, <2>6 DEF Begin
<1>2. ASSUME NEW c \in Clients, Continue(c) PROVE ControlOK'
  <2>1. CASE CreateReply(c)
    BY <2>1, InsertControl DEF CreateReply, TypeOK
  <2>2. CASE ReplyRefused(c)
    BY <2>2 DEF ReplyRefused, TypeOK, ControlOK
  <2>3. CASE Publish(c)
    BY <2>3 DEF Publish, TypeOK, ControlOK
  <2>4. CASE PublishDropped(c)
    BY <2>4, TaintFillsNone DEF PublishDropped, Missed, TypeOK, ControlOK
  <2>5. CASE DropOwn(c)
    BY <2>5, TaintFillsNone DEF DropOwn, Invalidate, TypeOK, ControlOK
  <2>6. CASE DropOwnFails(c)
    BY <2>6, TaintFillsNone DEF DropOwnFails, Missed, TypeOK, ControlOK
  <2>7. CASE Query(c)
    <3>1. PICK page \in Pages(Visible(posts, follows, Owner[c])) :
             fill' = [fill EXCEPT ![c] = [page |-> page, taint |-> {}]]
      BY <2>7 DEF Query
    <3>2. [page |-> page, taint |-> {}] \in Entry
      BY DEF Pages, Visible, TypeOK, Entry
    <3>3. fill'[c] # None /\ \A d \in Clients : d # c => fill'[d] = fill[d]
      BY <3>1, <3>2 DEF TypeOK
    <3>4. QED
      BY <2>7, <3>3 DEF Query, TypeOK, ControlOK
  <2>8. CASE PutTimeline(c)
    BY <2>8 DEF PutTimeline, TypeOK, ControlOK
  <2>9. CASE Abandon(c)
    BY <2>9 DEF Abandon, TypeOK, ControlOK
  <2>10. QED
    BY <1>2, <2>1, <2>2, <2>3, <2>4, <2>5, <2>6, <2>7, <2>8, <2>9 DEF Continue
<1>3. ASSUME NEW w \in Workers, Work(w) PROVE ControlOK'
  <2>1. ASSUME NEW m \in bus, Deliver(w, m) PROVE ControlOK'
    <3>1. m # None
      BY DEF TypeOK
    <3>2. QED
      BY <2>1, <3>1 DEF Deliver, TypeOK, ControlOK
  <2>2. CASE LookUpFollowers(w)
    BY <2>2 DEF LookUpFollowers, TypeOK, ControlOK
  <2>3. CASE DropFollowers(w)
    BY <2>3, TaintFillsNone DEF DropFollowers, Invalidate, Rest, TypeOK, ControlOK
  <2>4. CASE LookUpFails(w)
    BY <2>4, TaintFillsNone DEF LookUpFails, Missed, Rest, TypeOK, ControlOK
  <2>5. CASE DropFollowersFails(w)
    BY <2>5, TaintFillsNone DEF DropFollowersFails, Missed, Rest, TypeOK, ControlOK
  <2>6. QED
    BY <1>3, <2>1, <2>2, <2>3, <2>4, <2>5 DEF Work
<1>4. ASSUME NEW m \in bus, Lose(m) PROVE ControlOK'
  BY <1>4, TaintFillsNone DEF Lose, Missed, TypeOK, ControlOK
<1>5. ASSUME NEW u \in Users, Expire(u) \/ Evict(u) PROVE ControlOK'
  BY <1>5 DEF Expire, Evict, TypeOK, ControlOK
<1>6. CASE Sync \/ Restart
  BY <1>6 DEF Sync, Restart, TypeOK, ControlOK
<1>7. CASE UNCHANGED vars
  BY <1>7 DEF vars, sys, ControlOK
<1>8. QED
  BY <1>1, <1>2, <1>3, <1>4, <1>5, <1>6, <1>7 DEF Next, Step

(* Every variable has its type, and every request and every message is at a  *)
(* step its kind has.                                                       *)
THEOREM TypeCorrect == Spec => [](TypeOK /\ ControlOK)
BY InitType, InitControl, NextType, NextControl, PTL DEF Spec
-----------------------------------------------------------------------------
(* The tables.  Ids only grow, and a cascade takes every reply with it. *)

LEMMA InsertRows ==
    ASSUME TypeOK, RowsOK, NEW c \in Clients, NEW parent \in PostId \cup {0},
           InsertPost(c, parent), parent = 0 \/ Exists(posts, parent)
    PROVE  RowsOK'
<1> DEFINE row == [id |-> nextId, author |-> Owner[c], parent |-> parent]
<1>1. posts' = posts \cup {row} /\ nextId' = nextId + 1 /\ nextId \in Nat
  BY DEF InsertPost, TypeOK
<1>2. \A p \in posts : p.id \in Nat /\ p.id < nextId
  BY DEF TypeOK, RowsOK, Row, PostId
<1>3. row.id = nextId /\ row.parent = parent
  OBVIOUS
<1> HIDE DEF row
<1>4. \A p \in posts' : p.id < nextId'
  BY <1>1, <1>2, <1>3
<1>5. \A p, q \in posts' : p.id = q.id => p = q
  BY <1>1, <1>2, <1>3 DEF RowsOK
<1>6. ThreadsIntact'
  BY <1>1, <1>2, <1>3 DEF RowsOK, ThreadsIntact, IsTopLevel, Exists
<1>7. QED
  BY <1>4, <1>5, <1>6 DEF RowsOK

LEMMA DeleteRows ==
    ASSUME TypeOK, RowsOK, NEW c \in Clients, NEW p \in posts, DeletePost(c, p)
    PROVE  RowsOK'
<1>1. posts' = WithoutThread(posts, p.id) /\ nextId' = nextId
  BY DEF DeletePost
<1>2. posts' \subseteq posts
  BY <1>1 DEF WithoutThread
<1>3. ASSUME NEW r \in posts', NEW q \in posts, q.id = r.parent
      PROVE  q \in posts'
  <2>1. ~ InThread(posts, p.id, r)
    BY <1>1, <1>3 DEF WithoutThread
  <2>2. PICK S \in SUBSET PostId :
           p.id \in S /\ ClosedUnderReply(posts, S) /\ r.id \notin S
    BY <2>1 DEF InThread
  <2>3. q.id \notin S
    BY <1>2, <1>3, <2>2 DEF ClosedUnderReply
  <2>4. ~ InThread(posts, p.id, q)
    BY <2>2, <2>3 DEF InThread
  <2>5. QED
    BY <1>1, <1>3, <2>4 DEF WithoutThread
<1>4. ThreadsIntact'
  <2>1. SUFFICES ASSUME NEW r \in posts', ~ IsTopLevel(r)
                 PROVE  \E q \in posts' : q.id = r.parent /\ q.id < r.id
    BY DEF ThreadsIntact
  <2>2. PICK q \in posts : q.id = r.parent /\ q.id < r.id
    BY <1>2, <2>1 DEF RowsOK, ThreadsIntact
  <2>3. QED
    BY <1>3, <2>2
<1>5. QED
  BY <1>1, <1>2, <1>4 DEF RowsOK

LEMMA SameRows ==
    ASSUME RowsOK, posts' = posts, nextId' = nextId
    PROVE  RowsOK'
BY DEF RowsOK, ThreadsIntact

LEMMA InitRows == Init => RowsOK
BY DEF Init, RowsOK, ThreadsIntact

LEMMA NextRows == TypeOK /\ RowsOK /\ [Next]_vars => RowsOK'
<1> SUFFICES ASSUME TypeOK, RowsOK, [Next]_vars PROVE RowsOK'
  OBVIOUS
<1>1. ASSUME NEW c \in Clients, CreateTopLevel(c) PROVE RowsOK'
  BY <1>1, InsertRows DEF CreateTopLevel
<1>2. ASSUME NEW c \in Clients, CreateReply(c) PROVE RowsOK'
  <2>1. reply[c] \in PostId \cup {0}
    BY DEF TypeOK
  <2>2. QED
    BY <1>2, <2>1, InsertRows DEF CreateReply
<1>3. ASSUME NEW c \in Clients, NEW p \in posts, DeletePost(c, p) PROVE RowsOK'
  BY <1>3, DeleteRows
<1>4. CASE UNCHANGED vars
  BY <1>4, SameRows DEF vars, sys, db
<1>5. QED
  BY <1>1, <1>2, <1>3, <1>4, SameRows
     DEF Next, Step, Begin, Continue, Work, db,
         CheckParent, Follow, Unfollow, Miss,
         ReplyRefused, Publish, PublishDropped, DropOwn, DropOwnFails,
         Query, PutTimeline, Abandon, Deliver, LookUpFollowers, DropFollowers,
         LookUpFails, DropFollowersFails, Lose, Expire, Evict, Sync, Restart

(* No reply outlives the post it answers and parent_id is never cyclic,     *)
(* however requests interleave.                                             *)
THEOREM ThreadsStayIntact == Spec => []ThreadsIntact
<1>1. Init => TypeOK /\ ControlOK /\ RowsOK
  BY InitType, InitControl, InitRows
<1>2. TypeOK /\ ControlOK /\ RowsOK /\ [Next]_vars => (TypeOK /\ ControlOK /\ RowsOK)'
  BY NextType, NextControl, NextRows
<1>3. RowsOK => ThreadsIntact
  BY DEF RowsOK
<1>4. QED
  BY <1>1, <1>2, <1>3, PTL DEF Spec
-----------------------------------------------------------------------------
(* Entries and fills.  Sound(u, e) is carried from one state to the next    *)
(* for a fixed value e, then lifted to the values the keys and fills hold.  *)

AllSound == EntriesSound /\ FileSound /\ FillsSound

LEMMA SoundEntry ==
    ASSUME NEW u \in Users, NEW e, e = cache'[u], Sound(u, e)'
    PROVE  Sound(u, cache[u])'
BY DEF Sound, OwnPart, FollowedPart, ShowsOwnChanges, ShowsOwnPosts

LEMMA SoundSynced ==
    ASSUME NEW u \in Users, NEW e, e = file'[u], Sound(u, e)'
    PROVE  Sound(u, file[u])'
BY DEF Sound, OwnPart, FollowedPart, ShowsOwnChanges, ShowsOwnPosts

LEMMA SoundFill ==
    ASSUME NEW c \in Clients, NEW u, u = Owner[c], NEW e, e = fill'[c], Sound(u, e)'
    PROVE  Sound(Owner[c], fill[c])'
BY DEF Sound, OwnPart, FollowedPart, ShowsOwnChanges, ShowsOwnPosts

(* Every value now held was sound before the step, for the same user.       *)
LEMMA HeldValues ==
    ASSUME \A u \in Users : \A e \in Entry : Sound(u, e) => Sound(u, e)',
           \A u \in Users : cache'[u] # None =>
               \E e \in Entry : e = cache'[u] /\ Sound(u, e),
           \A u \in Users : file'[u] # None =>
               \E e \in Entry : e = file'[u] /\ Sound(u, e),
           \A c \in Clients : fill'[c] # None =>
               \E e \in Entry : e = fill'[c] /\ Sound(Owner[c], e)
    PROVE  AllSound'
<1>1. ASSUME NEW u \in Users, cache'[u] # None PROVE Sound(u, cache[u])'
  <2>1. PICK e \in Entry : e = cache'[u] /\ Sound(u, e)
    BY <1>1
  <2>2. Sound(u, e)'
    BY <2>1
  <2>3. QED
    BY <2>1, <2>2, SoundEntry
<1>2. ASSUME NEW u \in Users, file'[u] # None PROVE Sound(u, file[u])'
  <2>1. PICK e \in Entry : e = file'[u] /\ Sound(u, e)
    BY <1>2
  <2>2. Sound(u, e)'
    BY <2>1
  <2>3. QED
    BY <2>1, <2>2, SoundSynced
<1>3. ASSUME NEW c \in Clients, fill'[c] # None PROVE Sound(Owner[c], fill[c])'
  <2>1. PICK e \in Entry : e = fill'[c] /\ Sound(Owner[c], e)
    BY <1>3
  <2>2. PICK u \in Users : u = Owner[c]
    BY TimelineAssumption
  <2>3. Sound(u, e)'
    BY <2>1, <2>2
  <2>4. QED
    BY <2>1, <2>2, <2>3, SoundFill
<1>4. QED
  BY <1>1, <1>2, <1>3 DEF AllSound, EntriesSound, FileSound, FillsSound

LEMMA HeldSound ==
    ASSUME TypeOK, AllSound
    PROVE  /\ \A u \in Users : cache[u] # None =>
                 \E e \in Entry : e = cache[u] /\ Sound(u, e)
           /\ \A u \in Users : file[u] # None =>
                 \E e \in Entry : e = file[u] /\ Sound(u, e)
           /\ \A c \in Clients : fill[c] # None =>
                 \E e \in Entry : e = fill[c] /\ Sound(Owner[c], e)
BY DEF TypeOK, AllSound, EntriesSound, FileSound, FillsSound

LEMMA SameValues ==
    ASSUME TypeOK, AllSound, cache' = cache, file' = file, fill' = fill,
           \A u \in Users : \A e \in Entry : Sound(u, e) => Sound(u, e)'
    PROVE  AllSound'
BY HeldSound, HeldValues

(* A DEL of the keys of us, done or missed: what is still held is tainted.  *)
LEMMA TaintedSound ==
    ASSUME NEW us, NEW cause \in Cause,
           \A u \in Users : \A e \in Entry :
               Sound(u, e) => IF u \in us THEN Sound(u, Taint(e, cause))'
                                          ELSE Sound(u, e)',
           NEW u \in Users, NEW e \in Entry, Sound(u, e),
           NEW f, f = IF u \in us THEN Taint(e, cause) ELSE e
    PROVE  Sound(u, f)'
<1>1. CASE u \in us
  <2>1. f = Taint(e, cause)
    BY <1>1
  <2>2. Sound(u, Taint(e, cause))'
    BY <1>1
  <2>3. QED
    BY <2>1, <2>2
<1>2. CASE u \notin us
  <2>1. f = e /\ Sound(u, e)'
    BY <1>2
  <2>2. QED
    BY <2>1
<1>3. QED
  BY <1>1, <1>2

LEMMA TaintedFills ==
    ASSUME TypeOK, FillsSound, NEW us, NEW cause \in Cause, TaintFills(us, cause),
           \A u \in Users : \A e \in Entry :
               Sound(u, e) => IF u \in us THEN Sound(u, Taint(e, cause))'
                                          ELSE Sound(u, e)'
    PROVE  FillsSound'
<1>1. SUFFICES ASSUME NEW c \in Clients, fill'[c] # None
               PROVE  Sound(Owner[c], fill[c])'
  BY DEF FillsSound
<1>2. PICK e \in Entry : e = fill[c]
  BY <1>1, TaintFillsNone DEF TypeOK
<1>3. PICK u \in Users : u = Owner[c]
  BY TimelineAssumption
<1>4. Sound(u, e)
  BY <1>1, <1>2, <1>3, TaintFillsNone DEF FillsSound
<1>5. PICK f : f = IF u \in us THEN Taint(e, cause) ELSE e
  OBVIOUS
<1>6. f = fill'[c]
  BY <1>1, <1>2, <1>3, <1>5, TaintFillsNone DEF TaintFills
<1>7. Sound(u, f)'
  BY <1>4, <1>5, TaintedSound
<1>8. QED
  BY <1>3, <1>6, <1>7, SoundFill

LEMMA TaintedFile ==
    ASSUME TypeOK, FileSound, NEW us, NEW cause \in Cause,
           file' = Tainted(file, us, cause),
           \A u \in Users : \A e \in Entry :
               Sound(u, e) => IF u \in us THEN Sound(u, Taint(e, cause))'
                                          ELSE Sound(u, e)'
    PROVE  FileSound'
<1>1. SUFFICES ASSUME NEW u \in Users, file'[u] # None PROVE Sound(u, file[u])'
  BY DEF FileSound
<1>2. file[u] # None
  BY <1>1 DEF Tainted
<1>3. PICK e \in Entry : e = file[u]
  BY <1>2 DEF TypeOK
<1>4. Sound(u, e)
  BY <1>2, <1>3 DEF FileSound
<1>5. PICK f : f = IF u \in us THEN Taint(e, cause) ELSE e
  OBVIOUS
<1>6. f = file'[u]
  BY <1>2, <1>3, <1>5 DEF Tainted
<1>7. Sound(u, f)'
  BY <1>4, <1>5, TaintedSound
<1>8. QED
  BY <1>6, <1>7, SoundSynced

LEMMA InvalidatedValues ==
    ASSUME TypeOK, AllSound, NEW us, NEW cause \in Cause, Invalidate(us, cause),
           \A u \in Users : \A e \in Entry :
               Sound(u, e) => IF u \in us THEN Sound(u, Taint(e, cause))'
                                          ELSE Sound(u, e)'
    PROVE  AllSound'
<1>1. ASSUME NEW u \in Users, cache'[u] # None PROVE Sound(u, cache[u])'
  <2>1. u \notin us /\ cache'[u] = cache[u]
    BY <1>1 DEF Invalidate
  <2>2. PICK e \in Entry : e = cache[u]
    BY <1>1, <2>1 DEF TypeOK
  <2>3. Sound(u, e)
    BY <1>1, <2>1, <2>2 DEF AllSound, EntriesSound
  <2>4. Sound(u, e)'
    BY <2>1, <2>3
  <2>5. QED
    BY <2>1, <2>2, <2>4, SoundEntry
<1>2. FileSound' /\ FillsSound'
  BY TaintedFile, TaintedFills DEF Invalidate, AllSound
<1>3. QED
  BY <1>1, <1>2 DEF AllSound, EntriesSound

LEMMA MissedValues ==
    ASSUME TypeOK, AllSound, NEW us, NEW cause \in Cause, Missed(us, cause),
           \A u \in Users : \A e \in Entry :
               Sound(u, e) => IF u \in us THEN Sound(u, Taint(e, cause))'
                                          ELSE Sound(u, e)'
    PROVE  AllSound'
<1>1. ASSUME NEW u \in Users, cache'[u] # None PROVE Sound(u, cache[u])'
  <2>1. cache[u] # None
    BY <1>1 DEF Missed, Tainted
  <2>2. PICK e \in Entry : e = cache[u]
    BY <2>1 DEF TypeOK
  <2>3. Sound(u, e)
    BY <2>1, <2>2 DEF AllSound, EntriesSound
  <2>4. PICK f : f = IF u \in us THEN Taint(e, cause) ELSE e
    OBVIOUS
  <2>5. f = cache'[u]
    BY <2>1, <2>2, <2>4 DEF Missed, Tainted
  <2>6. Sound(u, f)'
    BY <2>3, <2>4, TaintedSound
  <2>7. QED
    BY <2>5, <2>6, SoundEntry
<1>2. FileSound' /\ FillsSound'
  BY TaintedFile, TaintedFills DEF Missed, AllSound
<1>3. QED
  BY <1>1, <1>2 DEF AllSound, EntriesSound
-----------------------------------------------------------------------------
(* What each step does to Sound(u, e). *)

LEMMA PendingKept ==
    ASSUME NEW u \in Users,
           \A d \in Clients : Owner[d] = u /\ pc[d] \in {"publish", "del"}
                                => pc'[d] \in {"publish", "del"}
    PROVE  Pending(u) => Pending(u)'
BY DEF Pending

LEMMA PendingSound ==
    ASSUME NEW u \in Users, NEW e \in Entry, Pending(u)'
    PROVE  Sound(u, e)'
BY DEF Sound, OwnPart, FollowedPart

LEMMA FrameSound ==
    ASSUME NEW u \in Users, NEW e \in Entry, Sound(u, e),
           posts' = posts, follows' = follows, Pending(u) => Pending(u)',
           \A p \in posts : <<u, p.author>> \in follows /\ InTransit(u, p)
                                => InTransit(u, p)'
    PROVE  Sound(u, e)'
<1>1. OwnPart(u, e)'
  BY DEF Sound, OwnPart, ShowsOwnChanges, ShowsOwnPosts
<1>2. FollowedPart(u, e)'
  BY DEF Sound, FollowedPart
<1>3. QED
  BY <1>1, <1>2 DEF Sound

LEMMA FrameTainted ==
    ASSUME NEW u \in Users, NEW e \in Entry, NEW cause \in Cause, Sound(u, e),
           posts' = posts, follows' = follows,
           cause = "own" \/ (Pending(u) => Pending(u)')
    PROVE  Sound(u, Taint(e, cause))'
<1>1. PICK f : f = Taint(e, cause)
  OBVIOUS
<1>2. f.page = e.page /\ f.taint = e.taint \cup {cause}
  BY <1>1 DEF Taint, Entry
<1>3. OwnPart(u, f)'
  BY <1>2 DEF Sound, OwnPart, ShowsOwnChanges, ShowsOwnPosts
<1>4. FollowedPart(u, f)'
  BY <1>2 DEF FollowedPart
<1>5. QED
  BY <1>1, <1>3, <1>4 DEF Sound

(* A page as it was read overlooks nothing of what it was read from. *)
LEMMA PageComplete ==
    ASSUME NEW rows \in SUBSET Row, NEW page \in Pages(rows), NEW p \in rows
    PROVE  ~ Overlooks(page, p)
<1>1. SUFFICES ASSUME p \notin page PROVE ~ Overlooks(page, p)
  BY DEF Overlooks
<1>2. Cardinality(page) = Limit /\ \A q \in page : p.id < q.id
  BY <1>1 DEF Pages, IsPage
<1>3. p.id \in Nat /\ \A q \in page : q.id \in Nat
  BY DEF Pages, IsPage, Row, PostId
<1>4. QED
  BY <1>2, <1>3, SchemaAssumption DEF Overlooks

LEMMA FreshSound ==
    ASSUME TypeOK, NEW u \in Users,
           NEW page \in Pages(Visible(posts, follows, u))
    PROVE  Sound(u, [page |-> page, taint |-> {}])
<1> DEFINE e == [page |-> page, taint |-> {}]
<1>1. Visible(posts, follows, u) \in SUBSET Row
  BY DEF Visible, TypeOK
<1>2. page \subseteq Visible(posts, follows, u)
  BY DEF Pages
<1>3. \A p \in Visible(posts, follows, u) : ~ Overlooks(page, p)
  BY <1>1, PageComplete
<1>4. ShowsOwnChanges(u, page)
  BY <1>2, <1>3 DEF ShowsOwnChanges, ShowsOwnPosts, Visible
<1>5. QED
  BY <1>3, <1>4 DEF Sound, OwnPart, FollowedPart, Visible

LEMMA TopLevelSurvives ==
    ASSUME TypeOK, RowsOK, NEW p \in posts, NEW q \in posts, IsTopLevel(q),
           q # p
    PROVE  q \in WithoutThread(posts, p.id)
<1> DEFINE S == {p.id} \cup {x.id : x \in {y \in posts : ~ IsTopLevel(y)}}
<1>1. S \in SUBSET PostId
  BY DEF TypeOK, Row
<1>2. p.id \in S /\ ClosedUnderReply(posts, S)
  <2>1. ASSUME NEW x \in posts, x.parent \in S PROVE x.id \in S
    <3>1. x.parent # 0
      BY <1>1, <2>1 DEF PostId
    <3>2. QED
      BY <3>1 DEF IsTopLevel
  <2>2. QED
    BY <2>1 DEF ClosedUnderReply
<1>3. q.id \notin S
  BY DEF RowsOK
<1>4. ~ InThread(posts, p.id, q)
  BY <1>1, <1>2, <1>3 DEF InThread
<1>5. QED
  BY <1>4 DEF WithoutThread

LEMMA InsertSound ==
    ASSUME TypeOK, ControlOK, NEW c \in Clients, NEW parent, InsertPost(c, parent),
           pc[c] \in {"idle", "insert"},
           NEW u \in Users, NEW e \in Entry, Sound(u, e)
    PROVE  Sound(u, e)'
<1>0. PICK row : row = [id |-> nextId, author |-> Owner[c], parent |-> parent]
  OBVIOUS
<1>1. /\ posts' = posts \cup {row} /\ follows' = follows /\ bus' = bus
      /\ made' = [made EXCEPT ![c] = row] /\ pc' = [pc EXCEPT ![c] = "publish"]
      /\ job' = job /\ wpc' = wpc /\ targets' = targets
  BY <1>0 DEF InsertPost, work
<1>2. row.author = Owner[c]
  BY <1>0
<1>3. pc'[c] = "publish" /\ made'[c] = row
  BY <1>1 DEF TypeOK
<1>4. \A d \in Clients : d # c => pc'[d] = pc[d] /\ made'[d] = made[d]
  BY <1>1 DEF TypeOK
<1>5. CASE u = Owner[c]
  BY <1>3, <1>5, PendingSound DEF Pending
<1>6. CASE u # Owner[c]
  <2>1. Pending(u) => Pending(u)'
    BY <1>4, <1>6 DEF Pending
  <2>2. OwnPart(u, e)'
    BY <1>1, <1>2, <1>6, <2>1 DEF Sound, OwnPart, ShowsOwnChanges, ShowsOwnPosts
  <2>3. \A p : InTransit(u, p) => InTransit(u, p)'
    BY <1>1, <1>4 DEF InTransit
  <2>4. InTransit(u, row)'
    BY <1>3 DEF InTransit
  <2>5. FollowedPart(u, e)'
    BY <1>1, <2>1, <2>3, <2>4 DEF Sound, FollowedPart
  <2>6. QED
    BY <2>2, <2>5 DEF Sound
<1>7. QED
  BY <1>5, <1>6

LEMMA DeleteSound ==
    ASSUME TypeOK, RowsOK, NEW c \in Clients, NEW p \in posts, DeletePost(c, p),
           NEW u \in Users, NEW e \in Entry, Sound(u, e)
    PROVE  Sound(u, e)'
<1>1. /\ posts' = WithoutThread(posts, p.id) /\ follows' = follows /\ bus' = bus
      /\ pc' = [pc EXCEPT ![c] = "del"] /\ pc[c] = "idle" /\ p.author = Owner[c]
      /\ made' = made /\ job' = job /\ wpc' = wpc /\ targets' = targets
  BY DEF DeletePost, work
<1>2. pc'[c] = "del" /\ \A d \in Clients : d # c => pc'[d] = pc[d]
  BY <1>1 DEF TypeOK
<1>3. posts' \subseteq posts
  BY <1>1 DEF WithoutThread
<1>4. CASE u = Owner[c]
  BY <1>2, <1>4, PendingSound DEF Pending
<1>5. CASE u # Owner[c]
  <2>1. Pending(u) => Pending(u)'
    BY <1>2, <1>5 DEF Pending
  <2>2. ASSUME NEW q \in posts, q.author = u, IsTopLevel(q) PROVE q \in posts'
    BY <1>1, <1>5, <2>2, TopLevelSurvives
  <2>3. OwnPart(u, e)'
    BY <1>1, <1>3, <2>1, <2>2 DEF Sound, OwnPart, ShowsOwnChanges, ShowsOwnPosts
  <2>4. \A q : InTransit(u, q) => InTransit(u, q)'
    BY <1>1, <1>2 DEF InTransit
  <2>5. FollowedPart(u, e)'
    BY <1>1, <1>3, <2>1, <2>4 DEF Sound, FollowedPart
  <2>6. QED
    BY <2>3, <2>5 DEF Sound
<1>6. QED
  BY <1>4, <1>5

LEMMA FollowSound ==
    ASSUME TypeOK, NEW c \in Clients, NEW other \in Users,
           Follow(c, other) \/ Unfollow(c, other),
           NEW u \in Users, NEW e \in Entry, Sound(u, e)
    PROVE  Sound(u, e)'
<1>1. /\ posts' = posts /\ bus' = bus
      /\ pc' = [pc EXCEPT ![c] = "del"] /\ pc[c] = "idle"
      /\ made' = made /\ job' = job /\ wpc' = wpc /\ targets' = targets
  BY DEF Follow, Unfollow, work
<1>2. pc'[c] = "del" /\ \A d \in Clients : d # c => pc'[d] = pc[d]
  BY <1>1 DEF TypeOK
<1>3. CASE u = Owner[c]
  BY <1>2, <1>3, PendingSound DEF Pending
<1>4. CASE u # Owner[c]
  <2>1. Pending(u) => Pending(u)'
    BY <1>2, <1>4 DEF Pending
  <2>2. \A a : <<u, a>> \in follows' <=> <<u, a>> \in follows
    BY <1>4 DEF Follow, Unfollow
  <2>3. \A q : InTransit(u, q) => InTransit(u, q)'
    BY <1>1, <1>2 DEF InTransit
  <2>4. OwnPart(u, e)'
    BY <1>1, <2>1, <2>2 DEF Sound, OwnPart, ShowsOwnChanges, ShowsOwnPosts
  <2>5. FollowedPart(u, e)'
    BY <1>1, <2>1, <2>2, <2>3 DEF Sound, FollowedPart
  <2>6. QED
    BY <2>4, <2>5 DEF Sound
<1>5. QED
  BY <1>3, <1>4

(* Steps of a request that touch neither the tables nor what is pending. *)
LEMMA QuietSound ==
    ASSUME TypeOK, NEW c \in Clients, NEW stage \in Stage,
           pc' = [pc EXCEPT ![c] = stage], pc[c] \notin {"publish", "del"},
           posts' = posts, follows' = follows, made' = made, bus' = bus,
           job' = job, wpc' = wpc, targets' = targets,
           NEW u \in Users, NEW e \in Entry, Sound(u, e)
    PROVE  Sound(u, e)'
<1>1. \A d \in Clients : d # c => pc'[d] = pc[d]
  BY DEF TypeOK
<1>2. Pending(u) => Pending(u)'
  BY <1>1, PendingKept
<1>3. \A p \in posts : InTransit(u, p) => InTransit(u, p)'
  BY <1>1 DEF InTransit
<1>4. QED
  BY <1>2, <1>3, FrameSound

LEMMA PublishSound ==
    ASSUME TypeOK, NEW c \in Clients, Publish(c),
           NEW u \in Users, NEW e \in Entry, Sound(u, e)
    PROVE  Sound(u, e)'
<1>1. /\ pc'[c] = "del" /\ \A d \in Clients : d # c => pc'[d] = pc[d]
      /\ \A d \in Clients : d # c => made'[d] = made[d]
      /\ bus' = bus \cup {made[c]}
  BY DEF Publish, TypeOK
<1>2. Pending(u) => Pending(u)'
  BY <1>1, PendingKept
<1>3. \A p \in posts : InTransit(u, p) => InTransit(u, p)'
  BY <1>1 DEF InTransit, Publish, work
<1>4. QED
  BY <1>2, <1>3, FrameSound DEF Publish, db

LEMMA PublishDroppedSound ==
    ASSUME TypeOK, ControlOK, NEW c \in Clients, PublishDropped(c),
           NEW u \in Users, NEW e \in Entry, Sound(u, e)
    PROVE  IF u \in FollowerIDs(follows, made[c].author)
           THEN Sound(u, Taint(e, "fanout"))' ELSE Sound(u, e)'
<1>1. /\ pc'[c] = "del" /\ \A d \in Clients : d # c => pc'[d] = pc[d]
      /\ \A d \in Clients : d # c => made'[d] = made[d]
      /\ posts' = posts /\ follows' = follows
  BY DEF PublishDropped, TypeOK, db
<1>2. Pending(u) => Pending(u)'
  BY <1>1, PendingKept
<1>3. CASE u \in FollowerIDs(follows, made[c].author)
  BY <1>1, <1>2, <1>3, FrameTainted
<1>4. CASE u \notin FollowerIDs(follows, made[c].author)
  <2>1. ASSUME NEW p \in posts, <<u, p.author>> \in follows, InTransit(u, p)
        PROVE  InTransit(u, p)'
    <3>1. p # made[c]
      BY <1>4, <2>1 DEF FollowerIDs
    <3>2. QED
      BY <1>1, <2>1, <3>1 DEF InTransit, PublishDropped, work
  <2>2. QED
    BY <1>1, <1>2, <1>4, <2>1, FrameSound
<1>5. QED
  BY <1>3, <1>4

LEMMA DropOwnSound ==
    ASSUME TypeOK, ControlOK, NEW c \in Clients, DropOwn(c) \/ DropOwnFails(c),
           NEW u \in Users, NEW e \in Entry, Sound(u, e)
    PROVE  IF u \in {Owner[c]} THEN Sound(u, Taint(e, "own"))' ELSE Sound(u, e)'
<1>1. /\ pc[c] = "del" /\ \A d \in Clients : d # c => pc'[d] = pc[d]
      /\ posts' = posts /\ follows' = follows /\ made' = made /\ bus' = bus
      /\ job' = job /\ wpc' = wpc /\ targets' = targets
  BY DEF DropOwn, DropOwnFails, TypeOK, db, work
<1>2. CASE u = Owner[c]
  BY <1>1, <1>2, FrameTainted
<1>3. CASE u # Owner[c]
  <2>1. Pending(u) => Pending(u)'
    BY <1>1, <1>3, PendingKept
  <2>2. \A p \in posts : InTransit(u, p) => InTransit(u, p)'
    BY <1>1 DEF InTransit
  <2>3. QED
    BY <1>1, <1>3, <2>1, <2>2, FrameSound
<1>4. QED
  BY <1>2, <1>3

LEMMA DeliverSound ==
    ASSUME TypeOK, ControlOK, NEW w \in Workers, NEW m \in bus, Deliver(w, m),
           NEW u \in Users, NEW e \in Entry, Sound(u, e)
    PROVE  Sound(u, e)'
<1>1. /\ job'[w] = m /\ wpc'[w] = "lookup" /\ job[w] = None
      /\ \A v \in Workers : v # w => job'[v] = job[v] /\ wpc'[v] = wpc[v]
      /\ bus' = bus \ {m} /\ targets' = targets /\ pc' = pc /\ made' = made
      /\ posts' = posts /\ follows' = follows
  BY DEF Deliver, TypeOK, ControlOK, db, web
<1>2. Pending(u) => Pending(u)'
  BY <1>1, PendingKept
<1>3. \A p \in posts : InTransit(u, p) => InTransit(u, p)'
  <2>1. SUFFICES ASSUME NEW p \in posts, InTransit(u, p) PROVE InTransit(u, p)'
    OBVIOUS
  <2>2. p # None
    BY RowNotNone DEF TypeOK
  <2>3. QED
    BY <1>1, <2>1, <2>2 DEF InTransit
<1>4. QED
  BY <1>1, <1>2, <1>3, FrameSound

LEMMA LookUpSound ==
    ASSUME TypeOK, NEW w \in Workers, LookUpFollowers(w),
           NEW u \in Users, NEW e \in Entry, Sound(u, e)
    PROVE  Sound(u, e)'
<1>1. /\ targets'[w] = FollowerIDs(follows, job[w].author)
      /\ \A v \in Workers : v # w => targets'[v] = targets[v] /\ wpc'[v] = wpc[v]
      /\ bus' = bus /\ job' = job /\ pc' = pc /\ made' = made
      /\ posts' = posts /\ follows' = follows
  BY DEF LookUpFollowers, TypeOK, db, web
<1>2. Pending(u) => Pending(u)'
  BY <1>1, PendingKept
<1>3. ASSUME NEW p \in posts, <<u, p.author>> \in follows, InTransit(u, p)
      PROVE  InTransit(u, p)'
  BY <1>1, <1>3 DEF InTransit, FollowerIDs
<1>4. QED
  BY <1>1, <1>2, <1>3, FrameSound

LEMMA DropFollowersSound ==
    ASSUME TypeOK, NEW w \in Workers, DropFollowers(w) \/ DropFollowersFails(w),
           NEW u \in Users, NEW e \in Entry, Sound(u, e)
    PROVE  IF u \in targets[w] THEN Sound(u, Taint(e, "fanout"))' ELSE Sound(u, e)'
<1>1. /\ wpc[w] = "del" /\ bus' = bus /\ pc' = pc /\ made' = made
      /\ posts' = posts /\ follows' = follows
      /\ \A v \in Workers : v # w => /\ job'[v] = job[v] /\ wpc'[v] = wpc[v]
                                    /\ targets'[v] = targets[v]
  BY DEF DropFollowers, DropFollowersFails, Rest, TypeOK, db
<1>2. Pending(u) => Pending(u)'
  BY <1>1, PendingKept
<1>3. CASE u \in targets[w]
  BY <1>1, <1>2, <1>3, FrameTainted
<1>4. CASE u \notin targets[w]
  <2>1. \A p \in posts : InTransit(u, p) => InTransit(u, p)'
    BY <1>1, <1>4 DEF InTransit
  <2>2. QED
    BY <1>1, <1>2, <1>4, <2>1, FrameSound
<1>5. QED
  BY <1>3, <1>4

LEMMA LookUpFailsSound ==
    ASSUME TypeOK, NEW w \in Workers, LookUpFails(w),
           NEW u \in Users, NEW e \in Entry, Sound(u, e)
    PROVE  IF u \in FollowerIDs(follows, job[w].author)
           THEN Sound(u, Taint(e, "fanout"))' ELSE Sound(u, e)'
<1>1. /\ bus' = bus /\ pc' = pc /\ made' = made
      /\ posts' = posts /\ follows' = follows
      /\ \A v \in Workers : v # w => /\ job'[v] = job[v] /\ wpc'[v] = wpc[v]
                                    /\ targets'[v] = targets[v]
  BY DEF LookUpFails, Rest, TypeOK, db
<1>2. Pending(u) => Pending(u)'
  BY <1>1, PendingKept
<1>3. CASE u \in FollowerIDs(follows, job[w].author)
  BY <1>1, <1>2, <1>3, FrameTainted
<1>4. CASE u \notin FollowerIDs(follows, job[w].author)
  <2>1. ASSUME NEW p \in posts, <<u, p.author>> \in follows, InTransit(u, p)
        PROVE  InTransit(u, p)'
    BY <1>1, <1>4, <2>1 DEF InTransit, FollowerIDs
  <2>2. QED
    BY <1>1, <1>2, <1>4, <2>1, FrameSound
<1>5. QED
  BY <1>3, <1>4

LEMMA LoseSound ==
    ASSUME TypeOK, NEW m \in bus, Lose(m),
           NEW u \in Users, NEW e \in Entry, Sound(u, e)
    PROVE  IF u \in FollowerIDs(follows, m.author)
           THEN Sound(u, Taint(e, "fanout"))' ELSE Sound(u, e)'
<1>1. /\ bus' = bus \ {m} /\ pc' = pc /\ made' = made
      /\ posts' = posts /\ follows' = follows
      /\ job' = job /\ wpc' = wpc /\ targets' = targets
  BY DEF Lose, db, work
<1>2. Pending(u) => Pending(u)'
  BY <1>1, PendingKept
<1>3. CASE u \in FollowerIDs(follows, m.author)
  BY <1>1, <1>2, <1>3, FrameTainted
<1>4. CASE u \notin FollowerIDs(follows, m.author)
  <2>1. ASSUME NEW p \in posts, <<u, p.author>> \in follows, InTransit(u, p)
        PROVE  InTransit(u, p)'
    BY <1>1, <1>4, <2>1 DEF InTransit, FollowerIDs
  <2>2. QED
    BY <1>1, <1>2, <1>4, <2>1, FrameSound
<1>5. QED
  BY <1>3, <1>4
-----------------------------------------------------------------------------
(* The whole next-state relation. *)

LEMMA QueryEntries ==
    ASSUME IInv, NEW c \in Clients, Query(c)
    PROVE  AllSound'
<1>1. \A u \in Users : \A e \in Entry : Sound(u, e) => Sound(u, e)'
  BY QuietSound DEF Query, db, work, IInv
<1>2. PICK u \in Users : u = Owner[c]
  BY TimelineAssumption
<1>3. PICK page \in Pages(Visible(posts, follows, u)) :
         fill' = [fill EXCEPT ![c] = [page |-> page, taint |-> {}]]
  BY <1>2 DEF Query
<1>4. PICK f : f = [page |-> page, taint |-> {}]
  OBVIOUS
<1>5. f \in Entry /\ Sound(u, f)
  BY <1>3, <1>4, FreshSound DEF Pages, Visible, TypeOK, Entry, IInv
<1>6. \A d \in Clients : fill'[d] # None =>
         \E e \in Entry : e = fill'[d] /\ Sound(Owner[d], e)
  <2>1. ASSUME NEW d \in Clients, fill'[d] # None, d # c
        PROVE  \E e \in Entry : e = fill'[d] /\ Sound(Owner[d], e)
    BY <1>3, <2>1, HeldSound DEF IInv, AllSound, TypeOK
  <2>2. fill'[c] = f
    BY <1>3, <1>4 DEF IInv, TypeOK
  <2>3. QED
    BY <1>2, <1>5, <2>1, <2>2
<1>7. QED
  BY <1>1, <1>6, HeldSound, HeldValues DEF Query, IInv, AllSound

LEMMA PutEntries ==
    ASSUME IInv, NEW c \in Clients, PutTimeline(c)
    PROVE  AllSound'
<1>1. \A u \in Users : \A e \in Entry : Sound(u, e) => Sound(u, e)'
  BY QuietSound DEF PutTimeline, db, work, IInv
<1>2. fill[c] # None
  BY DEF PutTimeline, IInv, ControlOK
<1>3. /\ \A u \in Users : cache'[u] = IF u = Owner[c] THEN fill[c] ELSE cache[u]
      /\ \A d \in Clients : fill'[d] = IF d = c THEN None ELSE fill[d]
  BY DEF PutTimeline, IInv, TypeOK
<1>4. \A u \in Users : cache'[u] # None =>
         \E e \in Entry : e = cache'[u] /\ Sound(u, e)
  BY <1>2, <1>3, HeldSound DEF IInv, AllSound
<1>5. \A d \in Clients : fill'[d] # None =>
         \E e \in Entry : e = fill'[d] /\ Sound(Owner[d], e)
  BY <1>3, HeldSound DEF IInv, AllSound
<1>6. QED
  BY <1>1, <1>4, <1>5, HeldSound, HeldValues DEF PutTimeline, IInv, AllSound

LEMMA AbandonEntries ==
    ASSUME IInv, NEW c \in Clients, Abandon(c)
    PROVE  AllSound'
<1>1. \A u \in Users : \A e \in Entry : Sound(u, e) => Sound(u, e)'
  BY QuietSound DEF Abandon, db, work, IInv
<1>2. \A d \in Clients : fill'[d] # None => fill'[d] = fill[d]
  BY DEF Abandon, IInv, TypeOK
<1>3. QED
  BY <1>1, <1>2, HeldSound, HeldValues DEF Abandon, IInv, AllSound

(* What Redis does by itself moves sound entries about and drops them. *)
LEMMA RedisEntries ==
    ASSUME IInv, (\E u \in Users : Expire(u) \/ Evict(u)) \/ Sync \/ Restart
    PROVE  AllSound'
<1>1. UNCHANGED <<db, web, bus, work>>
  BY DEF Expire, Evict, Sync, Restart
<1>2. ASSUME NEW v \in Users, NEW e \in Entry, Sound(v, e) PROVE Sound(v, e)'
  <2>1. Pending(v) => Pending(v)'
    BY <1>1, PendingKept DEF web
  <2>2. \A p \in posts : InTransit(v, p) => InTransit(v, p)'
    BY <1>1 DEF web, work, InTransit
  <2>3. QED
    BY <1>1, <1>2, <2>1, <2>2, FrameSound DEF db
<1>3. \A v \in Users : /\ cache'[v] \in {cache[v], file[v], None}
                       /\ file'[v] \in {cache[v], file[v], None}
  BY DEF Expire, Evict, Sync, Restart, IInv, TypeOK
<1>4. fill' = fill
  BY <1>1 DEF web
<1>5. /\ \A v \in Users : cache'[v] # None =>
            \E e \in Entry : e = cache'[v] /\ Sound(v, e)
      /\ \A v \in Users : file'[v] # None =>
            \E e \in Entry : e = file'[v] /\ Sound(v, e)
  BY <1>3, HeldSound DEF IInv, AllSound
<1>6. QED
  BY <1>2, <1>4, <1>5, HeldSound, HeldValues DEF IInv, AllSound

LEMMA BeginEntries ==
    ASSUME IInv, NEW c \in Clients, Begin(c)
    PROVE  AllSound'
<1> USE DEF IInv, AllSound, db, web, work
<1>1. CASE CreateTopLevel(c)
  BY <1>1, InsertSound, SameValues DEF CreateTopLevel, InsertPost
<1>2. ASSUME NEW id \in PostId, CheckParent(c, id)
      PROVE  AllSound'
  BY <1>2, QuietSound, SameValues DEF CheckParent
<1>3. ASSUME NEW p \in posts, DeletePost(c, p)
      PROVE  AllSound'
  BY <1>3, DeleteSound, SameValues DEF DeletePost
<1>4. ASSUME NEW other \in Users, Follow(c, other) \/ Unfollow(c, other)
      PROVE  AllSound'
  BY <1>4, FollowSound, SameValues DEF Follow, Unfollow
<1>5. CASE Miss(c)
  BY <1>5, QuietSound, SameValues DEF Miss
<1>6. QED
  BY <1>1, <1>2, <1>3, <1>4, <1>5 DEF Begin

LEMMA ContinueEntries ==
    ASSUME IInv, NEW c \in Clients, Continue(c)
    PROVE  AllSound'
<1> USE DEF IInv, AllSound, db, web, work
<1>1. CASE CreateReply(c)
  BY <1>1, InsertSound, SameValues DEF CreateReply, InsertPost
<1>2. CASE ReplyRefused(c)
  BY <1>2, QuietSound, SameValues DEF ReplyRefused
<1>3. CASE Publish(c)
  BY <1>3, PublishSound, SameValues DEF Publish
<1>4. CASE PublishDropped(c)
  BY <1>4, PublishDroppedSound, MissedValues DEF PublishDropped
<1>5. CASE DropOwn(c)
  BY <1>5, DropOwnSound, InvalidatedValues DEF DropOwn
<1>6. CASE DropOwnFails(c)
  BY <1>6, DropOwnSound, MissedValues DEF DropOwnFails
<1>7. CASE Query(c)
  BY <1>7, QueryEntries
<1>8. CASE PutTimeline(c)
  BY <1>8, PutEntries
<1>9. CASE Abandon(c)
  BY <1>9, AbandonEntries
<1>10. QED
  BY <1>1, <1>2, <1>3, <1>4, <1>5, <1>6, <1>7, <1>8, <1>9 DEF Continue

LEMMA WorkEntries ==
    ASSUME IInv, NEW w \in Workers, Work(w)
    PROVE  AllSound'
<1> USE DEF IInv, AllSound, db, web, work
<1>1. ASSUME NEW m \in bus, Deliver(w, m) PROVE AllSound'
  BY <1>1, DeliverSound, SameValues DEF Deliver
<1>2. CASE LookUpFollowers(w)
  BY <1>2, LookUpSound, SameValues DEF LookUpFollowers
<1>3. CASE DropFollowers(w)
  BY <1>3, DropFollowersSound, InvalidatedValues DEF DropFollowers
<1>4. CASE LookUpFails(w)
  BY <1>4, LookUpFailsSound, MissedValues DEF LookUpFails
<1>5. CASE DropFollowersFails(w)
  BY <1>5, DropFollowersSound, MissedValues DEF DropFollowersFails
<1>6. QED
  BY <1>1, <1>2, <1>3, <1>4, <1>5 DEF Work

LEMMA StutterEntries ==
    ASSUME IInv, UNCHANGED vars
    PROVE  AllSound'
<1>1. ASSUME NEW u \in Users, NEW e \in Entry, Sound(u, e) PROVE Sound(u, e)'
  <2>1. Pending(u) => Pending(u)'
    BY PendingKept DEF vars, sys, web
  <2>2. \A p \in posts : InTransit(u, p) => InTransit(u, p)'
    BY DEF vars, sys, web, work, InTransit
  <2>3. QED
    BY <1>1, <2>1, <2>2, FrameSound DEF vars, sys, db
<1>2. QED
  BY <1>1, SameValues DEF IInv, AllSound, vars, sys, web

LEMMA InitInv == Init => IInv
<1>1. Init => AllSound
  BY DEF Init, AllSound, EntriesSound, FileSound, FillsSound
<1>2. QED
  BY <1>1, InitType, InitControl, InitRows DEF IInv, AllSound

LEMMA NextInv == IInv /\ [Next]_vars => IInv'
<1> SUFFICES ASSUME IInv, [Next]_vars PROVE IInv'
  OBVIOUS
<1>1. TypeOK' /\ ControlOK' /\ RowsOK'
  BY NextType, NextControl, NextRows DEF IInv
<1>2. AllSound'
  <2>1. ASSUME NEW m \in bus, Lose(m) PROVE AllSound'
    BY <2>1, LoseSound, MissedValues DEF IInv, AllSound, Lose
  <2>2. QED
    BY <2>1, BeginEntries, ContinueEntries, WorkEntries, RedisEntries,
       StutterEntries DEF Next, Step
<1>3. QED
  BY <1>1, <1>2 DEF IInv, AllSound

THEOREM Invariance == Spec => []IInv
BY InitInv, NextInv, PTL DEF Spec

(* A user's answered posts, deletions and unfollows show on their cached    *)
(* timeline unless a DEL of their key was raced by a fill, failed, or was   *)
(* undone by a restart of Redis.                                            *)
THEOREM OwnChangesAreShown == Spec => []OwnChangesShown
<1>1. IInv => OwnChangesShown
  BY DEF IInv, EntriesSound, Sound, OwnChangesShown
<1>2. QED
  BY <1>1, Invariance, PTL

(* A followed author's post is missing from a cached timeline only while    *)
(* its fan-out is on the way, was raced, was lost, or was undone by a       *)
(* restart of Redis.                                                        *)
THEOREM FollowedPostsAreShown == Spec => []FollowedPostsShown
<1>1. IInv => FollowedPostsShown
  BY DEF IInv, EntriesSound, Sound, FollowedPostsShown
<1>2. QED
  BY <1>1, Invariance, PTL

(* Only a request of its author takes a top-level post away: a cascade from *)
(* someone else's delete never reaches one.                                 *)
THEOREM TopLevelPostsAreTheirAuthors == Spec => OnlyAuthorDeletes
<1> DEFINE Gone(p) == \E c \in Clients :
                         Owner[c] = p.author /\ pc[c] = "idle" /\ pc'[c] = "del"
<1>1. ASSUME IInv, [Next]_vars, NEW p \in posts \ posts', IsTopLevel(p)
      PROVE  Gone(p)
  <2>1. ASSUME NEW c \in Clients, NEW q \in posts, DeletePost(c, q) PROVE Gone(p)
    <3>1. p = q
      BY <1>1, <2>1, TopLevelSurvives DEF DeletePost, IInv
    <3>2. QED
      BY <1>1, <2>1, <3>1 DEF DeletePost, IInv, TypeOK
  <2>2. CASE \A c \in Clients, q \in posts : ~ DeletePost(c, q)
    <3>1. posts \subseteq posts'
      BY <1>1, <2>2
         DEF Next, Step, Begin, Continue, Work, vars, sys, db,
             CreateTopLevel, CreateReply, InsertPost, CheckParent, Follow, Unfollow, Miss,
             ReplyRefused, Publish, PublishDropped, DropOwn, DropOwnFails,
             Query, PutTimeline, Abandon, Deliver, LookUpFollowers, DropFollowers,
             LookUpFails, DropFollowersFails, Lose, Expire, Evict, Sync, Restart
    <3>2. QED
      BY <3>1
  <2>3. QED
    BY <2>1, <2>2
<1>2. IInv /\ [Next]_vars =>
        [\A p \in posts \ posts' : IsTopLevel(p) => Gone(p)]_vars
  BY <1>1
<1>3. QED
  BY <1>2, Invariance, PTL DEF Spec, OnlyAuthorDeletes
-----------------------------------------------------------------------------
(* A user whose requests never overlapped that way, with no failing DEL and *)
(* no restart: nothing of theirs ever carries the taint "own".              *)

NoOwnTaint ==
    /\ \A u \in Users : Undisturbed(u) /\ cache[u] # None => "own" \notin cache[u].taint
    /\ \A c \in Clients :
          Undisturbed(Owner[c]) /\ fill[c] # None => "own" \notin fill[c].taint

(* Whoever has a change and a timeline to SET in progress is known for it. *)
HastyKnown == \A u \in Users : Overlap(u) => u \in hasty

LEMMA FanoutTaint ==
    ASSUME TypeOK, NoOwnTaint, hasty \subseteq hasty', NEW us, TaintFills(us, "fanout")
    PROVE  \A c \in Clients :
             Undisturbed(Owner[c])' /\ fill'[c] # None => "own" \notin fill'[c].taint
<1>1. \A e \in Entry : Taint(e, "fanout").taint = e.taint \cup {"fanout"}
  BY DEF Taint, Entry
<1>2. QED
  BY <1>1 DEF TypeOK, NoOwnTaint, TaintFills, Undisturbed

LEMMA FanoutMissed ==
    ASSUME TypeOK, NoOwnTaint, hasty \subseteq hasty', NEW us, Missed(us, "fanout")
    PROVE  NoOwnTaint'
<1>1. \A e \in Entry : Taint(e, "fanout").taint = e.taint \cup {"fanout"}
  BY DEF Taint, Entry
<1>2. \A u \in Users :
        Undisturbed(u)' /\ cache'[u] # None => "own" \notin cache'[u].taint
  BY <1>1 DEF TypeOK, NoOwnTaint, Missed, Tainted, Undisturbed
<1>3. QED
  BY <1>2, FanoutTaint DEF NoOwnTaint, Missed

LEMMA NextHastyKnown ==
    ASSUME HastyKnown, [Next]_vars
    PROVE  HastyKnown' /\ hasty \subseteq hasty'
<1>1. CASE Next
  BY <1>1 DEF Next, HastyKnown
<1>2. CASE UNCHANGED vars
  BY <1>2 DEF vars, sys, web, HastyKnown, Overlap, Pending
<1>3. QED
  BY <1>1, <1>2

LEMMA NextNoOwnTaint ==
    ASSUME IInv, HastyKnown, NoOwnTaint, [Next]_vars
    PROVE  NoOwnTaint'
<1>0. hasty \subseteq hasty'
  BY NextHastyKnown
<1> USE <1>0 DEF IInv, db, web, work, Undisturbed
<1>1. ASSUME NEW c \in Clients, DropOwn(c) PROVE NoOwnTaint'
  <2>1. ASSUME NEW d \in Clients, Undisturbed(Owner[d]), fill[d] # None
        PROVE  Owner[d] # Owner[c]
    <3>1. pc[d] = "put" /\ pc[c] = "del"
      BY <1>1, <2>1 DEF DropOwn, ControlOK
    <3>2. QED
      BY <2>1, <3>1, TimelineAssumption DEF HastyKnown, Overlap, Pending
  <2>2. \A d \in Clients : Undisturbed(Owner[d]) => fill'[d] = fill[d]
    BY <1>1, <2>1 DEF DropOwn, Invalidate, TaintFills, TypeOK
  <2>3. QED
    BY <1>1, <2>2 DEF NoOwnTaint, DropOwn, Invalidate
<1>2. ASSUME NEW c \in Clients, DropOwnFails(c) PROVE NoOwnTaint'
  <2>1. ~ Undisturbed(Owner[c])
    BY <1>2 DEF DropOwnFails
  <2>2. \A d \in Clients : Undisturbed(Owner[d]) => fill'[d] = fill[d]
    BY <1>2, <2>1 DEF DropOwnFails, Missed, TaintFills, TypeOK
  <2>3. \A u \in Users : Undisturbed(u) => cache'[u] = cache[u]
    BY <1>2, <2>1 DEF DropOwnFails, Missed, Tainted, TypeOK
  <2>4. QED
    BY <2>2, <2>3, TimelineAssumption DEF NoOwnTaint
<1>3. ASSUME NEW c \in Clients, Query(c) PROVE NoOwnTaint'
  BY <1>3 DEF NoOwnTaint, Query, TypeOK
<1>4. ASSUME NEW c \in Clients, PutTimeline(c) PROVE NoOwnTaint'
  BY <1>4 DEF NoOwnTaint, PutTimeline, TypeOK, ControlOK
<1>5. ASSUME NEW c \in Clients, Abandon(c) PROVE NoOwnTaint'
  BY <1>5 DEF NoOwnTaint, Abandon, TypeOK
<1>6. ASSUME NEW c \in Clients, PublishDropped(c) PROVE NoOwnTaint'
  BY <1>6, FanoutMissed DEF PublishDropped
<1>7. ASSUME NEW w \in Workers, DropFollowers(w) PROVE NoOwnTaint'
  BY <1>7, FanoutTaint DEF DropFollowers, Invalidate, NoOwnTaint
<1>8. ASSUME NEW w \in Workers, LookUpFails(w) \/ DropFollowersFails(w)
      PROVE NoOwnTaint'
  BY <1>8, FanoutMissed DEF LookUpFails, DropFollowersFails
<1>9. ASSUME NEW m \in bus, Lose(m) PROVE NoOwnTaint'
  BY <1>9, FanoutMissed DEF Lose
<1>10. ASSUME NEW u \in Users, Expire(u) \/ Evict(u) PROVE NoOwnTaint'
  BY <1>10 DEF Expire, Evict, NoOwnTaint, TypeOK
<1>11. CASE Sync \/ Restart
  BY <1>11 DEF Sync, Restart, NoOwnTaint
<1>12. ASSUME cache' = cache, fill' = fill PROVE NoOwnTaint'
  BY <1>12 DEF NoOwnTaint
<1>13. QED
  BY <1>1, <1>2, <1>3, <1>4, <1>5, <1>6, <1>7, <1>8, <1>9, <1>10, <1>11, <1>12
     DEF Next, Step, Begin, Continue, Work, vars, sys,
         CreateTopLevel, CreateReply, InsertPost, CheckParent, DeletePost, Follow,
         Unfollow, Miss, ReplyRefused, Publish, Deliver, LookUpFollowers

(* A user who never changes anything between the read and the SET of a      *)
(* timeline of theirs, while the api's and Redis' commands do not fail: when*)
(* their requests are answered, their cached timeline is exact about what   *)
(* they did, whatever other users do and whatever bus and workers lose.     *)
THEOREM PatientUsersReadTheirWrites == Spec => []ReadYourWrites
<1>1. Init => NoOwnTaint /\ HastyKnown
  BY DEF Init, NoOwnTaint, HastyKnown, Overlap
<1>2. IInv /\ HastyKnown /\ NoOwnTaint /\ [Next]_vars => (HastyKnown /\ NoOwnTaint)'
  BY NextHastyKnown, NextNoOwnTaint
<1>3. IInv /\ NoOwnTaint => ReadYourWrites
  BY DEF IInv, EntriesSound, Sound, OwnPart, NoOwnTaint, ReadYourWrites
<1>4. QED
  BY <1>1, <1>2, <1>3, Invariance, PTL DEF Spec
=============================================================================
