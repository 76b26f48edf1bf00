------------------------------ MODULE Timeline ------------------------------
(***************************************************************************)
(* The read-through timeline cache and its two invalidation paths:          *)
(*                                                                          *)
(*   - a request that changes what its user sees (createPost, deletePost,   *)
(*     follow, unfollow) commits to Postgres, then DELs the user's own key; *)
(*   - createPost also publishes on NATS, and a worker DELs the keys of the *)
(*     author's followers.                                                  *)
(*                                                                          *)
(* The timeline handler reads Redis, then Postgres, then SETs the key, with *)
(* nothing that ties the SET to the read it came from.  Each step of a      *)
(* handler is one call to Postgres, Redis or NATS; the calls of different   *)
(* requests and workers interleave freely.                                  *)
(*                                                                          *)
(* A client carries one request of a user at a time.  A browser tab is      *)
(* several clients: index.html sends a follow or a post while a timeline it *)
(* asked for is still on its way.  Requests refused before they change      *)
(* anything (400, 401, 404) leave every variable as it is and are not       *)
(* actions.                                                                 *)
(***************************************************************************)
EXTENDS Schema

CONSTANTS Clients, Owner,  \* carriers of one request, and the user of each
          Workers,         \* members of the queue group "fanout"
          ApiFaults,       \* whose requests may the api die in, or fail to DEL?
          BusFaults,       \* may NATS or a worker lose a message?
          RedisRestarts,   \* may Redis come back from its append-only file?
          None

(* Why an entry may be out of date although no invalidation is due: the     *)
(* invalidation ran between the read and the SET, never took effect, or was *)
(* undone when Redis restarted.                                             *)
Cause == {"own", "fanout"}
Entry == [page : SUBSET Row, taint : SUBSET Cause]

ASSUME TimelineAssumption ==
    /\ Owner \in [Clients -> Users]
    /\ ApiFaults \subseteq Users
    /\ BusFaults \in BOOLEAN /\ RedisRestarts \in BOOLEAN
    /\ None \notin Row /\ None \notin Entry

VARIABLES
    posts, follows, nextId,  \* Postgres
    cache,                   \* Redis: the value of timeline:<user>, or None
    file,                    \* ... and the one its synced append-only file has
    pc, reply, made, fill,   \* per client: the step its handler is at, the
                             \*   parent it checked, the row it inserted, the
                             \*   timeline it is about to SET
    bus,                     \* messages published and not yet handed out
    wpc, job, targets,       \* per worker: its step, message and followers
    hasty                    \* users who changed something between the read
                             \*   and the SET of a timeline of theirs

db    == <<posts, follows, nextId>>
redis == <<cache, file>>
web   == <<pc, reply, made, fill>>
work  == <<wpc, job, targets>>
sys   == <<db, redis, web, bus, work>>
vars  == <<sys, hasty>>

Stage == {"idle", "insert", "publish", "del", "query", "put"}

Init ==
    /\ posts = {} /\ follows = {} /\ nextId = 1
    /\ cache = [u \in Users |-> None]
    /\ file = [u \in Users |-> None]
    /\ pc = [c \in Clients |-> "idle"]
    /\ reply = [c \in Clients |-> Null]
    /\ made = [c \in Clients |-> None]
    /\ fill = [c \in Clients |-> None]
    /\ bus = {}
    /\ wpc = [w \in Workers |-> "idle"]
    /\ job = [w \in Workers |-> None]
    /\ targets = [w \in Workers |-> {}]
    /\ hasty = {}
-----------------------------------------------------------------------------
(* Redis.  The taint is a history variable: no action reads it.             *)

Taint(e, cause) == [e EXCEPT !.taint = @ \cup {cause}]

Tainted(held, us, cause) ==
    [u \in Users |-> IF u \in us /\ held[u] # None THEN Taint(held[u], cause)
                                                   ELSE held[u]]

TaintFills(us, cause) ==
    fill' = [c \in Clients |-> IF Owner[c] \in us /\ fill[c] # None
                               THEN Taint(fill[c], cause) ELSE fill[c]]

(* InvalidateTimelines: one DEL of all the keys.  It is answered before it  *)
(* is synced, so what the file has may come back after it.                  *)
Invalidate(us, cause) ==
    /\ cache' = [u \in Users |-> IF u \in us THEN None ELSE cache[u]]
    /\ file' = Tainted(file, us, cause)
    /\ TaintFills(us, cause)

(* The DEL of these keys fails, or is never sent. *)
Missed(us, cause) ==
    /\ cache' = Tainted(cache, us, cause)
    /\ file' = Tainted(file, us, cause)
    /\ TaintFills(us, cause)

(* Mutant: a SET with TTL 0, which go-redis sends without EX. *)
NeverExpire(u) ==
    /\ FALSE
    /\ UNCHANGED sys

(* PutTimeline's TTL runs out.  The file holds the time at which it does:   *)
(* an entry goes from both at once, an older one in the file before.        *)
Expire(u) ==
    /\ cache[u] # None \/ file[u] # None
    /\ file' = [file EXCEPT ![u] = None]
    /\ \/ cache' = [cache EXCEPT ![u] = None]
       \/ cache[u] # file[u] /\ file[u] # None /\ UNCHANGED cache
    /\ UNCHANGED <<db, web, bus, work>>

(* allkeys-lru: a full Redis drops any key. *)
Evict(u) ==
    /\ cache[u] # None
    /\ cache' = [cache EXCEPT ![u] = None]
    /\ UNCHANGED <<db, file, web, bus, work>>

(* appendfsync everysec: answered commands are on disk up to a second later. *)
Sync ==
    /\ RedisRestarts
    /\ file' = cache
    /\ UNCHANGED <<db, cache, web, bus, work>>

(* Redis is back with what its file holds: a DEL that was not synced is     *)
(* undone, and so is a SET.                                                 *)
Restart ==
    /\ RedisRestarts
    /\ cache' = file
    /\ UNCHANGED <<db, file, web, bus, work>>
-----------------------------------------------------------------------------
(* POST /api/posts *)

InsertPost(c, parent) ==
    LET row == [id |-> nextId, author |-> Owner[c], parent |-> parent] IN
    /\ nextId <= MaxPost
    /\ posts' = posts \cup {row}
    /\ nextId' = nextId + 1
    /\ made' = [made EXCEPT ![c] = row]
    /\ pc' = [pc EXCEPT ![c] = "publish"]
    /\ UNCHANGED <<follows, redis, fill, bus, work>>

CreateTopLevel(c) ==
    /\ pc[c] = "idle"
    /\ InsertPost(c, Null)
    /\ UNCHANGED reply

CheckParent(c, id) ==
    /\ pc[c] = "idle"
    /\ Exists(posts, id)
    /\ pc' = [pc EXCEPT ![c] = "insert"]
    /\ reply' = [reply EXCEPT ![c] = id]
    /\ UNCHANGED <<db, redis, made, fill, bus, work>>

CreateReply(c) ==
    /\ pc[c] = "insert"
    /\ Exists(posts, reply[c])
    /\ InsertPost(c, reply[c])
    /\ reply' = [reply EXCEPT ![c] = Null]

(* The parent went away after the check: the foreign key refuses the row,   *)
(* and the handler answers 500.                                             *)
ReplyRefused(c) ==
    /\ pc[c] = "insert"
    /\ ~ Exists(posts, reply[c])
    /\ pc' = [pc EXCEPT ![c] = "idle"]
    /\ reply' = [reply EXCEPT ![c] = Null]
    /\ UNCHANGED <<db, redis, made, fill, bus, work>>

(* Mutant: the message is filled in before the row it is about is known. *)
PublishEmpty(c) ==
    /\ pc[c] = "publish"
    /\ made' = [made EXCEPT ![c] = None]
    /\ bus' = bus \cup {made'[c]}
    /\ pc' = [pc EXCEPT ![c] = "del"]
    /\ UNCHANGED <<db, redis, reply, fill, work>>

Publish(c) ==
    /\ pc[c] = "publish"
    /\ bus' = bus \cup {made[c]}
    /\ made' = [made EXCEPT ![c] = None]
    /\ pc' = [pc EXCEPT ![c] = "del"]
    /\ UNCHANGED <<db, redis, reply, fill, work>>

(* The bus is nil or disconnected: the error is logged and the request goes *)
(* on.  An api that dies here is this step followed by DropOwnFails.        *)
PublishDropped(c) ==
    /\ BusFaults \/ Owner[c] \in ApiFaults
    /\ pc[c] = "publish"
    /\ Missed(FollowerIDs(follows, made[c].author), "fanout")
    /\ made' = [made EXCEPT ![c] = None]
    /\ pc' = [pc EXCEPT ![c] = "del"]
    /\ UNCHANGED <<db, reply, bus, work>>

(* Mutants: no author in the WHERE clause, and no DEL after the statement. *)
DeleteAnyPost(c, p) ==
    /\ pc[c] = "idle"
    /\ p \in posts
    /\ posts' = WithoutThread(posts, p.id)
    /\ pc' = [pc EXCEPT ![c] = "del"]
    /\ UNCHANGED <<follows, nextId, redis, reply, made, fill, bus, work>>

DeletePostOnly(c, p) ==
    /\ pc[c] = "idle"
    /\ p \in posts /\ p.author = Owner[c]
    /\ posts' = WithoutThread(posts, p.id)
    /\ UNCHANGED <<follows, nextId, redis, web, bus, work>>

(* DELETE /api/posts/{id}: the WHERE clause holds the author to account. *)
DeletePost(c, p) ==
    /\ pc[c] = "idle"
    /\ p \in posts /\ p.author = Owner[c]
    /\ posts' = WithoutThread(posts, p.id)
    /\ pc' = [pc EXCEPT ![c] = "del"]
    /\ UNCHANGED <<follows, nextId, redis, reply, made, fill, bus, work>>

(* POST and DELETE /api/follow/{username} *)
Follow(c, other) ==
    /\ pc[c] = "idle"
    /\ other # Owner[c]
    /\ follows' = follows \cup {<<Owner[c], other>>}
    /\ pc' = [pc EXCEPT ![c] = "del"]
    /\ UNCHANGED <<posts, nextId, redis, reply, made, fill, bus, work>>

(* Mutant: no DEL after the statement. *)
UnfollowOnly(c, other) ==
    /\ pc[c] = "idle"
    /\ follows' = follows \ {<<Owner[c], other>>}
    /\ UNCHANGED <<posts, nextId, redis, web, bus, work>>

Unfollow(c, other) ==
    /\ pc[c] = "idle"
    /\ follows' = follows \ {<<Owner[c], other>>}
    /\ pc' = [pc EXCEPT ![c] = "del"]
    /\ UNCHANGED <<posts, nextId, redis, reply, made, fill, bus, work>>

(* The last call of all four: drop the requester's own key. *)
DropOwn(c) ==
    /\ pc[c] = "del"
    /\ Invalidate({Owner[c]}, "own")
    /\ pc' = [pc EXCEPT ![c] = "idle"]
    /\ UNCHANGED <<db, reply, made, bus, work>>

(* Its error is assigned to _ and the request succeeds all the same. *)
DropOwnFails(c) ==
    /\ Owner[c] \in ApiFaults \/ RedisRestarts
    /\ pc[c] = "del"
    /\ Missed({Owner[c]}, "own")
    /\ pc' = [pc EXCEPT ![c] = "idle"]
    /\ UNCHANGED <<db, reply, made, bus, work>>
-----------------------------------------------------------------------------
(* GET /api/timeline.  A hit answers from the cache and changes nothing. *)

Miss(c) ==
    /\ pc[c] = "idle"
    /\ cache[Owner[c]] = None \/ Owner[c] \in ApiFaults \/ RedisRestarts
    /\ pc' = [pc EXCEPT ![c] = "query"]
    /\ UNCHANGED <<db, redis, reply, made, fill, bus, work>>

Query(c) ==
    /\ pc[c] = "query"
    /\ \E page \in Pages(Visible(posts, follows, Owner[c])) :
           fill' = [fill EXCEPT ![c] = [page |-> page, taint |-> {}]]
    /\ pc' = [pc EXCEPT ![c] = "put"]
    /\ UNCHANGED <<db, redis, reply, made, bus, work>>

(* Mutant: one key for everybody. *)
PutShared(c) ==
    /\ pc[c] = "put"
    /\ cache' = [u \in Users |-> fill[c]]
    /\ fill' = [fill EXCEPT ![c] = None]
    /\ pc' = [pc EXCEPT ![c] = "idle"]
    /\ UNCHANGED <<db, file, reply, made, bus, work>>

PutTimeline(c) ==
    /\ pc[c] = "put"
    /\ cache' = [cache EXCEPT ![Owner[c]] = fill[c]]
    /\ fill' = [fill EXCEPT ![c] = None]
    /\ pc' = [pc EXCEPT ![c] = "idle"]
    /\ UNCHANGED <<db, file, reply, made, bus, work>>

(* A statement or the SET fails, the client hangs up or the api dies before  *)
(* the request has changed anything: the rest of it has no effect.          *)
Abandon(c) ==
    /\ pc[c] \in {"insert", "query", "put"}
    /\ reply' = [reply EXCEPT ![c] = Null]
    /\ fill' = [fill EXCEPT ![c] = None]
    /\ pc' = [pc EXCEPT ![c] = "idle"]
    /\ UNCHANGED <<db, redis, made, bus, work>>
-----------------------------------------------------------------------------
(* NATS and the worker.  The queue group hands a message to one worker; a   *)
(* subscription runs its callback for one message at a time.  Messages of   *)
(* several api replicas have no order.                                      *)

Deliver(w, m) ==
    /\ wpc[w] = "idle"
    /\ m \in bus
    /\ bus' = bus \ {m}
    /\ job' = [job EXCEPT ![w] = m]
    /\ wpc' = [wpc EXCEPT ![w] = "lookup"]
    /\ UNCHANGED <<db, redis, web, targets>>

LookUpFollowers(w) ==
    /\ wpc[w] = "lookup"
    /\ targets' = [targets EXCEPT ![w] = FollowerIDs(follows, job[w].author)]
    /\ wpc' = [wpc EXCEPT ![w] = "del"]
    /\ UNCHANGED <<db, redis, web, bus, job>>

Rest(w) ==
    /\ wpc' = [wpc EXCEPT ![w] = "idle"]
    /\ job' = [job EXCEPT ![w] = None]
    /\ targets' = [targets EXCEPT ![w] = {}]

DropFollowers(w) ==
    /\ wpc[w] = "del"
    /\ Invalidate(targets[w], "fanout")
    /\ Rest(w)
    /\ UNCHANGED <<db, pc, reply, made, bus>>

(* A handler error is counted and the message forgotten; so is the message  *)
(* of a worker that is stopped.                                             *)
LookUpFails(w) ==
    /\ BusFaults
    /\ wpc[w] = "lookup"
    /\ Missed(FollowerIDs(follows, job[w].author), "fanout")
    /\ Rest(w)
    /\ UNCHANGED <<db, pc, reply, made, bus>>

DropFollowersFails(w) ==
    /\ BusFaults \/ RedisRestarts
    /\ wpc[w] = "del"
    /\ Missed(targets[w], "fanout")
    /\ Rest(w)
    /\ UNCHANGED <<db, pc, reply, made, bus>>

(* Core NATS keeps nothing: a message is gone when the server restarts or   *)
(* no worker is subscribed.                                                 *)
Lose(m) ==
    /\ BusFaults
    /\ m \in bus
    /\ bus' = bus \ {m}
    /\ Missed(FollowerIDs(follows, m.author), "fanout")
    /\ UNCHANGED <<db, pc, reply, made, work>>
-----------------------------------------------------------------------------
Begin(c) ==
    \/ CreateTopLevel(c)
    \/ \E id \in PostId : CheckParent(c, id)
    \/ \E p \in posts : DeletePost(c, p)
    \/ \E other \in Users : Follow(c, other) \/ Unfollow(c, other)
    \/ Miss(c)

Continue(c) ==
    \/ CreateReply(c) \/ ReplyRefused(c)
    \/ Publish(c) \/ PublishDropped(c) \/ DropOwn(c) \/ DropOwnFails(c)
    \/ Query(c) \/ PutTimeline(c)
    \/ Abandon(c)

Work(w) ==
    \/ \E m \in bus : Deliver(w, m)
    \/ LookUpFollowers(w) \/ DropFollowers(w)
    \/ LookUpFails(w) \/ DropFollowersFails(w)

Step ==
    \/ \E c \in Clients : Begin(c) \/ Continue(c)
    \/ \E w \in Workers : Work(w)
    \/ \E m \in bus : Lose(m)
    \/ \E u \in Users : Expire(u) \/ Evict(u)
    \/ Sync \/ Restart

(* A request of u has committed a change and has not answered yet. *)
Pending(u) == \E c \in Clients : Owner[c] = u /\ pc[c] \in {"publish", "del"}

(* ... and meanwhile another one holds a timeline that it is about to SET.  *)
Overlap(u) == Pending(u) /\ \E c \in Clients : Owner[c] = u /\ pc[c] = "put"

Next ==
    /\ Step
    /\ hasty' = hasty \cup {u \in Users : Overlap(u)'}

Spec == Init /\ [][Next]_vars

(* A handler that started runs to its end, a worker keeps consuming, and a  *)
(* key that is not written again reaches its TTL - in Redis and, unless a   *)
(* later sync replaces it there, in its file.                               *)
Refresh(u) == Expire(u) \/ \E c \in Clients : Owner[c] = u /\ PutTimeline(c)
Age(u) == (file[u] # None /\ Expire(u)) \/ (Sync /\ file'[u] # file[u])

Fairness ==
    /\ \A c \in Clients : WF_sys(Continue(c))
    /\ \A w \in Workers : WF_sys(Work(w))
    /\ \A u \in Users : WF_sys(Refresh(u)) /\ WF_sys(Age(u))

FairSpec == Spec /\ Fairness
-----------------------------------------------------------------------------
(* What the tables hold, whoever wrote them. *)
TypeOK ==
    /\ posts \subseteq Row /\ follows \subseteq Users \X Users
    /\ nextId \in 1..(MaxPost + 1)
    /\ cache \in [Users -> Entry \cup {None}] /\ file \in [Users -> Entry \cup {None}]
    /\ pc \in [Clients -> Stage]
    /\ reply \in [Clients -> PostId \cup {Null}]
    /\ made \in [Clients -> Row \cup {None}]
    /\ fill \in [Clients -> Entry \cup {None}]
    /\ bus \subseteq Row
    /\ wpc \in [Workers -> {"idle", "lookup", "del"}]
    /\ job \in [Workers -> Row \cup {None}]
    /\ targets \in [Workers -> SUBSET Users]
    /\ hasty \subseteq Users

(* No reply outlives the post it answers, and a thread only ever points     *)
(* back in time: the foreign key, the parent check and the cascade together *)
(* leave no dangling or cyclic parent_id, whatever requests interleave.     *)
ThreadsIntact ==
    \A p \in posts : IsTopLevel(p) \/ \E q \in posts : q.id = p.parent /\ q.id < p.id

(* p belongs on the page but is not there.  A full page is right to leave   *)
(* out what is older than all of it.                                        *)
Overlooks(page, p) ==
    /\ p \notin page
    /\ Cardinality(page) < Limit \/ \E q \in page : q.id < p.id

(* The fan-out of p has yet to drop the entry of u. *)
InTransit(u, p) ==
    \/ p \in bus
    \/ \E c \in Clients : pc[c] = "publish" /\ made[c] = p
    \/ \E w \in Workers : /\ job[w] = p
                          /\ wpc[w] = "del" => u \in targets[w]

(* What the user did themselves shows on this page.                         *)
ShowsOwnPosts(u, page) ==
    \A p \in posts : IsTopLevel(p) /\ p.author = u => ~ Overlooks(page, p)

ShowsOwnChanges(u, page) ==
    /\ ShowsOwnPosts(u, page)
    /\ \A p \in page : /\ IsTopLevel(p)
                      /\ IF p.author = u THEN p \in posts
                                         ELSE <<u, p.author>> \in follows

OwnPart(u, e) ==
    "own" \in e.taint \/ Pending(u) \/ ShowsOwnChanges(u, e.page)

FollowedPart(u, e) ==
    \/ e.taint # {} \/ Pending(u)
    \/ \A p \in posts : IsTopLevel(p) /\ <<u, p.author>> \in follows
                        /\ Overlooks(e.page, p) => InTransit(u, p)

(* Once a user's requests are answered, their cached timeline shows every   *)
(* post they wrote, none they deleted and nobody they unfollowed, unless a  *)
(* DEL of their key ran inside the read-then-SET of a timeline request,     *)
(* failed, or was undone by a restart of Redis.  (handlers.go:235,          *)
(* social.go:79 and 189.)                                                   *)
OwnChangesShown == \A u \in Users : cache[u] # None => OwnPart(u, cache[u])

(* A cached timeline lacks a post of a followed author only while the       *)
(* fan-out of that post is on its way: at the api, on the bus, or with a    *)
(* worker that has this follower on its list - or it was raced, lost or     *)
(* undone by a restart of Redis.                                            *)
FollowedPostsShown ==
    \A u \in Users : cache[u] # None => FollowedPart(u, cache[u])

(* handlers.go:235 "The author's own timeline must be correct immediately": *)
(* no exception for races or failures.                                      *)
AuthorSeesOwnPosts ==
    \A u \in Users : cache[u] # None /\ ~ Pending(u) => ShowsOwnPosts(u, cache[u].page)

(* The user never had a change on its way while a timeline of theirs was    *)
(* read and not yet SET, and no command of the api or Redis fails.          *)
Undisturbed(u) == u \notin hasty \cup ApiFaults /\ ~ RedisRestarts

(* The same for all of a user's own changes; the code keeps it for a user   *)
(* whose requests do not overlap in that way while the api and Redis do not *)
(* fail, whatever other users do and whatever the bus and the workers lose. *)
ReadYourWrites ==
    \A u \in Users : Undisturbed(u) /\ cache[u] # None /\ ~ Pending(u) =>
        ShowsOwnChanges(u, cache[u].page)

(* A top-level post leaves the table only by a request of its author, and   *)
(* that request goes on to drop the author's cached timeline.               *)
OnlyAuthorDeletes ==
    [][\A p \in posts \ posts' : IsTopLevel(p) =>
          \E c \in Clients : Owner[c] = p.author /\ pc[c] = "idle" /\ pc'[c] = "del"]_vars

(* Whatever is lost or raced, the TTL repairs it: a post that stays visible *)
(* to u is in the end never overlooked by what u's timeline answers ...     *)
EventuallyShown ==
    \A u \in Users, p \in {r \in Row : IsTopLevel(r)} :
        <>[](p \in Visible(posts, follows, u))
            => <>[](cache[u] = None \/ ~ Overlooks(cache[u].page, p))

(* ... and one that is gone for good, or no longer followed, stops showing. *)
EventuallyGone ==
    \A u \in Users, p \in {r \in Row : IsTopLevel(r)} :
        <>[](p \notin Visible(posts, follows, u))
            => <>[](cache[u] = None \/ p \notin cache[u].page)
-----------------------------------------------------------------------------
(* The inductive invariant.  What holds of an entry must hold already of    *)
(* the page a request is about to SET, and control must say which history   *)
(* and message variables are in use.                                        *)
RowsOK ==
    /\ \A p \in posts : p.id < nextId
    /\ \A p, q \in posts : p.id = q.id => p = q
    /\ ThreadsIntact

ControlOK ==
    /\ \A c \in Clients : /\ pc[c] = "publish" <=> made[c] # None
                          /\ pc[c] = "publish" => made[c].author = Owner[c]
                          /\ pc[c] = "put" <=> fill[c] # None
    /\ \A w \in Workers : wpc[w] = "idle" <=> job[w] = None

Sound(u, e) == OwnPart(u, e) /\ FollowedPart(u, e)

EntriesSound == \A u \in Users : cache[u] # None => Sound(u, cache[u])
FileSound    == \A u \in Users : file[u] # None => Sound(u, file[u])
FillsSound   == \A c \in Clients : fill[c] # None => Sound(Owner[c], fill[c])

IInv == TypeOK /\ RowsOK /\ ControlOK /\ EntriesSound /\ FileSound /\ FillsSound
=============================================================================
