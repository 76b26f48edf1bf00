# A specification of l2lab

l2lab is a small social application (accounts, posts, threads, likes, follows, a
home timeline) that is built to be operated: two Go processes (`app/cmd/api`,
`app/cmd/worker`), Postgres, Redis and NATS on a Kubernetes cluster, a single-page
frontend, a backup job, restore and rotation playbooks and a chaos command.
This directory holds TLA+ modules of its core, the TLC configurations that check
them on small instances, and proofs, checked by the TLA+ proof system, of what
matters most.

## 1. Inventory

| component | source | state it keeps | operations |
|---|---|---|---|
| api, timeline and posts | `app/internal/web/handlers.go`, `social.go` | none of its own: where each request's handler is | `createPost`, `deletePost`, `timeline`, `thread`, `follow`, `unfollow`, `like`, `unlike`, `listUsers`, `profile` |
| api, accounts | `web/handlers.go`, `web/server.go` | the row a request works for | `signup`, `login`, `logout`, `me`, `updateProfile`, `requireAuth` |
| Postgres | `app/internal/store`, `app/migrations` | `users`, `posts` (a tree by `parent_id`, `ON DELETE CASCADE`), `follows`, `likes`, and the sequences behind the ids | one SQL statement per `Store` method; no multi-statement transactions |
| Redis | `app/internal/cache`, `k8s/data/redis` | `timeline:<user>` (30 s), `session:<sid>` (24 h); in memory, with an append-only file synced once a second, `allkeys-lru` | GET, SET EX, DEL, restart, eviction, `FLUSHALL` |
| NATS and bus | `app/internal/bus` | messages in flight; the client's connection | `Connect`, `Publish`, `Subscribe` (queue group `fanout`), reconnect |
| worker | `app/cmd/worker` | the message in hand, the followers looked up | `fanout`: `FollowerIDs`, then one DEL |
| restore | `ansible/ops/restore-db.yml`, backup CronJob | dumps in S3; how far a playbook got | scale to zero, recreate and restore, flush Redis, scale up |
| frontend | `frontend/index.html` | `me`, the current view, requests out, button states | `route` and the views, `boot`, login and logout, composer, like, follow and trash buttons |
| lifecycle | `app/cmd/*/main.go`, `k8s/app` | is the process ready, draining, connected | start, `/readyz`, preStop sleep, `Shutdown` |
| migrations | `store.Migrate`, `app/migrations` | tables, and the locks on them while a file runs | both files, one transaction each, at every start of every api replica |
| operations | `ansible/ops/rotate-secrets.yml`, `teardown.yml`, `chaos/chaos.py`, terraform, chart | cloud and cluster objects | rotate, tear down, break and fix |

How they interact. Every arrow is a separate network call, and no two of them
are one transaction:

    browser --HTTP, cookie--> api --SQL--> Postgres <--SQL-- worker
                               |---GET/SET/DEL--> Redis <--DEL--|
                               '---publish--> NATS --deliver----'

A request that changes what its own user sees commits to Postgres and then DELs
that user's timeline key. A top-level post or a reply is also published, and a
worker DELs the keys of the author's followers. A timeline request reads Redis,
on a miss queries Postgres, and SETs what it got. An authenticated request
first reads `session:<sid>` in Redis and then the user in Postgres.

What is hard here:

- *interleaving*: nothing ties the timeline handler's SET to the query it came
  from, so an invalidation can run between the two; the worker looks up followers
  and drops keys in two steps; a reply's parent is checked in one statement and
  used in the next.
- *failure*: publish errors and the error of the own-key DEL are swallowed; a
  worker error is counted and the message forgotten; core NATS keeps nothing; the
  api may die between commit, publish and DEL. The TTL is the only repair.
- *restarts*: Redis comes back from a file that may lack the last second, so a
  DEL it has answered may be undone; a restored database hands out again ids that
  sessions in Redis still name, while pods that are terminating still serve.
- *order*: several api replicas, several workers, and browsers whose tabs each
  have several requests out.
- *clocks*: at shutdown the load balancer, the process and the kubelet each run
  on their own, with durations that are set in three files.
- *answers out of order*: the page keeps several requests out and paints whatever
  comes; its buttons stay enabled; the login form works while the page still asks
  who is logged in.
- *startup under traffic*: every pod that starts runs all migrations against the
  database the others serve from, and looks for NATS once.
- *half-done operations*: a password is in the role, the stored secret, a mounted
  file and a running process, and is changed in one after the other.

What makes each component correct:

- *timeline*: a cached page is one that a single query returned for that very
  user; it lacks the user's own change only while the change's request is not
  done, or for a reason that is known (its DEL was raced, failed, or was undone by
  a restart of Redis); it lacks a followed author's post only while the fan-out is
  on its way, or for the same reasons; whatever is raced or lost, the TTL repairs
  it; an answer is never older than TTL plus the time its SET took.
- *threads*: no reply without its parent, no cycle; top-level posts leave only
  by their author.
- *shutdown*: nobody is refused or cut off who could have been served, and the
  pod is killed, or loses a trace, only because of requests that are overlong.
- *rotation*: no pod ever gets a password Postgres does not know; a reported
  success leaves no old password and an application that serves; while nothing
  else goes wrong, the application is down only where a pod was refused with its
  old password; and what restarts recovers once role and secret agree.
- *browser*: the newest page is that of the account the cookie names; "Loading..."
  ends; the like button tells what Postgres holds - each with the exceptions the
  script has. (Nothing promises that the page on show is that of the address bar:
  a late answer is painted over a newer view.)
- *startup*: however many pods migrate at once, the files are applied in order and
  once; nobody serves before the schema is whole; a migration under traffic spares
  the feed, and a deadlock is never one of two migrations; every pod serves, every
  request ends, and every connection to NATS that was ever made comes back.
- *sessions*: a request acts for the account whose login made its cookie,
  although the program knows accounts by ids that a restore hands out again; a
  session in Redis belongs to an existing account - each but for requests that
  the restore overtook in a pod that was terminating, and what they stored; and
  logout is final, unless Redis restarts before it is synced.

The full list of hazards, each at its line and with the properties that watch
it, is `hazards` in `PROJECT.json`.

## 2. Modules

| module | models | proved in |
|---|---|---|
| `Schema` | tables as sets of rows; cascade, page, follower query as operators | |
| `Timeline` (EXTENDS `Schema`) | the handlers that read or write a timeline, the cache, bus and workers | `TimelineProofs` |
| `Feed` (EXTENDS `Schema`) | abstract: what a timeline cache promises | |
| `TimelineFeed` (EXTENDS `Timeline`, INSTANCE `Feed`) | the refinement mapping | `TimelineFeedProofs` |
| `Staleness` | one user's key with a clock: TTL, slow requests | `StalenessProofs` |
| `Sessions` | accounts, cookies, sessions, Redis' file, the restore playbook | `SessionsProofs` |
| `Accounts` | abstract: what accounts and sessions promise | |
| `SessionsAccounts` (EXTENDS `Sessions`, INSTANCE `Accounts`) | the refinement mapping | `SessionsProofs` |
| `Drain` | the shutdown of an api pod: `main` after SIGTERM, requests and their connections, the span batcher, load balancer and kubelet | `DrainProofs` |
| `Rotation` | `rotate-secrets.yml` for Postgres; the rollout, the CSI driver's file, boot and readiness of the pods | `RotationProofs` |
| `Browser` | one tab of `index.html`: router, views, login, buttons, against the api and a post with its likes | `BrowserProofs` |
| `Startup` | migrations, table locks and the handlers' statements; NATS connections of api and worker | `StartupProofs` |
| `Migration` | abstract: the files one after the other, apis up and at work | |
| `StartupMigration` (EXTENDS `Startup`, INSTANCE `Migration`) | the refinement mapping | `StartupProofs` |
| `MCTimeline`, `MCSessions`, `MCBrowser` | the instances TLC checks | |

### Timeline

One action is one call to Postgres, Redis or NATS. A client `c` carries one
request of its owner at a time and `pc[c]` says which call its handler makes
next; a browser tab is several clients, since `index.html` sends a follow, a post
or a delete while a `GET /api/timeline` it asked for is still on its way.

| code | actions, in order |
|---|---|
| `createPost` (`handlers.go:184-242`) | `CreateTopLevel`, or `CheckParent` then `CreateReply` (or `ReplyRefused`: the foreign key says no); `Publish` or `PublishDropped`; `DropOwn` or `DropOwnFails` |
| `deletePost` (`social.go:60-85`) | `DeletePost`; `DropOwn` ... |
| `follow`, `unfollow` | `Follow`, `Unfollow`; `DropOwn` ... |
| `timeline` (`handlers.go:245-272`) | `Miss`; `Query`; `PutTimeline`; `Abandon` at any step that fails |
| the worker's handler (`cmd/worker/main.go:56-81`) | `Deliver`; `LookUpFollowers` (or `LookUpFails`); `DropFollowers` (or `DropFollowersFails`) |
| Redis: TTL, `allkeys-lru` | `Expire`, `Evict` |
| Redis: `appendfsync everysec`, restart | `Sync`, `Restart` |
| NATS restart, nobody subscribed | `Lose` |

*Abstractions.* A row keeps id, author and parent. `created_at` is taken to grow
with the id, and the gaps that failed INSERTs leave in the sequence are left out:
only the order of ids is used. A user's row is never deleted by the program. A
cache hit, a 400, 401, 404 or 409 changes nothing and is no action. A delete is
not published, as in the code: only the author's own key is dropped.

`file` is what the synced append-only file has of `timeline:<u>`. A command is
answered before it is synced, so `Restart` may undo a SET or a DEL; the file holds
the absolute time of expiry, so a TTL takes an entry from both.

`ApiFaults` is the set of users whose calls to the api may fail half way;
`BusFaults` says whether NATS and the workers lose messages, `RedisRestarts`
whether Redis restarts (commands to it then fail for anybody).

*History.* Each entry, in memory and in the file, and each page a request is about
to SET, carries a `taint`: the kinds of invalidation (`own`, `fanout`) that ran
while the page was between query and SET, that never took effect, or that the
file does not have yet. No guard reads it. It is what makes the exceptions of
the invariants precise instead of "unless something went wrong": an entry with
an empty taint has no excuse. `hasty` are the users who ever had a change on its
way while a timeline of theirs was read and not yet SET; `ReadYourWrites` speaks
of those who did not (`Undisturbed`), with a Redis and an api that do not fail.

### Feed and the refinement

`Feed` has no handlers: statements change the tables one at a time, a page may
be read for a user from one state of the tables, remembered later, forgotten, or
be back. `TimelineFeed` maps `reads[u]` to the pages that u's requests and the
file of Redis hold (`PageKept`), and `shown[u]` to `timeline:<u>`; `Sync` is
`Feed!Keep`, `Restart` is `Feed!Recall`. That the code implements `Feed` says that
a timeline is never another user's, never mixes two states, and is never
anything but a page once read, whatever fails; how late it may be is for the
other properties.

### Staleness

The same key with a clock in ticks, one user, several readers. `Change` stands
for any commit that changes the query's result and reaches no invalidation.
`MaxDelay`, the longest time from a request's query to its SET, is an assumption:
`Tick` does not pass while a request would exceed it. The code sets
a timeout of a second on Redis' reads and writes and none on a query, so it is as
long as Postgres takes. The bound says that the 30 seconds count from the SET.
A restart of Redis does not lengthen it, since the file has the time of expiry
and not the seconds left; that is why this module has no restart.

### Sessions

`pc[r]` is `start` after signup or login has its row and before `PutSession`,
`load` between `requireAuth`'s two reads, `serve` while the handler runs.
`disk` is the part of Redis that is synced; `Restart` goes back to it. The
playbook is `phase`: `up`, `down` (scaled to zero), `restored`, `flushed`, up
again; `ScaleToZero` may start it over at any point, as after a failed task.

The playbook waits until the Deployment counts no replicas
(`restore-db.yml:62-71`), and that count leaves out pods that are terminating:
these serve through the pre-stop sleep and the drain, up to 40 seconds. So
`lingering` pods take and finish requests (`Serving`) at any later task, until
`PodsGone`, although the comment at `restore-db.yml:60-61` wants no live writers.
`RestoreDump` waits for nobody. The restore, DROP SCHEMA to the end of
`pg_restore`, is one step: an INSERT into a half-loaded table is left out.

*Abstractions.* Passwords are left out (a login names the account whose password
it knows), and so is a cookie's Max-Age: it only removes a cookie earlier. A
SET that took effect although its reply was lost leaves a key nobody can name.
*History.* `born` numbers the INSERTs into `users` so that two accounts with one
id, before and after a restore, are told apart; `owner[s]` is the account whose
login made session `s`; `gone` are sessions logged out or flushed and `revived`
those of them that a Redis restart brought back; `stale` are requests that the
restore overtook (at work while the database was replaced, or with a session
looked up before the flush) and `late` the sessions such requests stored: of what
is revived or late (`Doubtful`) nothing is promised; `answered[b]` is the account
browser `b` was last told it is.

### Accounts and the refinement

`Accounts` has no ids, cookies, file or playbook: an account is the sign-up it
came from, a session is of one account for good, and sets of accounts are saved
and put back as a whole. `SessionsAccounts` maps accounts to the `born` of the
rows, saved sets to the dumps, usable sessions to the keys in Redis, and a request
to the session it presented and the account it acts as. Every step of `Sessions`
is one of `Accounts` or a stutter; `Sync`, a cookie that is cleared and a failed
SET are stutters. The hard steps are `LoadUser`, which finds the account by an id
that may have been handed out twice, and `ScaleUp`, which must not open the
application before all usable sessions are of accounts that are there. `Accounts`
itself says which requests are `stale` and which sessions `late` or `revived`, so
that its exceptions cannot hide others.

### Drain

`phase` is where `main` is once SIGTERM has come: `sleeping`
(`time.Sleep(preStopDelay())`), `draining` (`srv.Shutdown`), `flushing`
(`shutdownTracing`), `closing` (the deferred calls, of which `pool.Close` may
wait), `gone`. `t` counts ticks since SIGTERM, `age[r]` those a request has run;
`Tick` does not pass while `main` has something to do that waits for nothing, or
when the load balancer must have noticed. `holds` are the requests with a
connection of the pool, `span[r]` is where the request's trace is.

| code | actions |
|---|---|
| `signal.NotifyContext` | `Terminate` |
| after the sleep | `CloseListener` |
| `srv.Shutdown(shutdownCtx)` | `Drained`, or `OutOfBudget` at 25 s |
| `shutdownTracing(shutdownCtx)` | `Flush`: with a context that is over, nothing is waited for |
| `db.Close()` and return | `Exit`, when no connection is held |
| kubelet, 40 s | `Kill` |

*Abstractions.* A request has one span and takes connections one at a time.
`WithBatcher` exports at some time and, as a tick is longer than its 2 s, before
the next tick; the collector is assumed to answer. `Shutdown` returns at once
when the last connection is idle, where Go's polls with pauses of up to half a
second. How `pgxpool.Close` and the
span processor behave is external (read from how `main` calls them). Clients
that hang up, idle keep-alive connections and panics are left out: a handler
that ends is an `Answer`, whatever it answers. The worker's shutdown is not
modelled.

### Rotation

`db` and `secret` are the password of the role and of Secrets Manager, numbered
in the order they are made. A pod has a `file` (the CSI mount), what it `held`
since its container came up (`Boot` reads `DATABASE_URL_FILE` and migrates, and
succeeds only with the role's password), whether its pool has a connection
(`linked`), which outlives the password it was made with, and the last answer of
`readyz`. `step` is the last task the playbook did; `Fail` ends it anywhere, and a
new run makes a new password. `fresh` says that a pod is of the latest template.

The pool has two to ten connections (`store.go:94-97`). `readyz` gets one that is
idle or, if all are busy, a new one, which Postgres refuses a pod with an old
password: so `Probe` of such a pod goes either way while it is `linked`, and fails
when it is not. `Unlink` is the pool's recycling of connections, or a restart of
Postgres. `Starve` is a probe that fails for any other reason: a dependency that
is down, or ten busy connections. `Serving` are the pods that the last probe
found ready, which is what the Service goes by; a single request of a ready pod
with an old password may still be refused.

*Abstractions.* `deploy/app` has one replica, and one more during a rollout; the
autoscaler's second replica and `deploy/worker`, which the playbook restarts
next to it, are left out. That three probes in a row must fail is left out: a
`Probe` that fails stands for the third. Secrets Manager returns the last value
put. *History.* `hurt` remembers that a pod or container was lost, or found
unready, for a reason other than its password; `refused` that an old password
was a pod's undoing, since one with the current password was last found ready.
`KeepsServing` excuses what is `hurt`, and `refused` until the rollout is over.

### Browser

`View` is the beginning of every view: `loading()`, then a request that is sent
with the cookie of that moment (`acct`). `Serve` is the api's read; `Paint`,
`FetchFails` and `PaintThrows` are the ways a view goes on when its answer is
there, whatever `#view` holds by then. A view is called by the router
(`Route`, on `Navigate`, `Boot` and `Edited`), whose `.catch(fail)` paints the
error, or by a composer or a trash button when its own request is answered
(`Refresh`), where nobody catches. `#/me` while `me` is null throws in the router
before any view begins. `me` is the script's account, set by `boot()` and by the
answer of a saved profile; `boots` are the runs of `boot()` that wait
for `GET /api/me`: one from the page load, and one per login.

| code | actions |
|---|---|
| `route`, on `hashchange` | `Navigate` |
| login form | `AskLogIn`; `LoggedIn` or `LogInFails`; then `boot` |
| `boot` | `Boot`, `BootFails` |
| logout button | `LogOut`, whose request may have failed |
| profile form (`editProfile`) | `EditProfile`; `Edited` or `EditFails` |
| composer, trash button | `Submit`; `Refresh` or `SubmitFails` |
| like button | `Click`; in the api `WriteLike`, `ReloadPost`; `LikeArrives`, `LikeLost` (the browser gives up), `LikeFails` |

*Abstractions.* One post, on the home page and on a page of its own; a profile
behaves like the thread. The card is liked, not liked or absent; counts, texts
and the follow button (which is disabled while its request is out) are left out.
Clicks by somebody who is not logged in are answered 401 and are no action.
*History.* `rival`: at the last login an answer was still out that is another
account, of a `boot()` or of a saved profile. `uncaught`: the newest view ended
in an error that nobody handled. `mixed`: accounts with likes and unlikes out
together. `sure`: the button shows what an answer said, and no click came since.

### Startup

A session of Postgres is an api's migration or a request's statement: `Todo` is
the tables it locks, in order, `got` how many it has. `Awaits` compares the next
one with what the others hold. A migration file is one transaction
(`Store.Migrate` sends it as one query without arguments), so its locks are kept
to its end; a handler's are kept for one statement. Every handler is the
sequence of its statements, beginning with `requireAuth`'s.

| code | actions |
|---|---|
| `Migrate` in `main` | `Start`, `Grant`, `Commit`; `AlreadyExists` (two pods create a table) and `Exit` |
| `bus.Connect` in `main` | `ConnectBus`: up, or a nil bus for good |
| handlers | `Request`, `Grant`, `NextStatement`, `Answer`, `Abort` |
| Postgres' deadlock detector | `StatementLoses`, `MigrationLoses` |
| `nats.MaxReconnects(-1)` | `Outage`, `Restored`, `Reconnect` |
| worker's `main` and `/healthz` | `WorkerStart`, `WorkerRestart` |
| kubelet, startup probe | `Kill` |

*Abstractions.* Table locks only: two statements of the application never wait
for each other here (in Postgres they may, for a row). A mode stands for all
that conflict alike. Postgres also makes a session wait behind those who asked
before it for a lock that clashes with its own; `Awaits` leaves this queue out. It
can only put off a `Grant`, and nothing here says how soon one comes; where such
a wait closes a cycle that held locks alone do not make, the deadlock detector
reorders the queue and ends nobody. So the model has all grants and
all deadlocks, but how long chains of waiting sessions get is not its subject.
That the second CREATE TABLE of the same name waits, and then fails, is modelled
as a lock on the catalog; lock order within a statement is that in which its
SQL names the tables, foreign keys last. How Postgres and the NATS client behave
is external. The columns themselves are left out: `schema` counts the files that
are committed.

### Migration and the refinement

`Migration` applies file after file, once and for good; apis join when all are
applied, work only while they are up, and leave at any time. `StartupMigration`
maps `up` to the apis that serve and `busy` to those with a request. A COMMIT that
finds its file applied already is a stutter, as are all locks, waits, deadlocks
and rollbacks: to the outside any number of pods that migrate are one sequence.

## 3. What the runs check

| run | instance | shows |
|---|---|---|
| `timeline_faults` | 2 users with one request each at a time, 1 worker, 2 posts, page of 1; api, bus, worker and DELs fail, Redis stays up | `ThreadsIntact`, `OwnChangesShown`, `FollowedPostsShown`, `OnlyAuthorDeletes` |
| `timeline_restarts` | the same with 1 post, and Redis restarts | `OwnChangesShown`, `FollowedPostsShown`, `ImplementsFeed` |
| `timeline_calls` | 2 users, one with two requests at a time, 1 worker, 1 post; bus failures only; fair | `ReadYourWrites`, `EventuallyShown`, `EventuallyGone` |
| `timeline_race` | the same, nothing fails | *violates* `AuthorSeesOwnPosts` |
| `staleness` | 2 readers, TTL 4, delay 2 | `BoundedStaleness` |
| `sessions` | 2 names, 2 accounts over time, 2 sessions, 2 requests of one browser, 1 dump kept | `ActsForOwner`, `SessionsBelong`, `LogoutSticks`, `ImplementsAccounts` |
| `sessions_login` | the same | *violates* `AnsweredUserActs` |
| `drain` | 3 requests; ticks of 5 s: deregistration 0, sleep 1, budget 4, write timeout 6, grace 8 | `NoneRefused`, `ShortOnesAnswered`, `KilledOnlyByStragglers`, `TracesLostOnlyToStragglers` |
| `drain_traces` | 2 requests, the same clocks | *violates* `TracesFlushed` |
| `rotation` | 2 pod names, 2 rotations | `OnlyKnownPasswords`, `SuccessIsLasting`, `KeepsServing`, `RestartsRecover` |
| `browser` | 2 accounts, 3 acts of the user | `RightAccount`, `NoOrphanSpinner`, `ButtonTellsTruth` |
| `startup` | 2 api pods and a worker, 2 requests one after the other, 1 kill, 1 outage, any number of files committed before; fair | `ServingHasSchema`, `FeedSurvivesMigration`, `DeadlocksArePairs`, `ImplementsMigration`, `PodsServe`, `RequestsEnd`, `FanOutReturns` |

*Why these bounds are enough to be of use.* Two users give a follower and an author
in both directions; two posts with a page of one give a reply, a cascade, a full
page that rightly hides a post and a delete that makes room. One request per user at
a time interleaves with the worker and the other user; two of one user bring the
race inside that user. With restarts one post is enough: what is new is a DEL
undone, and that takes one entry. One worker suffices because workers share no state
with each other but the cache, and a message goes to one of them; the proofs hold
for any number. Two accounts over time are what a restore needs to hand out an id
twice, and one dump is what it restores; two requests of one browser what a logout
needs to race. The durations of `drain` are the program's own (5, 20, 30 and 40 s),
and three requests are one that is overlong, one that is short and one that comes
late. Two rotations give a run that failed and the one after it; two pods are what a
rollout has. Three acts are a click, one that contradicts it and one that looks, or
a logout, a login and a link; what the network and the api do in between is not
bounded. Two pods are what it takes to create a table twice and to migrate under
traffic; two requests of the application share no lock that either must wait for, so
that a second one at the same time brings nothing but states. Three sessions that
wait for one another take a third pod: `NobodyStuck` says nothing interesting of
this instance, is in no run, and is proved for any number of pods; TLC confirmed it
on three pods, one request and no kill or outage (144,604 states). Every bound is a
CONSTANT: `MaxPost`, `Limit`, `MaxBorn`, `MaxDumps`, `MaxDelay`, `TTL`, `MaxPw`,
`MaxActs`, `MaxRequest`, `MaxKill`, `MaxOutage` and the durations of `Drain`; ages
in `Drain` are counted up to `Grace`.

`drain`, `browser` and `startup` do not check for deadlock: a pod that is gone, a
user who has done all acts, and pods that serve when all requests are answered
have no step left.

Symmetry is used for the two users, together with their requests (`timeline_faults`,
`timeline_restarts`), for names, sessions and requests (`sessions`) and for accounts
(`browser`); no run of a liveness property uses it. `sessions` has a VIEW that hides
`answered`, a history variable that none of its properties and no guard reads.

*Fairness*. In `timeline_calls` (`Timeline!FairSpec`): WF on `Continue(c)`, a
handler that started runs on - Go schedules it, a Redis command has a timeout
(`cache.go:30`), and Postgres answers a query in the end or its connection breaks;
WF on `Work(w)`, the worker's subscription keeps calling back; WF on `Refresh(u)`,
a key either reaches its TTL or is SET again; WF on `Age(u)`, the same of the file,
which changes with a sync. It is not assumed that `Expire` alone happens: a key
that is written again and again is never obliged to expire. No fairness on
requests, deliveries without loss, or success of any call. The run has no failing
api and no restarts of Redis: it shows that the TTL repairs what was raced and
what NATS and the workers lost, and says nothing of a DEL that failed or was
undone. With both, TLC confirmed the two properties on one user with two requests
(18,624 states); two users take longer than a run may.

In `rotation` (`Rotation!FairSpec`): WF on `Poll(p)`, because
`terraform/addons.tf:141` turns the driver's rotation on, every 60 s; WF on
`Boot(p)`, because the kubelet starts a container that exited again. Nothing
else is fair: the playbook may stop for good. In `startup` (`Startup!FairSpec`): WF
on `Boot(p)`, the kubelet and `main`; WF on the deadlock detector, which runs after
`deadlock_timeout`; SF on `Handle(q)`: a statement that is blocked again and again
by a migration that loses and restarts is ahead of it in Postgres' queue each
time; WF on `Reconnect`, which the client tries every second, and on
`WorkerStart`, the kubelet again. Nothing is said of when NATS returns:
`FanOutReturns` supposes that it stays up in the end. Which side loses a
deadlock is open, and requests may be aborted but need not be. `MaxRequest`,
`MaxKill` and `MaxOutage` are part of the liveness claims: traffic, kills and
outages end.

*A note on the documentation*: `docs/ARCHITECTURE.md:294` says that a restart of
Redis drops all sessions. Redis is configured with `appendonly yes` on a persistent
volume: most of them stay, and one that was ended may be back (`Sessions!Restart`).

*Violation runs*, each of a statement in the repository:

- `AuthorSeesOwnPosts`: `handlers.go:235` "The author's own timeline must be
  correct immediately". One request of the author misses and queries; another
  one posts and DELs; the first SETs the page without the post. One tab is
  enough, and no failure is needed. `OwnChangesShown` states what does hold, and
  `ReadYourWrites` when it holds without exception.
- `AnsweredUserActs`: `README.md:77` "verify -> session in Redis".
  `startSession` logs a failed `PutSession` and returns; `login` answers 200. A
  browser with another account's cookie goes on as that account. `AnsweredIsOwner`
  proves that it takes a Redis that fails.
- `TracesFlushed`: `app/cmd/api/main.go:98` "Flush buffered spans - otherwise the
  traces for the requests that were in flight during the incident are lost." A
  request outlasts the budget of `Shutdown`; the flush gets the same context,
  which is over; `pool.Close` waits for the request, it is answered, and its
  span meets a provider that is shut down. `TracesLostOnlyToStragglers` states
  what does hold, and `StragglersAloneCostTraces` proves the comment wherever no
  request ran as long as the budget: every answer's trace is then exported.

## 4. What is proved

All theorems hold for every value of the constants that the named assumptions
(`SchemaAssumption`, `TimelineAssumption`, `StalenessAssumption`,
`SessionsAssumption`, `DrainAssumption`, `RotationAssumption`,
`BrowserAssumption`, `StartupAssumption`) allow; TLC evaluates these on every run.

| theorem | says |
|---|---|
| `TypeCorrect`, `StalenessTypes`, `SessionTypes`, `DrainTypes`, `RotationTypes`, `BrowserTypes`, `StartupTypes` | the type invariant of each module |
| `TimelineProofs!Invariance` | `Spec => []IInv` |
| `ThreadsStayIntact`, `OwnChangesAreShown`, `FollowedPostsAreShown` | the invariants of `timeline_faults` and `timeline_restarts` |
| `TopLevelPostsAreTheirAuthors` | the action property `OnlyAuthorDeletes` |
| `PatientUsersReadTheirWrites` | `ReadYourWrites`: for every user whose changes never overlapped a timeline in hand, while neither api nor Redis fails |
| `TimelineFeedProofs!TimelineIsAFeed` | `Spec => ImplementsFeed` |
| `StalenessProofs!StalenessIsBounded` | `BoundedStaleness` |
| `SessionsProofs!SessionInvariance`, `RequestsActForOwners`, `SessionsKeepToAccounts`, `LogoutIsFinal` | the invariants of `sessions` |
| `SessionsAreAccounts` | `Spec => ImplementsAccounts` |
| `AnsweredIsOwner`, `EndedForGood` | if no Redis command fails and Redis does not restart: `AnsweredUserActs`; an ended session is never in Redis again |
| `DrainProofs!DrainInvariance`, `NoRequestRefused`, `ShortRequestsAnswered`, `KillsAreStragglers`, `TracesSurviveShutdown` | the invariants of `drain` |
| `StragglersAloneCostTraces` | `TracesFlushed`, unless a request ran for the budget |
| `RotationProofs!RotationInvariance`, `PasswordsStayKnown`, `SuccessLasts`, `RotationKeepsServing` | the invariants of `rotation` |
| `BrowserProofs!BrowserInvariance`, `PagesKeepToAccounts`, `SpinnersEnd`, `LikeButtonTellsTruth` | the invariants of `browser` |
| `StartupProofs!StartupInvariance`, `NobodyServesTooEarly`, `MigrationsSpareTheFeed`, `MigrationsNeverDeadlock` | the invariants of `startup` |
| `SomebodyGoesOn` | `NobodyStuck`: if somebody waits, somebody with locks can go on or there is a deadlock for the detector |
| `MigrationsAreSequential` | `Spec => ImplementsMigration` |

*Timeline.* `IInv` adds three things to the promises. What holds of an entry
must already hold of the page a request is about to SET (`FillsSound`), or
`PutTimeline` could not establish it, and of the entry in the file (`FileSound`), or
`Restart` could not; the taint that an invalidation leaves on both is what makes
that true. Ids below `nextId` are unique (`RowsOK`), or a
new row could be confused with an old one and a thread could point forward.
Control says which of `made`, `fill` and `job` are in use (`ControlOK`). The
lemmas under it are about `WithoutThread` (what the cascade keeps is closed, and
takes no row outside the thread), about pages (removing a row from the tables
cannot make a page overlook a row, adding one can only make it overlook that
row) and about taints (they only grow).

*Reading one's writes.* A user who is not `hasty` has no page in hand when a DEL
of their own runs or is sent too late, and without failures no DEL is missed or
undone, so `own` is never in a taint of theirs (`NoOwnTaint`); that and what
`hasty` knows of the present state (`HastyKnown`) are proved on top of `IInv`.

*Refinement.* Each action of `Timeline` maps to one of `Feed` or to a stutter.
`PutTimeline` maps to `Remember`, and because another request may hold the same
page `Feed!Remember` may or may not take it out of `reads` (`InHand`). `Sync` maps
to `Keep`: what is shown may be shown again. `Restart` maps to `Recall`, and the
page that was shown but not synced is given up.

*Sessions.* The strengthening is that what may come back from disk already
satisfies what memory must (`StoreOK` speaks of `disk` as well), that ids are
unique in the tables and in every dump, and that the next id of any dump is
at most one above the number of accounts ever born. While the
database is restored and Redis not yet flushed nothing is known of the sessions;
whoever looks one up then is `stale`, which is what lets `ActsForOwner` survive pods
that serve meanwhile.

With `ActsForOwner` and `StoreOK` in that invariant, the refinement is one
step per action: `LoadUser` needs that the row found by id has the `born` of the
session's owner, unless session or request is doubtful, and `ScaleUp` that what is in
Redis belongs to rows. Without failures of Redis `revived` stays empty, and a
session that is made is one whose cookie is set: that is all `AnsweredIsOwner`
and `EndedForGood` add (`Faultless`).

*Drain.* What the promises say of the end follows from how the clocks go
together: a request that is in flight when the listener is closed arrived before
that, so its age is at least the time since the end of the sleep (`ClocksOK`).
Hence whoever is there at the deadline has run for `Budget`, and whoever is there
at `Grace` for `Grace - PreStop` (`StragglersOK`). `DrainAssumption` is all that
is asked of the durations: the load balancer notices during the sleep, the sleep
and the budget fit into the grace period, and no answer is cut off sooner than
the budget. The first of these nothing in the repository bounds: the load
balancer's own settings (`ingress.yaml:58`: it goes on with targets that leave
for 30 s) leave it to the controller how soon it stops to send new requests.
`NoneRefused` holds where that is sooner than the 5 seconds of the sleep.

*Rotation.* How far the playbook is bounds what is out there (`PasswordsOK`):
from `stored` on role and secret agree, so every pod made from the template of
`restarted` has the new password, and when the rollout is over there are no
others. A pod of the new template can therefore not be refused, and as the last
pod that serves is never retired, one serves when the rollout is over, unless
something else took it (`ServingOK`). Before that, nobody serves only where an old
password was refused, which `refused` says.

*Browser.* What holds of the page on show must hold already of the requests
that will paint it: the newest view out is of the cookie's account, and
all runs of `boot()` and saved profiles that are out are of it as well, unless
`rival` (`AccountOK`). The like button needs that requests which ask
for the same cannot undo each other: unless an account is in `mixed`, its
requests agree (`Agreed`), what one has written stays written while another is
out (`Written`), and a button that is sure agrees with all that are still out
(`Settled`).

*Startup.* Of the apis that create the tables one alone is past the catalog's
index, and while it is there nothing is committed (`CreatesOnce`): its COMMIT
cannot take the schema back. `FeedSurvivesMigration` needs no invariant of the
locks, only how far sessions can be: a migration that waits and is waited for
holds `posts`, so a statement that is in a cycle with it asks for `posts` after
another table, or for `likes` after `posts`, which excludes the cycle.

The waits need the locks: granted ones never clash (`LocksOK`). Statements only wait
for migrations, since what they take never clashes among themselves. A migration
that waits for another one holds no lock yet (`WaitingApiHasNothing`): 002 begins
with the lock on `posts` that excludes all other migrations, and 001, once past the
catalog, locks nothing that clashes with another 001. So a session that waits and is
waited for is a migration that waits for a statement, or a statement that waits for
a migration (`Between`), and from that follow `DeadlocksArePairs`, that held locks
make no longer cycle (`ShortWaits`), and `NobodyStuck`. `FanOutReturns` has an
exception for an api whose bus is nil, as the program has no repair for it. An order
of the statements in 002 that does not begin with the exclusive lock breaks the
first step, as the mutant `AltersIndexFirst` shows.

The refinement of `Migration` uses `CreatesOnce` for the COMMIT of 001, and
`ServingHasSchema` for the pod that joins. A request that ends lets its pod rest
unless another one of the same pod is still there.

*Only model-checked*: the liveness properties `EventuallyShown`,
`EventuallyGone`, `RestartsRecover`, `PodsServe`, `RequestsEnd` and `FanOutReturns`
(out of the prover's reach), and the three violation runs.

## 5. Not modelled, and what could come next

- The chaos command (`chaos/chaos.py`): a list of shell commands per scenario. It
  keeps no state, and what it does to the cluster are steps of the other modules
  (`Kill`, `Outage`, `Restart`, `Expire`, slow workers). Whether a scenario counts
  as active is read off text that kubectl prints.
- `teardown.yml`, `scale.yml`, `diagnostics.yml`, the targets redis and grafana of
  `rotate-secrets.yml`: sequences of commands that change one thing each, or
  destroy everything.
- The worker's shutdown: `main` returns and the messages its subscription has
  buffered are lost, which `Timeline!Lose` has already.
- Password hashing, the limits on names, posts and profile fields, and counts of
  likes and followers: data that no property here tells apart. The follow
  button of the frontend, for the same reason.
- Counters, logs and traces (nothing reads them back); terraform, chart and most
  manifests (declarative: the settings that decide behaviour enter the models
  that need them); the transfer of dumps through S3.

Next would be abstract specifications of what `Rotation`, `Drain` and `Browser`
promise, with their refinements proved as those of `Timeline`, `Sessions` and
`Startup` are; the worker Deployment and the autoscaler's replica in `Rotation`;
row locks in `Startup`.
