------------------------------ MODULE Startup ------------------------------
(***************************************************************************)
(* How api replicas and the worker start, while others serve: every api     *)
(* process runs all migration files against the shared database before it   *)
(* listens, and looks for NATS once.                                        *)
(*                                                                          *)
(* A file goes to Postgres as one multi-statement query, which is one       *)
(* transaction: the table locks of its statements are kept until its end.   *)
(* So are those of a statement of a handler, until that statement is over.  *)
(* A session is modelled by the locks it asks for, in the order in which    *)
(* its SQL names the tables; row locks are left out, and so is the queue of *)
(* those that wait: see Awaits.  A mode stands for all modes that clash     *)
(* with the same modes in use here: "read" for ACCESS SHARE and ROW SHARE,  *)
(* "write" for ROW EXCLUSIVE, "share" for SHARE, "exclusive" for ACCESS     *)
(* EXCLUSIVE.                                                               *)
(***************************************************************************)
EXTENDS Naturals, Sequences, FiniteSets

CONSTANTS Apis, Worker,  \* the pods
          Slots,         \* requests an api can be at work on at a time
          MaxRequest,    \* bound on the requests ever made
          MaxKill,       \* bound on the api pods that are killed
          MaxOutage,     \* bound on the restarts of NATS
          None

ASSUME StartupAssumption ==
    /\ MaxRequest \in Nat /\ MaxKill \in Nat /\ MaxOutage \in Nat
    /\ Apis \cap Slots = {} /\ Worker \notin Apis /\ None \notin Apis

Sessions == Apis \cup Slots
Pods     == Apis \cup {Worker}

VARIABLES
    schema,       \* the files committed so far, 0 to 2
    stage,        \* per api: how far it is in main()
    request, by, step, \* per slot: its handler's statements, its pod, how far it is
    got,          \* per session: how many of its locks it holds
    nats, bus,    \* is NATS up?  Per pod: its *Bus
    requests, kills, outages

db   == <<schema, got>>
work == <<request, by, step>>
net  == <<nats, bus>>
caps == <<requests, kills, outages>>
vars == <<db, stage, work, net, caps>>
-----------------------------------------------------------------------------
(* The statements of package store and of the migration files. *)

Lock(table, mode) == [table |-> table, mode |-> mode]

UserByID      == <<Lock("users", "read")>>
UserByName    == <<Lock("users", "read")>>
CreateUser    == <<Lock("users", "write")>>
UpdateProfile == <<Lock("users", "write")>>

UserColumns   == <<Lock("users", "read"), Lock("follows", "read"), Lock("posts", "read")>>
Profile       == UserColumns
ListUsers     == UserColumns
Me            == UserColumns

PostColumns   == <<Lock("posts", "read"), Lock("users", "read"), Lock("likes", "read")>>
PostByID      == PostColumns
Replies       == PostColumns
UserPosts     == PostColumns
Timeline      == <<Lock("posts", "read"), Lock("users", "read"), Lock("likes", "read"),
                   Lock("follows", "read")>>

(* A foreign key is checked, and cascades, in the same transaction. *)
CreatePost    == <<Lock("posts", "write"), Lock("users", "read")>>
DeletePost    == <<Lock("posts", "write"), Lock("likes", "write")>>
Like          == <<Lock("likes", "write"), Lock("users", "read"), Lock("posts", "read")>>
Unlike        == <<Lock("likes", "write")>>
Follow        == <<Lock("follows", "write"), Lock("users", "read")>>
Unfollow      == <<Lock("follows", "write")>>

(* 001 on an empty database: of two sessions that create the same table one *)
(* waits at the catalog's unique index for the other to end.                *)
Creates == <<Lock("pg_class", "exclusive")>>

(* 001 again: only CREATE INDEX IF NOT EXISTS takes a lock. *)
Indexes == <<Lock("posts", "share"), Lock("follows", "share")>>

(* Mutant: the columns of `users' are added first. *)
AltersUsersFirst ==
    <<Lock("users", "exclusive"), Lock("posts", "exclusive"), Lock("likes", "share")>>

(* Mutant: the index on posts is made before the column is added. *)
AltersIndexFirst ==
    <<Lock("posts", "share"), Lock("posts", "exclusive"), Lock("likes", "share"),
      Lock("users", "exclusive")>>

(* 002: ALTER TABLE locks before it looks whether the column is there.      *)
Alters == <<Lock("posts", "exclusive"), Lock("likes", "share"), Lock("users", "exclusive")>>

(* The handlers, as the statements they make one after the other: first     *)
(* requireAuth's, then their own.                                           *)
signup        == <<CreateUser>>
login         == <<UserByName>>
timeline      == <<UserByID, Timeline>>
thread        == <<UserByID, PostByID, Replies>>
createPost    == <<UserByID, CreatePost>>
reply         == <<UserByID, PostByID, CreatePost>>
deletePost    == <<UserByID, DeletePost>>
like          == <<UserByID, Like, PostByID>>
unlike        == <<UserByID, Unlike, PostByID>>
follow        == <<UserByID, UserByName, Follow>>
unfollow      == <<UserByID, UserByName, Unfollow>>
me            == <<UserByID, Me>>
listUsers     == <<UserByID, ListUsers>>
profile       == <<UserByID, Profile, UserPosts>>
updateProfile == <<UserByID, UpdateProfile, Me>>

Handlers == {signup, login, timeline, thread, createPost, reply, deletePost, like, unlike,
             follow, unfollow, me, listUsers, profile, updateProfile}

(* What a session's transaction locks until it is over. *)
Todo(s) ==
    IF s \in Slots
    THEN IF request[s] = << >> THEN << >> ELSE request[s][step[s]]
    ELSE CASE stage[s] = "create" -> Creates
           [] stage[s] = "index"  -> Indexes
           [] stage[s] = "alter"  -> Alters
           [] OTHER               -> << >>

Held(s) == {Todo(s)[i] : i \in 1..got[s]}
Asked(s) == Todo(s)[got[s] + 1]
Wants(s) == got[s] < Len(Todo(s))

Clash(k, l) ==
    /\ k.table = l.table
    /\ "exclusive" \in {k.mode, l.mode} \/ {k.mode, l.mode} = {"share", "write"}

Writes(statement) == \E i \in DOMAIN statement : statement[i].mode = "write"

(* s waits for a lock that t has.  Postgres also makes s wait behind those  *)
(* who asked before it and whose request clashes with its own.  That can    *)
(* only put off a Grant: where such a wait closes a cycle and the locks     *)
(* that are held make none, its detector changes the order of the queue and *)
(* ends nobody, so the sessions that may lose are those of Deadlocked.      *)
Awaits(s, t) == s # t /\ Wants(s) /\ \E l \in Held(t) : Clash(l, Asked(s))

Blocked(s) == \E t \in Sessions : Awaits(s, t)

Init ==
    /\ schema \in 0..2
    /\ stage = [p \in Apis |-> "down"]
    /\ request = [q \in Slots |-> << >>]
    /\ by = [q \in Slots |-> None]
    /\ step = [q \in Slots |-> 1]
    /\ got = [s \in Sessions |-> 0]
    /\ nats \in BOOLEAN
    /\ bus = [p \in Pods |-> "none"]
    /\ requests = 0 /\ kills = 0 /\ outages = 0
-----------------------------------------------------------------------------
(* main() of the api. *)

Goes(p, to) == stage' = [stage EXCEPT ![p] = to] /\ got' = [got EXCEPT ![p] = 0]

(* Mutant: CREATE TABLE without IF NOT EXISTS. *)
StartBlindly(p) ==
    /\ stage[p] = "down"
    /\ Goes(p, "create")
    /\ UNCHANGED <<schema, work, net, caps>>

(* IF NOT EXISTS is decided here, before there is a lock to wait for.       *)
Start(p) ==
    /\ stage[p] = "down"
    /\ Goes(p, IF schema = 0 THEN "create" ELSE "index")
    /\ UNCHANGED <<schema, work, net, caps>>

(* A migration or a statement is granted its next lock.  The creation of a  *)
(* table that is there by now is refused, see AlreadyExists.                *)
Grant(s) ==
    /\ Wants(s) /\ ~ Blocked(s)
    /\ s \in Apis /\ stage[s] = "create" => schema = 0
    /\ got' = [got EXCEPT ![s] = @ + 1]
    /\ UNCHANGED <<schema, stage, work, net, caps>>

Migrating(p) == stage[p] \in {"create", "index", "alter"}

(* Mutant: each file counts, run again or not. *)
CommitCounts(p) ==
    /\ Migrating(p) /\ ~ Wants(p)
    /\ schema' = schema + 1
    /\ Goes(p, IF stage[p] = "alter" THEN "bus" ELSE "alter")
    /\ UNCHANGED <<work, net, caps>>

(* Mutant: the schema is that of the file that was committed last. *)
CommitLast(p) ==
    /\ Migrating(p) /\ ~ Wants(p)
    /\ schema' = IF stage[p] = "alter" THEN 2 ELSE 1
    /\ Goes(p, IF stage[p] = "alter" THEN "bus" ELSE "alter")
    /\ UNCHANGED <<work, net, caps>>

Commit(p) ==
    /\ Migrating(p) /\ ~ Wants(p)
    /\ schema' = CASE stage[p] = "create" -> 1
                   [] stage[p] = "index"  -> schema
                   [] stage[p] = "alter"  -> 2
    /\ Goes(p, IF stage[p] = "alter" THEN "bus" ELSE "alter")
    /\ UNCHANGED <<work, net, caps>>

(* Mutant: a failed migration is logged and the api goes on. *)
ExitNot(p) ==
    /\ Goes(p, "bus")
    /\ bus' = bus
    /\ UNCHANGED <<request, by, step>>

(* The process ends, or is ended.  Postgres rolls its transactions back.    *)
Exit(p) ==
    LET Of(q) == by[q] = p IN
    /\ stage' = [stage EXCEPT ![p] = "down"]
    /\ got' = [s \in Sessions |-> IF s = p \/ (s \in Slots /\ Of(s)) THEN 0 ELSE got[s]]
    /\ bus' = [bus EXCEPT ![p] = "none"]
    /\ request' = [q \in Slots |-> IF Of(q) THEN << >> ELSE request[q]]
    /\ by' = [q \in Slots |-> IF Of(q) THEN None ELSE by[q]]
    /\ step' = [q \in Slots |-> IF Of(q) THEN 1 ELSE step[q]]

(* The other session committed: unique_violation, "migrations failed".      *)
AlreadyExists(p) ==
    /\ stage[p] = "create" /\ schema # 0 /\ ~ Blocked(p)
    /\ Exit(p)
    /\ UNCHANGED <<schema, nats, caps>>

(* A node or the kubelet's startup probe kills the pod, Postgres restarts.  *)
Kill(p) ==
    /\ stage[p] # "down" /\ kills < MaxKill
    /\ kills' = kills + 1
    /\ Exit(p)
    /\ UNCHANGED <<schema, nats, requests, outages>>

(* bus.Connect tries once; its error is not fatal, and the *Bus stays nil.  *)
ConnectBus(p) ==
    /\ stage[p] = "bus"
    /\ bus' = [bus EXCEPT ![p] = IF nats THEN "up" ELSE "nil"]
    /\ Goes(p, "serve")
    /\ UNCHANGED <<schema, work, nats, caps>>
-----------------------------------------------------------------------------
(* Requests. *)

Request(q, h, p) ==
    /\ request[q] = << >> /\ stage[p] = "serve"
    /\ requests < MaxRequest
    /\ requests' = requests + 1
    /\ request' = [request EXCEPT ![q] = h]
    /\ by' = [by EXCEPT ![q] = p]
    /\ UNCHANGED <<db, stage, step, net, kills, outages>>

Leave(q) ==
    /\ request' = [request EXCEPT ![q] = << >>]
    /\ by' = [by EXCEPT ![q] = None]
    /\ step' = [step EXCEPT ![q] = 1]
    /\ got' = [got EXCEPT ![q] = 0]
    /\ UNCHANGED <<schema, stage, net, caps>>

(* Mutant: the handler makes its first statement again. *)
RunAgain(q) ==
    /\ request[q] # << >> /\ ~ Wants(q)
    /\ step[q] < Len(request[q])
    /\ got' = [got EXCEPT ![q] = 0]
    /\ UNCHANGED <<schema, stage, work, net, caps>>

(* A statement is over: the next one, or the answer. *)
NextStatement(q) ==
    /\ request[q] # << >> /\ ~ Wants(q)
    /\ step[q] < Len(request[q])
    /\ step' = [step EXCEPT ![q] = @ + 1]
    /\ got' = [got EXCEPT ![q] = 0]
    /\ UNCHANGED <<schema, stage, request, by, net, caps>>

Answer(q) ==
    /\ request[q] # << >> /\ ~ Wants(q)
    /\ step[q] = Len(request[q])
    /\ Leave(q)

(* The client goes away, or a statement fails or finds nothing to go on with. *)
Abort(q) ==
    /\ request[q] # << >>
    /\ Leave(q)
-----------------------------------------------------------------------------
(* Postgres ends a deadlock after deadlock_timeout, at either's expense.    *)

Deadlocked(q, p) == Awaits(q, p) /\ Awaits(p, q)

StatementLoses(q, p) ==
    /\ Deadlocked(q, p)
    /\ Leave(q)

MigrationLoses(q, p) ==
    /\ Deadlocked(q, p)
    /\ Exit(p)
    /\ UNCHANGED <<schema, nats, caps>>
-----------------------------------------------------------------------------
(* NATS, and the client library's reconnection. *)

Outage ==
    /\ nats /\ outages < MaxOutage
    /\ nats' = FALSE /\ outages' = outages + 1
    /\ bus' = [p \in Pods |-> IF bus[p] = "up" THEN "down" ELSE bus[p]]
    /\ UNCHANGED <<db, stage, work, requests, kills>>

Restored ==
    /\ ~ nats
    /\ nats' = TRUE
    /\ UNCHANGED <<db, stage, work, bus, caps>>

(* Mutant: MaxReconnects left at its default, long used up. *)
GiveUp(p) ==
    /\ FALSE
    /\ UNCHANGED vars

Reconnect(p) ==
    /\ nats /\ bus[p] = "down"
    /\ bus' = [bus EXCEPT ![p] = "up"]
    /\ UNCHANGED <<db, stage, work, nats, caps>>

(* main() of the worker: without NATS it exits, to be started again.        *)
WorkerStart ==
    /\ bus[Worker] = "none" /\ nats
    /\ bus' = [bus EXCEPT ![Worker] = "up"]
    /\ UNCHANGED <<db, stage, work, nats, caps>>

(* Its /healthz says "nats disconnected" three times. *)
WorkerRestart ==
    /\ bus[Worker] = "down"
    /\ bus' = [bus EXCEPT ![Worker] = "none"]
    /\ UNCHANGED <<db, stage, work, nats, caps>>
-----------------------------------------------------------------------------
Boot(p) == Start(p) \/ Grant(p) \/ Commit(p) \/ AlreadyExists(p) \/ ConnectBus(p)

Handle(q) == Grant(q) \/ NextStatement(q) \/ Answer(q)

Detect(q, p) == StatementLoses(q, p) \/ MigrationLoses(q, p)

Next ==
    \/ \E p \in Apis : Boot(p) \/ Kill(p)
    \/ \E q \in Slots : Handle(q) \/ Abort(q)
    \/ \E q \in Slots, p \in Apis : Detect(q, p) \/ \E h \in Handlers : Request(q, h, p)
    \/ \E p \in Pods : Reconnect(p)
    \/ Outage \/ Restored \/ WorkerStart \/ WorkerRestart

Spec == Init /\ [][Next]_vars

(* The kubelet restarts what exits, processes run, Postgres looks for       *)
(* deadlocks, and the client library tries every second.  A statement is    *)
(* not passed over for ever by a migration that loses and starts again: it  *)
(* is ahead of it in Postgres's queue.  Nothing is said of when NATS comes  *)
(* back.                                                                    *)
Fairness ==
    /\ \A p \in Apis : WF_vars(Boot(p))
    /\ \A q \in Slots : SF_vars(Handle(q))
    /\ WF_vars(\E q \in Slots, p \in Apis : Detect(q, p))
    /\ WF_vars(\E p \in Pods : Reconnect(p))
    /\ WF_vars(WorkerStart)

FairSpec == Spec /\ Fairness
-----------------------------------------------------------------------------
TypeOK ==
    /\ schema \in 0..2
    /\ stage \in [Apis -> {"down", "create", "index", "alter", "bus", "serve"}]
    /\ request \in [Slots -> Handlers \cup {<< >>}]
    /\ by \in [Slots -> Apis \cup {None}]
    /\ step \in [Slots -> 1..3]
    /\ got \in [Sessions -> 0..4]
    /\ nats \in BOOLEAN /\ bus \in [Pods -> {"none", "nil", "up", "down"}]
    /\ requests \in 0..MaxRequest /\ kills \in 0..MaxKill /\ outages \in 0..MaxOutage

(* No api listens, and no request is at work, on tables that are not all    *)
(* there, whoever creates them and whoever is killed over it.               *)
ServingHasSchema ==
    /\ \A p \in Apis : stage[p] \in {"bus", "serve"} => schema = 2
    /\ \A q \in Slots : request[q] # << >> => stage[by[q]] = "serve"

(* 002_social.sql:2 "re-running against an existing database is safe": a    *)
(* migration that is run again under traffic can only end the statements    *)
(* that lock another table before `posts'.  The feed, threads, new posts    *)
(* and deletions always get through, and what a request has committed is    *)
(* answered - but for a changed profile.                                    *)
FeedSurvivesMigration ==
    \A q \in Slots, p \in Apis : Deadlocked(q, p) =>
        /\ Todo(q) \in {UserColumns, Like}
        /\ (\E i \in 1..(step[q] - 1) : Writes(request[q][i])) => request[q] = updateProfile

(* Whatever number of pods migrate under whatever traffic, a deadlock is    *)
(* between one migration and one statement: two migrations never block each *)
(* other, although each runs both files (002_social.sql:2 again).           *)
DeadlocksArePairs ==
    \A s, t \in Sessions : Awaits(s, t) /\ Awaits(t, s) =>
        \E q \in Slots, p \in Apis : {s, t} = {q, p}

(* Whenever somebody waits for a lock, somebody else who has one waits for  *)
(* none, or there is a deadlock for Postgres to find.                       *)
NobodyStuck ==
    (\E s \in Sessions : Blocked(s)) =>
        \/ \E s \in Sessions : got[s] # 0 /\ ~ Blocked(s)
        \/ \E q \in Slots, p \in Apis : Deadlocked(q, p)

(* What the proofs need besides: of two apis that create the tables only    *)
(* one is past the catalog's index, and nobody else is further yet.         *)
Creating(p) == stage[p] = "create" /\ got[p] # 0

CreatesOnce ==
    \A p \in Apis : Creating(p) => schema = 0 /\ \A r \in Apis : Creating(r) => r = p

(* Postgres grants no lock that clashes with one that another session has,  *)
(* and no session has more than it asked for.                               *)
LocksOK ==
    /\ \A s \in Sessions : got[s] = 0 \/ got[s] <= Len(Todo(s))
    /\ \A s, t \in Sessions : s # t =>
          \A k \in Held(s), l \in Held(t) : ~ Clash(k, l)

InStep ==
    /\ \A p \in Apis : stage[p] \in {"index", "alter"} => schema # 0
    /\ \A q \in Slots : IF request[q] = << >> THEN step[q] = 1
                        ELSE by[q] \in Apis /\ step[q] <= Len(request[q])

IInv == TypeOK /\ ServingHasSchema /\ CreatesOnce /\ InStep /\ LocksOK

(* Every api serves in the end, although two may create the same tables and *)
(* either side of a deadlock may lose.                                      *)
PodsServe == \A p \in Apis : <>[](stage[p] = "serve")

(* Nobody waits for a lock for ever. *)
RequestsEnd == \A q \in Slots : request[q] # << >> ~> request[q] = << >>

(* Once NATS stays up, the worker is subscribed for good, and so is every   *)
(* api connected that did not start while NATS was down (main.go:57).       *)
FanOutReturns ==
    <>[]nats => <>[](bus[Worker] = "up" /\ \A p \in Apis : bus[p] \in {"up", "nil"})
=============================================================================
