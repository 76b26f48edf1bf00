------------------------------ MODULE Sessions ------------------------------
(***************************************************************************)
(* Accounts in Postgres, sessions in Redis, and the two events that take    *)
(* them apart: Redis restarts from an append-only file that may lack the    *)
(* last second, and the restore playbook puts an older database under the   *)
(* application.                                                             *)
(*                                                                          *)
(* A request is one call to Postgres or Redis per step; requests of the     *)
(* same browser share its cookie.  A request refused before it changes      *)
(* anything (400, 401, 409) is not an action.  Passwords are left out: a    *)
(* login names the account whose password it knows.                         *)
(*                                                                          *)
(* Ids come from a sequence, and a restored backup restores the sequence    *)
(* too, so one id can in time be given to two accounts.  `born' numbers the *)
(* INSERTs into `users' over the whole life of the system and so tells      *)
(* accounts apart that the program cannot; `owner', `gone', `revived',      *)
(* `answered', `stale' and `late' are history variables as well.            *)
(***************************************************************************)
EXTENDS Naturals, FiniteSets

CONSTANTS Names,              \* usernames
          Sids,               \* session ids: newSessionID never repeats one
          Requests, Browser,  \* requests in progress, and where they come from
          MaxBorn, MaxDumps,  \* bounds: accounts ever created, backups kept
          RedisFaults,        \* may a Redis command fail, or Redis restart?
          None

Browsers == {Browser[r] : r \in Requests}
Id == 1..MaxBorn
NoId == 0
User == [id : Id, name : Names, born : Id]
Tables == [users : SUBSET User, nextId : 1..(MaxBorn + 1)]

ASSUME SessionsAssumption ==
    /\ MaxBorn \in Nat /\ MaxDumps \in Nat /\ RedisFaults \in BOOLEAN
    /\ None \notin User /\ None \notin Sids

VARIABLES
    users, nextId, dumps,   \* Postgres, and the dumps in S3
    redis, disk,            \* session:<sid> in memory and in the synced AOF
    cookie,                 \* per browser
    pc, held, uid, sid,     \* per request: its step, and the row, the id and
                            \*   the session it works with
    phase,                  \* of the restore playbook
    lingering,              \* scaled to zero, but pods are still terminating
    born, owner, gone, revived, answered,
    stale, late             \* requests that the restore overtook, and the
                            \*   sessions that such requests stored

tables  == <<users, nextId, dumps>>
store   == <<redis, disk>>
request == <<pc, held, uid, sid>>
restore == <<phase, lingering>>
history == <<born, owner, gone, revived, answered, stale, late>>
vars == <<tables, store, cookie, request, restore, history>>

Init ==
    /\ users = {} /\ nextId = 1 /\ dumps = {}
    /\ redis = [s \in Sids |-> NoId]
    /\ disk = [s \in Sids |-> NoId]
    /\ cookie = [b \in Browsers |-> None]
    /\ pc = [r \in Requests |-> "idle"]
    /\ held = [r \in Requests |-> None]
    /\ uid = [r \in Requests |-> NoId]
    /\ sid = [r \in Requests |-> None]
    /\ phase = "up" /\ lingering = FALSE
    /\ born = 0
    /\ owner = [s \in Sids |-> NoId]
    /\ gone = {} /\ revived = {}
    /\ answered = [b \in Browsers |-> NoId]
    /\ stale = {} /\ late = {}

(* The preStop hook and the drain: a terminating pod takes requests for     *)
(* eight seconds more and finishes those it has for 25 more.                *)
Serving == phase = "up" \/ lingering

Named(name) == \E u \in users : u.name = name
Finish(r) ==
    /\ pc' = [pc EXCEPT ![r] = "idle"]
    /\ held' = [held EXCEPT ![r] = None]
    /\ uid' = [uid EXCEPT ![r] = NoId]
    /\ sid' = [sid EXCEPT ![r] = None]
    /\ stale' = stale \ {r}
-----------------------------------------------------------------------------
(* POST /api/signup: UNIQUE (username) decides between two at once. *)
Signup(r, name) ==
    LET row == [id |-> nextId, name |-> name, born |-> born + 1] IN
    /\ Serving /\ pc[r] = "idle" /\ born < MaxBorn
    /\ ~ Named(name)
    /\ users' = users \cup {row}
    /\ nextId' = nextId + 1
    /\ born' = born + 1
    /\ held' = [held EXCEPT ![r] = row]
    /\ pc' = [pc EXCEPT ![r] = "start"]
    /\ UNCHANGED <<dumps, store, cookie, uid, sid, restore, owner, gone, revived, answered,
                   stale, late>>

(* POST /api/login *)
Login(r, u) ==
    /\ Serving /\ pc[r] = "idle"
    /\ u \in users
    /\ held' = [held EXCEPT ![r] = u]
    /\ pc' = [pc EXCEPT ![r] = "start"]
    /\ UNCHANGED <<tables, store, cookie, uid, sid, restore, history>>

(* PutSession, then Set-Cookie and 200 or 201. *)
StartSession(r, s) ==
    /\ pc[r] = "start"
    /\ owner[s] = NoId
    /\ redis' = [redis EXCEPT ![s] = held[r].id]
    /\ owner' = [owner EXCEPT ![s] = held[r].born]
    /\ cookie' = [cookie EXCEPT ![Browser[r]] = s]
    /\ answered' = [answered EXCEPT ![Browser[r]] = held[r].born]
    /\ late' = IF r \in stale THEN late \cup {s} ELSE late
    /\ Finish(r)
    /\ UNCHANGED <<tables, disk, restore, born, gone, revived>>

(* PutSession fails: no cookie is set, and the answer is 200 or 201 anyway. *)
(* (A SET that worked although its reply was lost leaves a key whose name   *)
(* nobody knows.)                                                           *)
StartSessionFails(r) ==
    /\ RedisFaults
    /\ pc[r] = "start"
    /\ answered' = [answered EXCEPT ![Browser[r]] = held[r].born]
    /\ Finish(r)
    /\ UNCHANGED <<tables, store, cookie, restore, born, owner, gone, revived, late>>

(* The handler is done, UserByID finds no row or no table, the api dies or  *)
(* the client hangs up.                                                     *)
End(r) ==
    /\ pc[r] # "idle"
    /\ Finish(r)
    /\ UNCHANGED <<tables, store, cookie, restore, born, owner, gone, revived, answered, late>>

(* POST /api/logout: the cookie goes whether or not the DEL worked. *)
(* Mutant: no check that there is a cookie. *)
ClearAnyCookie(r) ==
    /\ Serving /\ pc[r] = "idle"
    /\ cookie' = [cookie EXCEPT ![Browser[r]] = None]
    /\ answered' = [answered EXCEPT ![Browser[r]] = NoId]
    /\ UNCHANGED <<tables, disk, request, restore, born, owner, revived, stale, late>>

ClearCookie(r) ==
    /\ Serving /\ pc[r] = "idle"
    /\ cookie[Browser[r]] # None
    /\ cookie' = [cookie EXCEPT ![Browser[r]] = None]
    /\ answered' = [answered EXCEPT ![Browser[r]] = NoId]
    /\ UNCHANGED <<tables, disk, request, restore, born, owner, revived, stale, late>>

Logout(r) ==
    /\ ClearCookie(r)
    /\ redis' = [redis EXCEPT ![cookie[Browser[r]]] = NoId]
    /\ gone' = gone \cup {cookie[Browser[r]]}

LogoutFails(r) ==
    /\ RedisFaults
    /\ ClearCookie(r)
    /\ UNCHANGED <<redis, gone>>

(* requireAuth: GET session:<sid>, then UserByID, then the handler runs as  *)
(* the row that was found.                                                  *)
LookUpSession(r) ==
    LET s == cookie[Browser[r]] IN
    /\ Serving /\ pc[r] = "idle"
    /\ s # None /\ redis[s] # NoId
    /\ sid' = [sid EXCEPT ![r] = s]
    /\ uid' = [uid EXCEPT ![r] = redis[s]]
    /\ pc' = [pc EXCEPT ![r] = "load"]
    /\ stale' = IF phase = "restored" THEN stale \cup {r} ELSE stale
    /\ UNCHANGED <<tables, store, cookie, held, restore, born, owner, gone, revived,
                   answered, late>>

(* Mutant: a sliding session, SET again on every authenticated request. *)
LoadUserAndRenew(r, u) ==
    /\ pc[r] = "load"
    /\ u \in users /\ u.id = uid[r]
    /\ held' = [held EXCEPT ![r] = u]
    /\ pc' = [pc EXCEPT ![r] = "serve"]
    /\ redis' = [redis EXCEPT ![sid[r]] = u.id]
    /\ UNCHANGED <<tables, disk, cookie, uid, sid, restore, history>>

LoadUser(r, u) ==
    /\ pc[r] = "load"
    /\ u \in users /\ u.id = uid[r]
    /\ held' = [held EXCEPT ![r] = u]
    /\ pc' = [pc EXCEPT ![r] = "serve"]
    /\ UNCHANGED <<tables, store, cookie, uid, sid, restore, history>>
-----------------------------------------------------------------------------
(* Redis: TTL and eviction, one fsync a second, restart from the AOF. *)
Expire(s) ==
    /\ redis[s] # NoId
    /\ redis' = [redis EXCEPT ![s] = NoId]
    /\ UNCHANGED <<tables, disk, cookie, request, restore, history>>

Sync ==
    /\ disk' = redis
    /\ UNCHANGED <<tables, redis, cookie, request, restore, history>>

Restart ==
    /\ RedisFaults
    /\ redis' = disk
    /\ revived' = revived \cup {s \in gone : disk[s] # NoId}
    /\ UNCHANGED <<tables, disk, cookie, request, restore, born, owner, gone, answered,
                   stale, late>>

(* The backup CronJob, and the restore playbook task by task.  Run again    *)
(* after a failed task it starts from the top; what is already scaled to    *)
(* zero stays so.                                                           *)
Dump ==
    /\ Cardinality(dumps) < MaxDumps
    /\ dumps' = dumps \cup {[users |-> users, nextId |-> nextId]}
    /\ UNCHANGED <<users, nextId, store, cookie, request, restore, history>>

ScaleToZero ==
    /\ dumps # {}
    /\ phase \in {"up", "flushed"}
    /\ phase' = "down"
    /\ lingering' = (lingering \/ phase = "up")
    /\ UNCHANGED <<tables, store, cookie, request, history>>

(* The task waits for the Deployment's count of replicas, which leaves out  *)
(* the pods that are terminating: they may still be there at any later task.*)
PodsGone ==
    /\ lingering /\ \A r \in Requests : pc[r] = "idle"
    /\ lingering' = FALSE
    /\ UNCHANGED <<tables, store, cookie, request, phase, history>>

(* DROP SCHEMA and pg_restore, in one step: in between a request finds no   *)
(* table and ends (an INSERT into a half-loaded one is left out).           *)
RestoreDump(d) ==
    /\ phase \in {"down", "restored"}
    /\ users' = d.users
    /\ nextId' = d.nextId
    /\ phase' = "restored"
    /\ stale' = stale \cup {r \in Requests : pc[r] # "idle"}
    /\ UNCHANGED <<dumps, store, cookie, request, lingering, born, owner, gone, revived,
                   answered, late>>

(* Mutant: only the cached timelines are deleted. *)
FlushTimelines ==
    /\ phase = "restored"
    /\ phase' = "flushed"
    /\ UNCHANGED <<tables, store, cookie, request, lingering, history>>

FlushRedis ==
    /\ phase = "restored"
    /\ redis' = [s \in Sids |-> NoId]
    /\ gone' = gone \cup {s \in Sids : owner[s] # NoId}
    /\ phase' = "flushed"
    /\ UNCHANGED <<tables, disk, cookie, request, lingering, born, owner, revived, answered,
                   stale, late>>

(* Mutant: the flush comes last. *)
ScaleUpFirst ==
    /\ phase \in {"restored", "flushed"}
    /\ phase' = "up" /\ lingering' = FALSE
    /\ UNCHANGED <<tables, store, cookie, request, history>>

(* From here on it makes no difference which pod a request goes through.    *)
ScaleUp ==
    /\ phase = "flushed"
    /\ phase' = "up" /\ lingering' = FALSE
    /\ UNCHANGED <<tables, store, cookie, request, history>>
-----------------------------------------------------------------------------
Handle(r) ==
    \/ \E name \in Names : Signup(r, name)
    \/ \E u \in users : Login(r, u) \/ LoadUser(r, u)
    \/ \E s \in Sids : StartSession(r, s)
    \/ StartSessionFails(r)
    \/ Logout(r) \/ LogoutFails(r)
    \/ LookUpSession(r)
    \/ End(r)

Playbook ==
    \/ ScaleToZero \/ PodsGone
    \/ \E d \in dumps : RestoreDump(d)
    \/ FlushRedis \/ ScaleUp

Next ==
    \/ \E r \in Requests : Handle(r)
    \/ \E s \in Sids : Expire(s)
    \/ Sync \/ Restart
    \/ Dump \/ Playbook

Spec == Init /\ [][Next]_vars
-----------------------------------------------------------------------------
(* What the variables hold. *)
TypeOK ==
    /\ users \subseteq User /\ nextId \in 1..(MaxBorn + 1) /\ dumps \subseteq Tables
    /\ redis \in [Sids -> Id \cup {NoId}] /\ disk \in [Sids -> Id \cup {NoId}]
    /\ cookie \in [Browsers -> Sids \cup {None}]
    /\ pc \in [Requests -> {"idle", "start", "load", "serve"}]
    /\ held \in [Requests -> User \cup {None}]
    /\ uid \in [Requests -> Id \cup {NoId}]
    /\ sid \in [Requests -> Sids \cup {None}]
    /\ phase \in {"up", "down", "restored", "flushed"} /\ lingering \in BOOLEAN
    /\ born \in 0..MaxBorn /\ owner \in [Sids -> Id \cup {NoId}]
    /\ gone \subseteq Sids /\ revived \subseteq gone
    /\ answered \in [Browsers -> Id \cup {NoId}]
    /\ stale \subseteq Requests /\ late \subseteq Sids

(* The id stored under session s is the id of the account whose login       *)
(* created s.                                                               *)
Belongs(s, id) == \E u \in users : u.id = id /\ u.born = owner[s]

(* What nothing is promised of: a session that is back although it was      *)
(* ended, since Redis restarted before the DEL or FLUSHALL reached the      *)
(* disk, and one that a request stored which the restore had overtaken.     *)
Doubtful == revived \cup late

(* A handler runs as the account whose signup or login started the session, *)
(* never as another account that was given the same id after a restore -    *)
(* whichever pod serves it, and doubtful sessions apart, unless the request *)
(* was in a terminating pod while the database was replaced, or looked its  *)
(* session up there before the FLUSHALL.                                    *)
ActsForOwner ==
    \A r \in Requests \ stale : pc[r] = "serve" /\ sid[r] \notin Doubtful =>
        held[r].born = owner[sid[r]]

(* While the application is up, every session in Redis but a doubtful one   *)
(* is one of an account that exists, whatever was restored.                 *)
SessionsBelong ==
    phase = "up" =>
        \A s \in Sids \ Doubtful : redis[s] # NoId => Belongs(s, redis[s])

(* A session that was logged out, or flushed, is not answered from again,   *)
(* whatever other requests of that browser are still in progress.           *)
LogoutSticks == \A s \in gone \ revived : redis[s] = NoId

(* README.md:77 "verify -> session in Redis": who was told 200 acts as      *)
(* themselves from then on.                                                 *)
AnsweredUserActs ==
    \A b \in Browsers : cookie[b] # None /\ answered[b] # NoId =>
        owner[cookie[b]] = answered[b]
-----------------------------------------------------------------------------
(* The inductive invariant: ids are unique in the tables and in every dump, *)
(* and what may come back from disk already satisfies what memory must.     *)
UniqueIds(us, next) ==
    /\ \A u \in us : u.id < next
    /\ \A u, v \in us : u.id = v.id => u = v

TablesOK ==
    /\ UniqueIds(users, nextId)
    /\ \A d \in dumps : UniqueIds(d.users, d.nextId)
    /\ nextId <= born + 1 /\ \A d \in dumps : d.nextId <= born + 1
    /\ \A u \in users : u.born <= born
    /\ \A d \in dumps : \A u \in d.users : u.born <= born

StoreOK ==
    /\ \A s \in Sids : owner[s] = NoId => redis[s] = NoId /\ disk[s] = NoId /\ s \notin gone
    /\ \A b \in Browsers : cookie[b] # None => owner[cookie[b]] # NoId
    /\ phase # "restored" => \A s \in Sids \ (gone \cup late) :
          /\ redis[s] # NoId => Belongs(s, redis[s])
          /\ disk[s] # NoId => Belongs(s, disk[s])

RequestsOK ==
    \A r \in Requests :
        /\ pc[r] = "start" =>
              /\ held[r] \in User /\ held[r].born <= born
              /\ r \in stale \/ held[r] \in users
        /\ pc[r] = "load" =>
              /\ sid[r] \in Sids /\ owner[sid[r]] # NoId
              /\ sid[r] \in Doubtful \/ r \in stale \/ Belongs(sid[r], uid[r])
        /\ pc[r] = "serve" =>
              /\ held[r] \in User
              /\ sid[r] \in Sids /\ owner[sid[r]] # NoId

IInv == TypeOK /\ TablesOK /\ StoreOK /\ RequestsOK /\ LogoutSticks /\ ActsForOwner
=============================================================================
