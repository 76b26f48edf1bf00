---------------------------- MODULE StartupProofs ----------------------------
(* Startup, for every set of api pods, any number of requests at a time and *)
(* every bound on requests, kills and outages.                              *)
EXTENDS StartupMigration, TLAPS

(* The statements a handler can be made of. *)
Statement == {UserByID, CreateUser, UserColumns, PostColumns, Timeline, CreatePost,
              DeletePost, Like, Unlike, Follow, Unfollow}

LEMMA Same ==
    /\ UserByName \in Statement /\ UpdateProfile \in Statement /\ Profile \in Statement
    /\ ListUsers \in Statement /\ Me \in Statement /\ PostByID \in Statement
    /\ Replies \in Statement /\ UserPosts \in Statement
<1>1. UserByName = UserByID /\ UpdateProfile = CreateUser
  BY DEF UserByName, UserByID, UpdateProfile, CreateUser
<1>2. QED
  BY <1>1 DEF Statement, Profile, ListUsers, Me, PostByID, Replies, UserPosts

LEMMA HandlerSteps ==
    ASSUME NEW h \in Handlers
    PROVE  /\ Len(h) \in 1..3
           /\ \A i \in 1..Len(h) : h[i] \in Statement
<1>1. CASE h = signup
  BY <1>1, Same DEF Statement, signup
<1>2. CASE h = login
  BY <1>2, Same DEF Statement, login
<1>3. CASE h = timeline
  BY <1>3, Same DEF Statement, timeline
<1>4. CASE h = thread
  BY <1>4, Same DEF Statement, thread
<1>5. CASE h = createPost
  BY <1>5, Same DEF Statement, createPost
<1>6. CASE h = reply
  BY <1>6, Same DEF Statement, reply
<1>7. CASE h = deletePost
  BY <1>7, Same DEF Statement, deletePost
<1>8. CASE h = like
  BY <1>8, Same DEF Statement, like
<1>9. CASE h = unlike
  BY <1>9, Same DEF Statement, unlike
<1>10. CASE h = follow
  BY <1>10, Same DEF Statement, follow
<1>11. CASE h = unfollow
  BY <1>11, Same DEF Statement, unfollow
<1>12. CASE h = me
  BY <1>12, Same DEF Statement, me
<1>13. CASE h = listUsers
  BY <1>13, Same DEF Statement, listUsers
<1>14. CASE h = profile
  BY <1>14, Same DEF Statement, profile
<1>15. CASE h = updateProfile
  BY <1>15, Same DEF Statement, updateProfile
<1>16. QED
  BY <1>1, <1>2, <1>3, <1>4, <1>5, <1>6, <1>7, <1>8,
     <1>9, <1>10, <1>11, <1>12, <1>13, <1>14, <1>15 DEF Handlers

(* What a session has to lock: at most four tables, or the catalog. *)
LEMMA StatementLength ==
    \A t \in Statement : Len(t) \in 1..4
BY DEF Statement, UserByID, CreateUser, UserColumns, PostColumns, Timeline, CreatePost,
   DeletePost, Like, Unlike, Follow, Unfollow, Lock

LEMMA SlotTodo ==
    ASSUME TypeOK, InStep, NEW q \in Slots, request[q] # << >>
    PROVE  Todo(q) \in Statement /\ Todo(q) = request[q][step[q]] /\ step[q] \in 1..Len(request[q])
<1>1. request[q] \in Handlers
  BY DEF TypeOK
<1>2. step[q] \in 1..Len(request[q])
  BY <1>1, HandlerSteps DEF TypeOK, InStep
<1>3. QED
  BY <1>1, <1>2, HandlerSteps DEF Todo

LEMMA ApiTodo ==
    ASSUME TypeOK, NEW p \in Apis
    PROVE  /\ p \notin Slots
           /\ Todo(p) = CASE stage[p] = "create" -> Creates
                          [] stage[p] = "index"  -> Indexes
                          [] stage[p] = "alter"  -> Alters
                          [] OTHER               -> << >>
BY StartupAssumption DEF Todo

LEMMA TodoLength ==
    ASSUME TypeOK, InStep, NEW s \in Sessions
    PROVE  Len(Todo(s)) \in 0..4
<1>1. CASE s \in Slots /\ request[s] = << >>
  BY <1>1 DEF Todo
<1>2. CASE s \in Slots /\ request[s] # << >>
  BY <1>2, SlotTodo, StatementLength
<1>3. CASE s \in Apis
  BY <1>3, ApiTodo DEF Creates, Indexes, Alters, Lock
<1>4. QED
  BY <1>1, <1>2, <1>3 DEF Sessions

(* What holds apart from the locks, action by action. *)
Base == TypeOK /\ ServingHasSchema /\ CreatesOnce /\ InStep

LEMMA InitInv == Init => IInv
<1> SUFFICES ASSUME Init PROVE IInv
  OBVIOUS
<1>1. TypeOK
  BY StartupAssumption DEF Init, TypeOK
<1>2. ServingHasSchema /\ CreatesOnce /\ InStep
  BY DEF Init, ServingHasSchema, CreatesOnce, Creating, InStep
<1>3. LocksOK
  BY DEF Init, LocksOK, Held
<1>4. QED
  BY <1>1, <1>2, <1>3 DEF IInv

LEMMA StartInv == ASSUME IInv, NEW p \in Apis, Start(p) PROVE Base'
<1> USE DEF IInv, Base, work, net, caps
<1>1. TypeOK'
  BY StartupAssumption DEF Start, Goes, TypeOK, Sessions
<1>2. ServingHasSchema'
  BY DEF Start, Goes, TypeOK, ServingHasSchema
<1>3. CreatesOnce'
  BY DEF Start, Goes, TypeOK, CreatesOnce, Creating, Sessions
<1>4. InStep'
  BY DEF Start, Goes, TypeOK, InStep
<1>5. QED
  BY <1>1, <1>2, <1>3, <1>4

(* Who creates the tables holds the catalog's index against all the others. *)
LEMMA CreatorAlone ==
    ASSUME IInv, NEW p \in Apis, NEW r \in Apis, p # r, Creating(r),
           stage[p] = "create", got[p] = 0
    PROVE  Blocked(p)
<1>1. Todo(p) = Creates /\ Todo(r) = Creates
  BY ApiTodo DEF IInv, Creating
<1>2. Wants(p) /\ Asked(p) = Creates[1]
  BY <1>1 DEF Wants, Asked, Creates
<1>3. Creates[1] \in Held(r)
  BY <1>1 DEF Held, Creating, IInv, TypeOK, Sessions
<1>4. Clash(Creates[1], Creates[1])
  BY DEF Clash, Creates, Lock
<1>5. QED
  BY <1>2, <1>3, <1>4 DEF Blocked, Awaits, Sessions

LEMMA GrantInv == ASSUME IInv, NEW s \in Sessions, Grant(s) PROVE Base'
<1> USE DEF IInv, Base, work, net, caps
<1>1. got[s] \in 0..4 /\ got[s] < Len(Todo(s)) /\ Len(Todo(s)) \in 0..4
  BY TodoLength DEF Grant, Wants, TypeOK
<1>2. TypeOK'
  <2>1. got[s] + 1 \in 0..4
    <3>1. \A g, n \in 0..4 : g < n => g + 1 \in 0..4
      OBVIOUS
    <3>2. QED
      BY <1>1, <3>1, Zenon
  <2>2. got' \in [Sessions -> 0..4]
    BY <2>1 DEF Grant, TypeOK
  <2>3. QED
    BY <2>2 DEF Grant, TypeOK
<1>3. ServingHasSchema' /\ InStep'
  BY DEF Grant, ServingHasSchema, InStep
<1>4. CreatesOnce'
  <2>1. CASE s \in Apis /\ stage[s] = "create"
    <3>1. got[s] = 0
      <4>1. Len(Todo(s)) = 1
        BY <2>1, ApiTodo DEF Creates
      <4>2. QED
        BY <1>1, <4>1
    <3>2. schema = 0 /\ \A r \in Apis : r # s => ~ Creating(r)
      BY <2>1, <3>1, CreatorAlone DEF Grant
    <3>3. got' = [got EXCEPT ![s] = 1] /\ stage' = stage /\ schema' = schema
      BY <3>1 DEF Grant, TypeOK
    <3>4. QED
      BY <3>2, <3>3 DEF CreatesOnce, Creating, TypeOK, Sessions
  <2>2. CASE ~ (s \in Apis /\ stage[s] = "create")
    BY <2>2 DEF Grant, CreatesOnce, Creating, TypeOK, Sessions
  <2>3. QED
    BY <2>1, <2>2
<1>5. QED
  BY <1>2, <1>3, <1>4

LEMMA CommitInv == ASSUME IInv, NEW p \in Apis, Commit(p) PROVE Base'
<1> USE DEF IInv, Base, work, net, caps
<1>1. CASE stage[p] = "create"
  <2>1. Len(Todo(p)) = 1 /\ got[p] \in 0..4
    BY <1>1, ApiTodo DEF Creates, TypeOK, Sessions
  <2>2. got[p] >= 1 /\ stage'[p] = "alter" /\ schema' = 1
    BY <1>1, <2>1 DEF Commit, Wants, Goes, TypeOK
  <2>3. schema = 0 /\ \A r \in Apis : Creating(r) => r = p
    BY <1>1, <2>1, <2>2 DEF CreatesOnce, Creating
  <2>4. TypeOK'
    BY <1>1, <2>2 DEF Commit, Goes, TypeOK, Sessions
  <2>5. ServingHasSchema' /\ CreatesOnce' /\ InStep'
    BY <1>1, <2>2, <2>3 DEF Commit, Goes, TypeOK, Sessions, ServingHasSchema, CreatesOnce,
       Creating, InStep
  <2>6. QED
    BY <2>4, <2>5
<1>2. CASE stage[p] \in {"index", "alter"}
  <2>1. schema' = IF stage[p] = "index" THEN schema ELSE 2
    BY <1>2 DEF Commit
  <2>2. schema # 0 /\ schema' # 0 /\ (schema = 2 => schema' = 2) /\ schema' \in 0..2
    BY <1>2, <2>1 DEF InStep, TypeOK
  <2>3. TypeOK'
    BY <1>2, <2>2 DEF Commit, Goes, TypeOK, Sessions
  <2>4. ServingHasSchema'
    BY <1>2, <2>1, <2>2 DEF Commit, Goes, TypeOK, ServingHasSchema
  <2>5. CreatesOnce' /\ InStep'
    BY <1>2, <2>2 DEF Commit, Goes, TypeOK, Sessions, CreatesOnce, Creating, InStep
  <2>6. QED
    BY <2>3, <2>4, <2>5
<1>3. QED
  BY <1>1, <1>2 DEF Commit, Migrating

(* A process that ends takes its requests and its locks with it. *)
LEMMA ExitInv ==
    ASSUME IInv, NEW p \in Apis, Exit(p), UNCHANGED <<schema, nats, requests, outages>>,
           kills' \in 0..MaxKill
    PROVE  Base'
<1> USE DEF IInv, Base
<1>1. TypeOK'
  <2>1. stage' \in [Apis -> {"down", "create", "index", "alter", "bus", "serve"}]
    BY DEF Exit, TypeOK
  <2>2. got' \in [Sessions -> 0..4]
    BY DEF Exit, TypeOK
  <2>3. request' \in [Slots -> Handlers \cup {<< >>}]
    <3>1. \A q \in Slots : request'[q] \in {request[q], << >>}
      BY DEF Exit
    <3>2. request' = [q \in Slots |-> request'[q]]
      BY DEF Exit
    <3>3. \A q \in Slots : request[q] \in Handlers \cup {<< >>}
      BY DEF TypeOK
    <3>4. QED
      BY <3>1, <3>2, <3>3, Zenon
  <2>4. by' \in [Slots -> Apis \cup {None}]
    <3>1. \A q \in Slots : by'[q] \in {by[q], None}
      BY DEF Exit
    <3>2. by' = [q \in Slots |-> by'[q]]
      BY DEF Exit
    <3>3. \A q \in Slots : by[q] \in Apis \cup {None}
      BY DEF TypeOK
    <3>4. QED
      BY <3>1, <3>2, <3>3, Zenon
  <2>5. step' \in [Slots -> 1..3]
    BY DEF Exit, TypeOK
  <2>6. bus' \in [Pods -> {"none", "nil", "up", "down"}]
    BY DEF Exit, TypeOK
  <2>7. QED
    BY <2>1, <2>2, <2>3, <2>4, <2>5, <2>6 DEF TypeOK
<1>2. \A q \in Slots :
          IF request'[q] = << >> THEN step'[q] = 1
          ELSE /\ request[q] # << >> /\ by'[q] = by[q] /\ by[q] # p
               /\ step'[q] = step[q] /\ request'[q] = request[q]
  BY DEF Exit, InStep
<1>3. \A r \in Apis : r # p => stage'[r] = stage[r] /\ got'[r] = got[r]
  BY StartupAssumption DEF Exit, TypeOK, Sessions
<1>4. stage'[p] = "down"
  BY DEF Exit, TypeOK
<1>5. ServingHasSchema'
  BY <1>2, <1>3, <1>4 DEF ServingHasSchema, InStep
<1>6. CreatesOnce'
  BY <1>3, <1>4 DEF CreatesOnce, Creating
<1>7. InStep'
  BY <1>2, <1>3, <1>4 DEF InStep
<1>8. QED
  BY <1>1, <1>5, <1>6, <1>7

LEMMA ConnectBusInv == ASSUME IInv, NEW p \in Apis, ConnectBus(p) PROVE Base'
<1> USE DEF IInv, Base, work, caps
<1>1. TypeOK'
  BY DEF ConnectBus, Goes, TypeOK, Sessions, Pods
<1>2. ServingHasSchema'
  BY DEF ConnectBus, Goes, TypeOK, ServingHasSchema
<1>3. CreatesOnce' /\ InStep'
  BY DEF ConnectBus, Goes, TypeOK, Sessions, CreatesOnce, Creating, InStep
<1>4. QED
  BY <1>1, <1>2, <1>3

LEMMA RequestInv ==
    ASSUME IInv, NEW q \in Slots, NEW h \in Handlers, NEW p \in Apis, Request(q, h, p)
    PROVE  Base'
<1> USE DEF IInv, Base, db, net
<1>1. TypeOK'
  BY StartupAssumption DEF Request, TypeOK
<1>2. ServingHasSchema'
  BY DEF Request, TypeOK, ServingHasSchema
<1>3. CreatesOnce'
  BY DEF Request, CreatesOnce, Creating
<1>4. Len(h) \in 1..3
  BY HandlerSteps
<1>5. step[q] = 1
  BY DEF Request, InStep
<1>6. InStep'
  BY <1>4, <1>5 DEF Request, TypeOK, InStep
<1>7. QED
  BY <1>1, <1>2, <1>3, <1>6

LEMMA LeaveInv ==
    ASSUME IInv, NEW q \in Slots, Leave(q)
    PROVE  Base'
<1> USE DEF IInv, Base, net, caps
<1>1. TypeOK'
  BY StartupAssumption DEF Leave, TypeOK, Sessions
<1>2. ServingHasSchema' /\ InStep'
  BY DEF Leave, TypeOK, ServingHasSchema, InStep
<1>3. CreatesOnce'
  BY StartupAssumption DEF Leave, TypeOK, CreatesOnce, Creating, Sessions
<1>4. QED
  BY <1>1, <1>2, <1>3

LEMMA NextStatementInv ==
    ASSUME IInv, NEW q \in Slots, NextStatement(q)
    PROVE  Base'
<1> USE DEF IInv, Base, net, caps
<1>1. request[q] \in Handlers
  BY DEF NextStatement, TypeOK
<1>2. step[q] \in 1..3 /\ step[q] < Len(request[q]) /\ Len(request[q]) \in 1..3
  BY <1>1, HandlerSteps DEF NextStatement, TypeOK
<1>3. step[q] + 1 \in 1..3 /\ step[q] + 1 <= Len(request[q])
  <2>1. \A i, n \in 1..3 : i < n => i + 1 \in 1..3 /\ i + 1 <= n
    OBVIOUS
  <2>2. QED
    BY <1>2, <2>1, Zenon
<1>4. TypeOK'
  <2>1. step' \in [Slots -> 1..3]
    BY <1>3 DEF NextStatement, TypeOK
  <2>2. QED
    BY <2>1 DEF NextStatement, TypeOK, Sessions
<1>5. ServingHasSchema'
  BY DEF NextStatement, ServingHasSchema
<1>6. InStep'
  BY <1>3 DEF NextStatement, TypeOK, InStep
<1>7. CreatesOnce'
  BY StartupAssumption DEF NextStatement, TypeOK, CreatesOnce, Creating, Sessions
<1>8. QED
  BY <1>4, <1>5, <1>6, <1>7

(* The connections to NATS change nothing of the rest. *)
LEMMA NetInv ==
    ASSUME IInv, UNCHANGED <<db, stage, work>>, nats' \in BOOLEAN,
           bus' \in [Pods -> {"none", "nil", "up", "down"}],
           requests' = requests, kills' = kills, outages' \in 0..MaxOutage
    PROVE  Base'
<1> USE DEF IInv, Base, db, work
<1>1. TypeOK'
  BY DEF TypeOK
<1>2. ServingHasSchema' /\ CreatesOnce' /\ InStep'
  BY DEF ServingHasSchema, CreatesOnce, Creating, InStep
<1>3. QED
  BY <1>1, <1>2

LEMMA NextBase == IInv /\ [Next]_vars => Base'
<1> SUFFICES ASSUME IInv, [Next]_vars PROVE Base'
  OBVIOUS
<1>1. ASSUME NEW p \in Apis, Start(p) PROVE Base'
  BY <1>1, StartInv
<1>2. ASSUME NEW s \in Sessions, Grant(s) PROVE Base'
  BY <1>2, GrantInv
<1>3. ASSUME NEW p \in Apis, Commit(p) PROVE Base'
  BY <1>3, CommitInv
<1>4. ASSUME NEW p \in Apis, AlreadyExists(p) PROVE Base'
  BY <1>4, ExitInv DEF AlreadyExists, caps, IInv, TypeOK
<1>5. ASSUME NEW p \in Apis, ConnectBus(p) PROVE Base'
  BY <1>5, ConnectBusInv
<1>6. ASSUME NEW p \in Apis, Kill(p) PROVE Base'
  <2>1. kills' \in 0..MaxKill
    BY <1>6, StartupAssumption DEF Kill, IInv, TypeOK
  <2>2. QED
    BY <1>6, <2>1, ExitInv DEF Kill
<1>7. ASSUME NEW q \in Slots, NextStatement(q) PROVE Base'
  BY <1>7, NextStatementInv
<1>8. ASSUME NEW q \in Slots, Answer(q) \/ Abort(q) PROVE Base'
  BY <1>8, LeaveInv DEF Answer, Abort
<1>9. ASSUME NEW q \in Slots, NEW p \in Apis, StatementLoses(q, p) PROVE Base'
  BY <1>9, LeaveInv DEF StatementLoses
<1>10. ASSUME NEW q \in Slots, NEW p \in Apis, MigrationLoses(q, p) PROVE Base'
  BY <1>10, ExitInv DEF MigrationLoses, caps, IInv, TypeOK
<1>11. ASSUME NEW q \in Slots, NEW p \in Apis, NEW h \in Handlers, Request(q, h, p) PROVE Base'
  BY <1>11, RequestInv
<1>12. ASSUME NEW p \in Pods, Reconnect(p) PROVE Base'
  BY <1>12, NetInv DEF Reconnect, caps, IInv, TypeOK
<1>13. ASSUME Outage PROVE Base'
  <2>1. outages' \in 0..MaxOutage
    BY <1>13, StartupAssumption DEF Outage, IInv, TypeOK
  <2>2. bus' \in [Pods -> {"none", "nil", "up", "down"}] /\ nats' \in BOOLEAN
    BY <1>13 DEF Outage, IInv, TypeOK
  <2>3. QED
    BY <1>13, <2>1, <2>2, NetInv DEF Outage
<1>14. ASSUME Restored \/ WorkerStart \/ WorkerRestart PROVE Base'
  <2>1. bus' \in [Pods -> {"none", "nil", "up", "down"}] /\ nats' \in BOOLEAN
    BY <1>14 DEF Restored, WorkerStart, WorkerRestart, IInv, TypeOK
  <2>2. UNCHANGED <<db, stage, work, caps>>
    BY <1>14 DEF Restored, WorkerStart, WorkerRestart
  <2>3. QED
    BY <2>1, <2>2, NetInv DEF caps, IInv, TypeOK
<1>15. ASSUME UNCHANGED vars PROVE Base'
  BY <1>15, NetInv DEF vars, net, caps, IInv, TypeOK
<1>16. QED
  BY <1>1, <1>2, <1>3, <1>4, <1>5, <1>6, <1>7, <1>8, <1>9, <1>10, <1>11, <1>12, <1>13,
     <1>14, <1>15 DEF Next, Boot, Handle, Detect, Sessions

(* A session keeps its transaction and the locks it has, or has none. *)
Keeps(s) == got'[s] = 0 \/ (got'[s] = got[s] /\ Todo(s)' = Todo(s))

LEMMA KeptLocks ==
    ASSUME LocksOK, \A s \in Sessions : Keeps(s)
    PROVE  LocksOK'
<1>1. \A s \in Sessions : Held(s)' = {} \/ Held(s)' = Held(s)
  BY DEF Keeps, Held
<1>2. QED
  BY <1>1 DEF LocksOK, Keeps

LEMMA GrantLocks ==
    ASSUME IInv, NEW s \in Sessions, Grant(s)
    PROVE  LocksOK'
<1> USE DEF IInv, work, net, caps
<1>1. /\ got[s] \in 0..4 /\ got[s] < Len(Todo(s)) /\ Len(Todo(s)) \in 0..4
      /\ got'[s] = got[s] + 1
      /\ \A t \in Sessions : t # s => got'[t] = got[t]
      /\ \A t \in Sessions : Todo(t)' = Todo(t)
  BY TodoLength DEF Grant, Wants, TypeOK, Todo
<1>2. \A t \in Sessions : t # s => Held(t)' = Held(t)
  BY <1>1 DEF Held
<1>3. Held(s)' = Held(s) \cup {Asked(s)}
  <2>1. 1..(got[s] + 1) = 1..got[s] \cup {got[s] + 1}
    BY <1>1
  <2>2. QED
    BY <1>1, <2>1 DEF Held, Asked
<1>4. \A t \in Sessions \ {s} : \A l \in Held(t) : ~ Clash(l, Asked(s)) /\ ~ Clash(Asked(s), l)
  BY DEF Grant, Blocked, Awaits, Clash
<1>5. got'[s] <= Len(Todo(s))'
  BY <1>1
<1>6. \A t \in Sessions : got'[t] = 0 \/ got'[t] <= Len(Todo(t))'
  BY <1>1, <1>5 DEF LocksOK
<1>7. ASSUME NEW t \in Sessions, NEW u \in Sessions, t # u,
             NEW k \in Held(t)', NEW l \in Held(u)'
      PROVE  ~ Clash(k, l)
  BY <1>2, <1>3, <1>4, <1>7 DEF LocksOK
<1>8. QED
  BY <1>6, <1>7 DEF LocksOK, Clash

LEMMA ExitKeeps ==
    ASSUME TypeOK, NEW p \in Apis, Exit(p), NEW s \in Sessions
    PROVE  Keeps(s)
<1>1. CASE s \in Slots /\ by[s] # p
  BY <1>1, StartupAssumption DEF Exit, Keeps, Todo
<1>2. CASE s = p \/ (s \in Slots /\ by[s] = p)
  BY <1>2 DEF Exit, Keeps
<1>3. CASE s \in Apis /\ s # p
  BY <1>3, StartupAssumption DEF Exit, Keeps, Todo, TypeOK
<1>4. QED
  BY <1>1, <1>2, <1>3 DEF Sessions

LEMMA LeaveKeeps ==
    ASSUME TypeOK, NEW q \in Slots, Leave(q), NEW s \in Sessions
    PROVE  Keeps(s)
BY StartupAssumption DEF Leave, Keeps, Todo, TypeOK, Sessions, net, caps

LEMMA NextLocks == IInv /\ [Next]_vars => LocksOK'
<1> SUFFICES ASSUME IInv, [Next]_vars PROVE LocksOK'
  OBVIOUS
<1> USE DEF IInv
<1>1. ASSUME NEW s \in Sessions, Grant(s) PROVE LocksOK'
  BY <1>1, GrantLocks
<1>2. ASSUME NEW p \in Apis, Start(p) \/ Commit(p) \/ ConnectBus(p) PROVE LocksOK'
  <2>1. \A s \in Sessions : Keeps(s)
    BY <1>2, StartupAssumption
       DEF Start, Commit, ConnectBus, Goes, Keeps, Todo, TypeOK, Sessions, work
  <2>2. QED
    BY <2>1, KeptLocks
<1>3. ASSUME NEW p \in Apis, Exit(p) PROVE LocksOK'
  BY <1>3, ExitKeeps, KeptLocks
<1>4. ASSUME NEW q \in Slots, Leave(q) PROVE LocksOK'
  BY <1>4, LeaveKeeps, KeptLocks
<1>5. ASSUME NEW q \in Slots, NextStatement(q) PROVE LocksOK'
  <2>1. \A s \in Sessions : Keeps(s)
    BY <1>5, StartupAssumption DEF NextStatement, Keeps, Todo, TypeOK, Sessions
  <2>2. QED
    BY <2>1, KeptLocks
<1>6. ASSUME NEW q \in Slots, NEW p \in Apis, NEW h \in Handlers, Request(q, h, p)
      PROVE  LocksOK'
  <2>1. got[q] = 0
    <3>1. Todo(q) = << >> /\ Len(<< >>) = 0 /\ got[q] \in 0..4
      BY <1>6 DEF Request, Todo, TypeOK, Sessions
    <3>2. QED
      BY <3>1 DEF LocksOK, Sessions
  <2>2. \A s \in Sessions : Keeps(s)
    BY <1>6, <2>1, StartupAssumption DEF Request, Keeps, Todo, TypeOK, Sessions, db
  <2>3. QED
    BY <2>2, KeptLocks
<1>7. CASE UNCHANGED <<got, stage, request, step>>
  <2>1. \A s \in Sessions : Keeps(s)
    BY <1>7 DEF Keeps, Todo
  <2>2. QED
    BY <2>1, KeptLocks
<1>8. QED
  BY <1>1, <1>2, <1>3, <1>4, <1>5, <1>6, <1>7
     DEF Next, Boot, Handle, Detect, Sessions, AlreadyExists, Kill, Answer, Abort,
         StatementLoses, MigrationLoses, Reconnect, Outage, Restored, WorkerStart,
         WorkerRestart, vars, db, work

(* What the startup of the pods keeps, with what its proof needs: only one  *)
(* creates the tables, and nobody is ahead of what is committed.            *)
THEOREM StartupInvariance == Spec => []IInv
<1>1. Init => IInv
  BY InitInv
<1>2. IInv /\ [Next]_vars => IInv'
  BY NextBase, NextLocks DEF IInv, Base
<1>3. QED
  BY <1>1, <1>2, PTL DEF Spec

(* Every variable has its type in every state of main.go, store.go and the  *)
(* handlers, at any number of pods and requests.                            *)
THEOREM StartupTypes == Spec => []TypeOK
BY StartupInvariance, PTL DEF IInv

(* Whatever the number of replicas that migrate at once (store.go:146), and *)
(* whoever is killed, no api listens before the schema is whole.            *)
THEOREM NobodyServesTooEarly == Spec => []ServingHasSchema
BY StartupInvariance, PTL DEF IInv

(* A statement t with i of its locks and a migration m with j of its own    *)
(* block each other.                                                        *)
BlockEachOther(t, i, m, j) ==
    /\ \E k \in 1..j : Clash(m[k], t[i + 1])
    /\ \E k \in 1..i : Clash(t[k], m[j + 1])

(* Which tables a statement asks for when it already holds another. *)
LEMMA SecondLocks ==
    ASSUME NEW t \in Statement \ {UserColumns, Like}, NEW i \in 1..3, i < Len(t)
    PROVE  /\ t[i + 1].table # "posts"
           /\ t[i + 1].mode = "write" => t = DeletePost
BY DEF Statement, UserByID, CreateUser, UserColumns, PostColumns, Timeline, CreatePost,
   DeletePost, Like, Unlike, Follow, Unfollow, Lock

LEMMA OnlyTwoStatements ==
    ASSUME NEW t \in Statement, NEW i \in Nat, i < Len(t),
           NEW m \in {Creates, Indexes, Alters}, NEW j \in Nat, j < Len(m),
           BlockEachOther(t, i, m, j)
    PROVE  t \in {UserColumns, Like}
<1> SUFFICES ASSUME t \notin {UserColumns, Like} PROVE FALSE
  OBVIOUS
<1>1. i \in 1..3 /\ j >= 1
  <2>1. Len(t) \in 1..4
    BY StatementLength
  <2>2. QED
    BY <2>1 DEF BlockEachOther
<1>2. t[i + 1].table # "posts" /\ (t[i + 1].mode = "write" => t = DeletePost)
  BY <1>1, SecondLocks
<1>3. CASE m = Creates
  BY <1>1, <1>3 DEF Creates
<1>4. CASE m = Indexes
  <2>1. j = 1 /\ m[1] = Lock("posts", "share")
    BY <1>1, <1>4 DEF Indexes
  <2>2. QED
    BY <1>2, <2>1 DEF BlockEachOther, Clash, Lock
<1>5. CASE m = Alters
  <2>1. j \in 1..2 /\ m[1] = Lock("posts", "exclusive") /\ m[2] = Lock("likes", "share")
    BY <1>1, <1>5 DEF Alters
  <2>2. j = 2 /\ Clash(Lock("likes", "share"), t[i + 1])
    BY <1>2, <2>1 DEF BlockEachOther, Clash, Lock
  <2>3. t = DeletePost /\ i = 1
    <3>1. t[i + 1].mode \in {"read", "write"}
      <4>1. i + 1 \in 1..Len(t)
        BY <1>1
      <4>2. \A k \in 1..Len(t) : t[k].mode \in {"read", "write"}
        BY DEF Statement, UserByID, CreateUser, UserColumns, PostColumns, Timeline,
           CreatePost, DeletePost, Like, Unlike, Follow, Unfollow, Lock
      <4>3. QED
        BY <4>1, <4>2
    <3>2. t = DeletePost
      BY <1>2, <2>2, <3>1 DEF Clash, Lock
    <3>3. Len(t) = 2
      BY <3>2 DEF DeletePost
    <3>4. QED
      BY <1>1, <3>2, <3>3
  <2>4. Clash(DeletePost[1], Alters[3])
    BY <1>5, <2>2, <2>3 DEF BlockEachOther
  <2>5. QED
    BY <2>4 DEF Clash, DeletePost, Alters, Lock
<1>6. QED
  BY <1>3, <1>4, <1>5

(* What a handler has committed before such a statement. *)
LEMMA WrittenBefore ==
    ASSUME NEW h \in Handlers, NEW n \in 1..Len(h), h[n] \in {UserColumns, Like},
           NEW i \in 1..(n - 1), Writes(h[i])
    PROVE  h = updateProfile
<1>1. \A t \in {UserByID, UserColumns, PostColumns} : ~ Writes(t)
  BY DEF Writes, UserByID, UserColumns, PostColumns, Lock
<1>2. UserByName = UserByID
  BY DEF UserByName, UserByID
<1>3. /\ PostColumns \notin {UserColumns, Like} /\ CreatePost \notin {UserColumns, Like}
      /\ DeletePost \notin {UserColumns, Like} /\ Timeline \notin {UserColumns, Like}
      /\ Follow \notin {UserColumns, Like} /\ Unfollow \notin {UserColumns, Like}
      /\ Unlike \notin {UserColumns, Like} /\ UserByID \notin {UserColumns, Like}
      /\ CreateUser \notin {UserColumns, Like}
  BY DEF UserByID, CreateUser, UserColumns, PostColumns, Timeline, CreatePost, DeletePost,
     Like, Unlike, Follow, Unfollow, Lock
<1>4. CASE h = signup
  BY <1>1, <1>2, <1>3, <1>4 DEF signup
<1>5. CASE h = login
  BY <1>1, <1>2, <1>3, <1>5 DEF login
<1>6. CASE h = timeline
  BY <1>1, <1>2, <1>3, <1>6 DEF timeline
<1>7. CASE h = thread
  BY <1>1, <1>2, <1>3, <1>7 DEF thread, PostByID, Replies
<1>8. CASE h = createPost
  BY <1>1, <1>2, <1>3, <1>8 DEF createPost
<1>9. CASE h = reply
  BY <1>1, <1>2, <1>3, <1>9 DEF reply, PostByID
<1>10. CASE h = deletePost
  BY <1>1, <1>2, <1>3, <1>10 DEF deletePost
<1>11. CASE h = like
  BY <1>1, <1>2, <1>3, <1>11 DEF like, PostByID
<1>12. CASE h = unlike
  BY <1>1, <1>2, <1>3, <1>12 DEF unlike, PostByID
<1>13. CASE h = follow
  BY <1>1, <1>2, <1>3, <1>13 DEF follow
<1>14. CASE h = unfollow
  BY <1>1, <1>2, <1>3, <1>14 DEF unfollow
<1>15. CASE h = me
  BY <1>1, <1>2, <1>3, <1>15 DEF me, Me
<1>16. CASE h = listUsers
  BY <1>1, <1>2, <1>3, <1>16 DEF listUsers, ListUsers
<1>17. CASE h = profile
  BY <1>1, <1>2, <1>3, <1>17 DEF profile, Profile, UserPosts
<1>18. QED
  BY <1>4, <1>5, <1>6, <1>7, <1>8, <1>9, <1>10, <1>11, <1>12,
     <1>13, <1>14, <1>15, <1>16, <1>17 DEF Handlers

LEMMA ApiMigrates ==
    ASSUME TypeOK, NEW p \in Apis, Wants(p)
    PROVE  Todo(p) \in {Creates, Indexes, Alters}
<1>1. Len(<< >>) = 0 /\ got[p] \in 0..4
  BY DEF TypeOK, Sessions
<1>2. Todo(p) # << >>
  BY <1>1 DEF Wants
<1>3. QED
  BY <1>2, ApiTodo

LEMMA FeedSurvives == IInv => FeedSurvivesMigration
<1> SUFFICES ASSUME IInv, NEW q \in Slots, NEW p \in Apis, Deadlocked(q, p)
             PROVE  /\ Todo(q) \in {UserColumns, Like}
                    /\ (\E i \in 1..(step[q] - 1) : Writes(request[q][i])) =>
                          request[q] = updateProfile
  BY DEF FeedSurvivesMigration
<1>1. Wants(q) /\ Wants(p)
  BY DEF Deadlocked, Awaits
<1>2. request[q] # << >>
  <2>1. Len(<< >>) = 0 /\ got[q] \in 0..4
    BY DEF IInv, TypeOK, Sessions
  <2>2. QED
    BY <1>1, <2>1 DEF Wants, Todo
<1>3. /\ Todo(q) \in Statement /\ Todo(q) = request[q][step[q]]
      /\ step[q] \in 1..Len(request[q]) /\ request[q] \in Handlers
  BY <1>2, SlotTodo DEF IInv, TypeOK
<1>4. Todo(p) \in {Creates, Indexes, Alters}
  BY <1>1, ApiMigrates DEF IInv
<1>5. got[q] \in Nat /\ got[q] < Len(Todo(q)) /\ got[p] \in Nat /\ got[p] < Len(Todo(p))
  BY <1>1 DEF IInv, TypeOK, Sessions, Wants
<1>6. BlockEachOther(Todo(q), got[q], Todo(p), got[p])
  BY DEF Deadlocked, Awaits, Held, Asked, BlockEachOther
<1>7. Todo(q) \in {UserColumns, Like}
  BY <1>3, <1>4, <1>5, <1>6, OnlyTwoStatements
<1>8. QED
  BY <1>3, <1>7, WrittenBefore

(* 002_social.sql:2 "re-running against an existing database is safe", as   *)
(* far as it goes: a migration that runs again under traffic can end only   *)
(* profile reads and likes, whatever number of apis and requests there are. *)
THEOREM MigrationsSpareTheFeed == Spec => []FeedSurvivesMigration
BY StartupInvariance, FeedSurvives, PTL
(* Who holds and asks for what, for the chains of waits.                    *)
LEMMA StatementLocks ==
    ASSUME NEW t \in Statement, NEW i \in 1..Len(t)
    PROVE  /\ t[i].mode \in {"read", "write"}
           /\ t[i].table \in {"users", "posts", "likes", "follows"}
BY DEF Statement, UserByID, CreateUser, UserColumns, PostColumns, Timeline, CreatePost,
   DeletePost, Like, Unlike, Follow, Unfollow, Lock

(* No statement writes a second table that an index is made on.             *)
LEMMA SecondWrites ==
    ASSUME NEW t \in Statement, NEW i \in 1..3, i < Len(t)
    PROVE  t[i + 1].mode = "write" => t[i + 1].table = "likes"
BY DEF Statement, UserByID, CreateUser, UserColumns, PostColumns, Timeline, CreatePost,
   DeletePost, Like, Unlike, Follow, Unfollow, Lock

Active(s) == got[s] \in 1..Len(Todo(s))

LEMMA Counts ==
    ASSUME IInv, NEW s \in Sessions
    PROVE  /\ got[s] \in 0..4 /\ Len(Todo(s)) \in 0..4
           /\ Active(s) <=> got[s] # 0
<1>1. got[s] \in 0..4
  BY DEF IInv, TypeOK
<1>2. Len(Todo(s)) \in 0..4
  BY TodoLength DEF IInv
<1>3. got[s] = 0 \/ got[s] <= Len(Todo(s))
  BY DEF IInv, LocksOK
<1>4. QED
  BY <1>1, <1>2, <1>3 DEF Active

LEMMA Waiter ==
    ASSUME IInv, NEW s \in Sessions, NEW t \in Sessions, Awaits(s, t)
    PROVE  /\ s # t /\ Active(t) /\ Wants(s)
           /\ \E k \in Held(t) : Clash(k, Asked(s))
<1>1. s # t /\ Wants(s) /\ \E k \in Held(t) : Clash(k, Asked(s))
  BY DEF Awaits
<1>2. got[t] \in 0..4
  BY DEF IInv, TypeOK
<1>3. got[t] # 0
  <2>1. PICK i \in 1..got[t] : Clash(Todo(t)[i], Asked(s))
    BY <1>1 DEF Held
  <2>2. QED
    BY <1>2, <2>1
<1>4. QED
  BY <1>1, <1>3, Counts

LEMMA SlotBusy ==
    ASSUME IInv, NEW q \in Slots, Wants(q) \/ Active(q)
    PROVE  Todo(q) \in Statement
<1>1. q \in Sessions
  BY DEF Sessions
<1>2. Len(Todo(q)) # 0
  BY <1>1, Counts DEF Wants, Active
<1>3. Todo(q) # << >>
  <2>1. Len(<< >>) = 0
    OBVIOUS
  <2>2. QED
    BY <1>2, <2>1
<1>4. request[q] # << >>
  BY <1>3 DEF Todo
<1>5. QED
  BY <1>4, SlotTodo DEF IInv

LEMMA SlotAsks ==
    ASSUME IInv, NEW q \in Slots, Wants(q)
    PROVE  /\ Asked(q).mode \in {"read", "write"}
           /\ Asked(q).table \in {"users", "posts", "likes", "follows"}
           /\ Active(q) /\ Asked(q).mode = "write" => Asked(q).table = "likes"
<1>1. q \in Sessions /\ Todo(q) \in Statement
  BY SlotBusy DEF Sessions
<1>2. got[q] \in 0..4 /\ Len(Todo(q)) \in 0..4 /\ got[q] < Len(Todo(q))
  BY <1>1, Counts DEF Wants
<1>3. /\ Asked(q).mode \in {"read", "write"}
      /\ Asked(q).table \in {"users", "posts", "likes", "follows"}
  <2>1. got[q] + 1 \in 1..Len(Todo(q))
    BY <1>2
  <2>2. QED
    BY <1>1, <2>1, StatementLocks DEF Asked
<1>4. ASSUME Active(q)
      PROVE  Asked(q).mode = "write" => Asked(q).table = "likes"
  <2>1. got[q] # 0
    BY <1>1, <1>4, Counts
  <2>2. got[q] \in 1..3
    <3>1. \A n, m \in 0..4 : n < m /\ n # 0 => n \in 1..3
      OBVIOUS
    <3>2. QED
      BY <1>2, <2>1, <3>1
  <2>3. QED
    BY <1>1, <1>2, <2>2, SecondWrites DEF Asked
<1>5. QED
  BY <1>3, <1>4

LEMMA SlotHolds ==
    ASSUME IInv, NEW q \in Slots, Active(q)
    PROVE  \A k \in Held(q) : /\ k.mode \in {"read", "write"}
                              /\ k.table \in {"users", "posts", "likes", "follows"}
<1>1. q \in Sessions /\ Todo(q) \in Statement
  BY SlotBusy DEF Sessions
<1>2. got[q] \in 0..4 /\ Len(Todo(q)) \in 0..4 /\ got[q] <= Len(Todo(q))
  BY <1>1, Counts DEF Active
<1>3. SUFFICES ASSUME NEW i \in 1..got[q]
               PROVE  /\ Todo(q)[i].mode \in {"read", "write"}
                      /\ Todo(q)[i].table \in {"users", "posts", "likes", "follows"}
  BY DEF Held
<1>4. i \in 1..Len(Todo(q))
  BY <1>2
<1>5. QED
  BY <1>1, <1>4, StatementLocks

(* Statements read and write, and clash with migrations only.               *)
LEMMA SlotsAwaitApis ==
    ASSUME IInv, NEW q \in Slots, NEW s \in Sessions, Awaits(q, s)
    PROVE  s \in Apis
<1> SUFFICES ASSUME s \in Slots PROVE FALSE
  BY DEF Sessions
<1>1. q \in Sessions
  BY DEF Sessions
<1>2. Wants(q) /\ Active(s) /\ \E k \in Held(s) : Clash(k, Asked(q))
  BY <1>1, Waiter
<1>3. PICK k \in Held(s) : Clash(k, Asked(q))
  BY <1>2
<1>4. Asked(q).mode \in {"read", "write"}
  BY <1>2, SlotAsks
<1>5. k.mode \in {"read", "write"}
  BY <1>2, SlotHolds
<1>6. QED
  BY <1>3, <1>4, <1>5 DEF Clash

(* Where a migration is that others wait for, and where if it waits itself. *)
CreateLocks(p) == ~ Wants(p) /\ \A k \in Held(p) : k.table = "pg_class"

IndexLocks(p) ==
    /\ Lock("posts", "share") \in Held(p)
    /\ \A k \in Held(p) : k.mode = "share"
    /\ Wants(p) => Held(p) = {Lock("posts", "share")} /\ Asked(p) = Lock("follows", "share")

AlterLocks(p) ==
    /\ Lock("posts", "exclusive") \in Held(p)
    /\ Wants(p) => Asked(p) \in {Lock("likes", "share"), Lock("users", "exclusive")}

LEMMA AwaitedApi ==
    ASSUME IInv, NEW p \in Apis, Active(p)
    PROVE  \/ Todo(p) = Creates /\ CreateLocks(p)
           \/ Todo(p) = Indexes /\ IndexLocks(p)
           \/ Todo(p) = Alters  /\ AlterLocks(p)
<1> USE DEF Active
<1>1. Todo(p) # << >>
  <2>1. Len(<< >>) = 0
    OBVIOUS
  <2>2. QED
    BY <2>1
<1>2. Todo(p) \in {Creates, Indexes, Alters}
  BY <1>1, ApiTodo DEF IInv
<1>3. CASE Todo(p) = Creates
  <2>1. got[p] = 1
    BY <1>3 DEF Creates
  <2>2. QED
    BY <1>3, <2>1 DEF CreateLocks, Wants, Held, Creates, Lock
<1>4. CASE Todo(p) = Indexes
  <2>1. got[p] \in {1, 2} /\ Len(Todo(p)) = 2
    BY <1>4 DEF Indexes
  <2>2. Todo(p)[1] = Lock("posts", "share") /\ Todo(p)[2] = Lock("follows", "share")
    BY <1>4 DEF Indexes
  <2>3. QED
    BY <1>4, <2>1, <2>2 DEF IndexLocks, Wants, Held, Asked, Lock
<1>5. CASE Todo(p) = Alters
  <2>1. got[p] \in {1, 2, 3} /\ Len(Todo(p)) = 3
    BY <1>5 DEF Alters
  <2>2. /\ Todo(p)[1] = Lock("posts", "exclusive") /\ Todo(p)[2] = Lock("likes", "share")
        /\ Todo(p)[3] = Lock("users", "exclusive")
    BY <1>5 DEF Alters
  <2>3. QED
    BY <1>5, <2>1, <2>2 DEF AlterLocks, Wants, Held, Asked
<1>6. QED
  BY <1>2, <1>3, <1>4, <1>5

LEMMA Files ==
    Creates # Indexes /\ Creates # Alters /\ Indexes # Alters
BY DEF Creates, Indexes, Alters, Lock

(* 002 excludes all other migrations once it has its first lock.            *)
LEMMA AltersAlone ==
    ASSUME IInv, NEW p \in Apis, NEW r \in Apis, p # r, Active(p), Active(r),
           Todo(p) = Alters
    PROVE  Todo(r) = Creates
<1>1. Lock("posts", "exclusive") \in Held(p)
  BY AwaitedApi, Files DEF AlterLocks
<1>2. \A k \in Held(r) : ~ Clash(Lock("posts", "exclusive"), k)
  BY <1>1 DEF IInv, LocksOK, Sessions
<1>3. /\ Clash(Lock("posts", "exclusive"), Lock("posts", "exclusive"))
      /\ Clash(Lock("posts", "exclusive"), Lock("posts", "share"))
  BY DEF Clash, Lock
<1>4. /\ Lock("posts", "exclusive") \notin Held(r)
      /\ Lock("posts", "share") \notin Held(r)
  BY <1>2, <1>3
<1>5. QED
  BY <1>4, AwaitedApi DEF IndexLocks, AlterLocks

(* So a migration that waits for another one holds nothing up.              *)
LEMMA WaitingApiHasNothing ==
    ASSUME IInv, NEW p \in Apis, NEW r \in Apis, Awaits(p, r)
    PROVE  got[p] = 0
<1> SUFFICES ASSUME got[p] # 0 PROVE FALSE
  OBVIOUS
<1>1. p \in Sessions /\ r \in Sessions
  BY DEF Sessions
<1>2. /\ p # r /\ Active(r) /\ Wants(p)
      /\ \E k \in Held(r) : Clash(k, Asked(p))
  BY <1>1, Waiter
<1>3. Active(p)
  BY <1>1, Counts
<1>4. PICK k \in Held(r) : Clash(k, Asked(p))
  BY <1>2
<1>5. CASE Todo(p) = Alters
  <2>1. Todo(r) = Creates
    BY <1>2, <1>3, <1>5, AltersAlone
  <2>2. k.table = "pg_class"
    BY <1>2, <2>1, AwaitedApi, Files DEF CreateLocks
  <2>3. Asked(p) \in {Lock("likes", "share"), Lock("users", "exclusive")}
    BY <1>2, <1>3, <1>5, AwaitedApi, Files DEF AlterLocks
  <2>4. Asked(p).table # "pg_class"
    BY <2>3 DEF Lock
  <2>5. QED
    BY <1>4, <2>2, <2>4 DEF Clash
<1>6. CASE Todo(p) = Indexes
  <2>1. Asked(p) = Lock("follows", "share")
    BY <1>2, <1>3, <1>6, AwaitedApi, Files DEF IndexLocks
  <2>2. Todo(r) # Alters
    BY <1>2, <1>3, <1>6, Files, AltersAlone
  <2>3. k.table = "pg_class" \/ k.mode = "share"
    BY <1>2, <2>2, AwaitedApi DEF CreateLocks, IndexLocks
  <2>4. QED
    BY <1>4, <2>1, <2>3 DEF Clash, Lock
<1>7. Todo(p) \in {Indexes, Alters}
  BY <1>2, <1>3, AwaitedApi DEF CreateLocks
<1>8. QED
  BY <1>5, <1>6, <1>7

(* Who waits and is waited for is a migration that waits for a statement,   *)
(* or the other way round.                                                  *)
LEMMA Between ==
    ASSUME IInv, NEW a \in Sessions, NEW b \in Sessions, NEW c \in Sessions,
           Awaits(a, b), Awaits(b, c)
    PROVE  (b \in Slots /\ c \in Apis) \/ (b \in Apis /\ c \in Slots)
<1>1. CASE b \in Slots
  BY <1>1, SlotsAwaitApis
<1>2. CASE b \in Apis
  <2>1. got[b] # 0
    BY Waiter, Counts
  <2>2. c \notin Apis
    BY <1>2, <2>1, WaitingApiHasNothing
  <2>3. QED
    BY <1>2, <2>2 DEF Sessions
<1>3. QED
  BY <1>1, <1>2 DEF Sessions

LEMMA Pairs == IInv => DeadlocksArePairs
BY Between DEF DeadlocksArePairs

(* A statement that waits for one migration keeps no other one waiting.     *)
LEMMA OneMigrationEach ==
    ASSUME IInv, NEW b \in Apis, NEW c \in Slots, NEW d \in Apis,
           Awaits(b, c), Awaits(c, d), Active(b)
    PROVE  b = d
<1> SUFFICES ASSUME b # d PROVE FALSE
  OBVIOUS
<1>1. b \in Sessions /\ c \in Sessions /\ d \in Sessions
  BY DEF Sessions
<1>2. Wants(b) /\ Wants(c) /\ Active(c) /\ Active(d)
  BY <1>1, Waiter
<1>3. PICK l \in Held(d) : Clash(l, Asked(c))
  BY <1>1, Waiter
<1>4. /\ Asked(c).mode \in {"read", "write"} /\ Asked(c).table # "pg_class"
      /\ Asked(c).mode = "write" => Asked(c).table = "likes"
  BY <1>2, SlotAsks
<1>5. Todo(b) # Creates
  BY <1>2, AwaitedApi, Files DEF CreateLocks
<1>6. Todo(d) # Creates
  <2>1. ASSUME Todo(d) = Creates PROVE FALSE
    <3>1. l.table = "pg_class"
      BY <1>2, <2>1, AwaitedApi, Files DEF CreateLocks
    <3>2. QED
      BY <1>3, <1>4, <3>1 DEF Clash
  <2>2. QED
    BY <2>1
<1>7. Todo(d) # Alters
  BY <1>2, <1>5, AltersAlone
<1>8. Todo(d) = Indexes
  BY <1>2, <1>6, <1>7, AwaitedApi
<1>9. l \in {Lock("posts", "share"), Lock("follows", "share")}
  <2>1. PICK i \in 1..got[d] : l = Indexes[i]
    BY <1>8 DEF Held
  <2>2. got[d] \in 1..2
    BY <1>2, <1>8 DEF Active, Indexes
  <2>3. i \in {1, 2}
    BY <2>1, <2>2
  <2>4. QED
    BY <2>1, <2>3 DEF Indexes
<1>10. QED
  BY <1>3, <1>4, <1>9 DEF Clash, Lock

(* A migration that waits for a statement, and keeps another one waiting    *)
(* that holds up a third: then the first and the last are the same.         *)
LEMMA NoThirdMigration ==
    ASSUME IInv, NEW a \in Apis, NEW b \in Slots, NEW c \in Apis, NEW d \in Slots,
           Awaits(a, b), Awaits(b, c), Awaits(c, d)
    PROVE  a = c
<1> SUFFICES ASSUME a # c PROVE FALSE
  OBVIOUS
<1>1. a \in Sessions /\ b \in Sessions /\ c \in Sessions /\ d \in Sessions
  BY DEF Sessions
<1>2. Wants(a) /\ Wants(b) /\ Wants(c) /\ Active(b) /\ Active(c)
  BY <1>1, Waiter
<1>3. PICK l \in Held(c) : Clash(l, Asked(b))
  BY <1>1, Waiter
<1>4. PICK k \in Held(b) : Clash(k, Asked(a))
  BY <1>1, Waiter
<1>5. CASE Todo(c) = Indexes
  <2>1. l = Lock("posts", "share")
    BY <1>2, <1>3, <1>5, AwaitedApi, Files DEF IndexLocks
  <2>2. Asked(b).table = "posts" /\ Asked(b).mode # "read"
    BY <1>3, <2>1 DEF Clash, Lock
  <2>3. QED
    BY <1>2, <2>2, SlotAsks
<1>6. CASE Todo(c) = Alters
  <2>1. Lock("posts", "exclusive") \in Held(c)
    BY <1>2, <1>6, AwaitedApi, Files DEF AlterLocks
  <2>2. k.table # "posts"
    <3>1. b # c
      BY <1>1, Waiter
    <3>2. ~ Clash(k, Lock("posts", "exclusive"))
      BY <1>1, <2>1, <3>1 DEF IInv, LocksOK
    <3>3. QED
      BY <3>2 DEF Clash, Lock
  <2>3. k.table # "pg_class"
    BY <1>2, SlotHolds
  <2>4. got[a] # 0
    <3>1. ASSUME got[a] = 0 PROVE FALSE
      <4>1. Todo(a) \in {Creates, Indexes, Alters} /\ Asked(a) = Todo(a)[1]
        BY <1>2, <3>1, ApiMigrates DEF IInv, Asked
      <4>2. Asked(a).table \in {"pg_class", "posts"}
        BY <4>1 DEF Creates, Indexes, Alters, Lock
      <4>3. QED
        BY <1>4, <2>2, <2>3, <4>2 DEF Clash
    <3>2. QED
      BY <3>1
  <2>5. Active(a)
    BY <1>1, <2>4, Counts
  <2>6. Todo(a) = Creates
    BY <1>2, <1>6, <2>5, AltersAlone
  <2>7. QED
    BY <1>2, <2>5, <2>6, AwaitedApi, Files DEF CreateLocks
<1>7. Todo(c) \in {Indexes, Alters}
  BY <1>2, AwaitedApi DEF CreateLocks
<1>8. QED
  BY <1>5, <1>6, <1>7

(* Of waits for locks that are held, the third in a row turns back on one   *)
(* of the first two.                                                        *)
LEMMA ShortWaits ==
    ASSUME IInv, NEW a \in Sessions, NEW b \in Sessions, NEW c \in Sessions,
           NEW d \in Sessions, Awaits(a, b), Awaits(b, c), Awaits(c, d)
    PROVE  a = c \/ b = d
<1>1. CASE b \in Apis /\ c \in Slots
  <2>1. d \in Apis
    BY <1>1, SlotsAwaitApis
  <2>2. Active(b)
    BY Waiter
  <2>3. QED
    BY <1>1, <2>1, <2>2, OneMigrationEach
<1>2. CASE b \in Slots /\ c \in Apis
  <2>1. d \in Slots
    BY <1>2, Between, StartupAssumption
  <2>2. a \in Apis
    BY <1>2, SlotsAwaitApis, StartupAssumption DEF Sessions
  <2>3. QED
    BY <1>2, <2>1, <2>2, NoThirdMigration
<1>3. QED
  BY <1>1, <1>2, Between

LEMMA Unstuck == IInv => NobodyStuck
<1> SUFFICES ASSUME IInv, NEW a \in Sessions, Blocked(a),
                    \A s \in Sessions : got[s] # 0 => Blocked(s)
             PROVE  \E q \in Slots, p \in Apis : Deadlocked(q, p)
  BY DEF NobodyStuck
<1>1. ASSUME NEW s \in Sessions, NEW t \in Sessions, Awaits(s, t)
      PROVE  \E u \in Sessions : Awaits(t, u)
  <2>1. got[t] # 0
    BY <1>1, Waiter, Counts
  <2>2. QED
    BY <2>1 DEF Blocked
<1>2. PICK b \in Sessions : Awaits(a, b)
  BY DEF Blocked
<1>3. PICK c \in Sessions : Awaits(b, c)
  BY <1>1, <1>2
<1>4. PICK d \in Sessions : Awaits(c, d)
  BY <1>1, <1>3
<1>5. a = c \/ b = d
  BY <1>2, <1>3, <1>4, ShortWaits
<1>6. \E s, t \in Sessions : Awaits(s, t) /\ Awaits(t, s)
  BY <1>2, <1>3, <1>4, <1>5
<1>7. QED
  BY <1>6, Between DEF Deadlocked

(* Two migrations never deadlock with each other, however many replicas     *)
(* start at once (store.go:160): only a statement and a migration do, which *)
(* is the pair the detector of this module looks for.                       *)
THEOREM MigrationsNeverDeadlock == Spec => []DeadlocksArePairs
BY StartupInvariance, Pairs, PTL

(* The locks that are held never keep everybody waiting without a deadlock  *)
(* that Postgres can find: the safety part of PodsServe and RequestsEnd,    *)
(* whose rest is fairness.                                                  *)
THEOREM SomebodyGoesOn == Spec => []NobodyStuck
BY StartupInvariance, Unstuck, PTL
-----------------------------------------------------------------------------
(* The refinement of Migration.                                             *)
Up   == {p \in Apis : stage[p] = "serve"}
Busy == {by[q] : q \in AtWork}

LEMMA Idle ==
    ASSUME schema' = schema, Up' = Up, Busy' = Busy
    PROVE  UNCHANGED OneByOne!vars
BY DEF Up, Busy, OneByOne!vars

LEMMA SameBusy == UNCHANGED <<request, by>> => Busy' = Busy
BY DEF Busy, AtWork

LEMMA SameUp ==
    ASSUME TypeOK, NEW p \in Apis, stage[p] # "serve", NEW to, to # "serve",
           stage' = [stage EXCEPT ![p] = to]
    PROVE  Up' = Up
BY DEF Up, TypeOK

(* Until the COMMIT nothing is there, and 001 is never the last to commit.  *)
LEMMA CommitApplies ==
    ASSUME IInv, NEW p \in Apis, Commit(p)
    PROVE  OneByOne!Next \/ UNCHANGED OneByOne!vars
<1>1. Up' = Up
  BY SameUp DEF Commit, Migrating, Goes, IInv
<1>2. Busy' = Busy
  BY SameBusy DEF Commit, work
<1>3. schema' = schema \/ (schema \in {0, 1} /\ schema' = schema + 1)
  <2>1. CASE stage[p] = "create"
    <3>1. Len(Todo(p)) = 1 /\ got[p] \in 0..4
      BY <2>1, ApiTodo DEF IInv, Creates, TypeOK, Sessions
    <3>2. got[p] # 0 /\ schema' = 1
      BY <2>1, <3>1 DEF Commit, Wants
    <3>3. schema = 0
      BY <2>1, <3>2 DEF IInv, CreatesOnce, Creating
    <3>4. QED
      BY <3>2, <3>3
  <2>2. CASE stage[p] = "index"
    BY <2>2 DEF Commit
  <2>3. CASE stage[p] = "alter"
    <3>1. schema' = 2 /\ schema \in {1, 2}
      BY <2>3 DEF Commit, IInv, InStep, TypeOK
    <3>2. QED
      BY <3>1
  <2>4. QED
    BY <2>1, <2>2, <2>3 DEF Commit, Migrating
<1>4. CASE schema' = schema
  BY <1>1, <1>2, <1>4, Idle
<1>5. CASE schema \in {0, 1} /\ schema' = schema + 1
  <2>1. OneByOne!Apply
    BY <1>1, <1>2, <1>5 DEF OneByOne!Apply, OneByOne!Files, Up, Busy
  <2>2. QED
    BY <2>1 DEF OneByOne!Next
<1>6. QED
  BY <1>3, <1>4, <1>5

(* A request at work is at a pod that serves: the end of another one, or of *)
(* one that is busy, is that pod's alone.                                   *)
LEMMA ExitLeaves ==
    ASSUME IInv, NEW p \in Apis, Exit(p), schema' = schema
    PROVE  OneByOne!Next
<1>1. Up' = Up \ {p}
  BY DEF Exit, Up, IInv, TypeOK
<1>2. AtWork' = {q \in AtWork : by[q] # p}
  BY DEF Exit, AtWork
<1>3. \A q \in AtWork' : by'[q] = by[q]
  BY <1>2 DEF Exit, AtWork
<1>4. Busy' = Busy \ {p}
  BY <1>2, <1>3 DEF Busy
<1>5. OneByOne!Leave(p)
  BY <1>1, <1>4 DEF OneByOne!Leave, Up, Busy
<1>6. QED
  BY <1>5 DEF OneByOne!Next

LEMMA RequestWorks ==
    ASSUME IInv, NEW q \in Slots, NEW h \in Handlers, NEW p \in Apis, Request(q, h, p)
    PROVE  OneByOne!Next
<1>1. h # << >>
  <2>1. Len(h) \in 1..3 /\ Len(<< >>) = 0
    BY HandlerSteps
  <2>2. QED
    BY <2>1
<1>2. AtWork' = AtWork \cup {q} /\ by' = [by EXCEPT ![q] = p] /\ q \notin AtWork
  BY <1>1 DEF Request, AtWork, IInv, TypeOK
<1>3. Busy' = Busy \cup {p}
  BY <1>2 DEF Busy, AtWork, IInv, TypeOK
<1>4. p \in Up /\ Up' = Up /\ schema' = schema
  BY DEF Request, Up, db
<1>5. OneByOne!Work(p)
  BY <1>3, <1>4 DEF OneByOne!Work, Up, Busy
<1>6. QED
  BY <1>5 DEF OneByOne!Next

(* The pod rests unless another of its requests is still there.             *)
LEMMA LeaveRests ==
    ASSUME IInv, NEW q \in Slots, request[q] # << >>, Leave(q)
    PROVE  OneByOne!Next \/ UNCHANGED OneByOne!vars
<1>1. AtWork' = AtWork \ {q} /\ q \in AtWork
  BY DEF Leave, AtWork, IInv, TypeOK
<1>2. \A r \in AtWork' : by'[r] = by[r]
  BY <1>1 DEF Leave, AtWork, IInv, TypeOK
<1>3. Busy' = {by[r] : r \in AtWork \ {q}}
  BY <1>1, <1>2 DEF Busy
<1>4. schema' = schema /\ Up' = Up
  BY DEF Leave, Up
<1>5. by[q] \in Apis
  BY DEF IInv, InStep
<1>6. CASE \E r \in AtWork \ {q} : by[r] = by[q]
  <2>1. Busy' = Busy
    BY <1>1, <1>3, <1>6 DEF Busy
  <2>2. QED
    BY <1>4, <2>1, Idle
<1>7. CASE ~ \E r \in AtWork \ {q} : by[r] = by[q]
  <2>1. PICK p \in Apis : p = by[q]
    BY <1>5
  <2>2. Busy' = Busy \ {p}
    BY <1>1, <1>3, <1>7, <2>1 DEF Busy
  <2>3. OneByOne!Rest(p)
    BY <1>4, <2>2 DEF OneByOne!Rest, Up, Busy
  <2>4. QED
    BY <2>3 DEF OneByOne!Next
<1>8. QED
  BY <1>6, <1>7

LEMMA InitOneByOne == Init => OneByOne!Init
BY DEF Init, AtWork, OneByOne!Init, OneByOne!Files

LEMMA NextOneByOne == IInv /\ [Next]_vars => [OneByOne!Next]_(OneByOne!vars)
<1> SUFFICES ASSUME IInv, [Next]_vars PROVE OneByOne!Next \/ UNCHANGED OneByOne!vars
  OBVIOUS
<1>1. ASSUME UNCHANGED <<schema, stage, request, by>> PROVE UNCHANGED OneByOne!vars
  BY <1>1, SameBusy, Idle DEF Up
<1>2. ASSUME NEW p \in Apis, Start(p) PROVE UNCHANGED OneByOne!vars
  <2>1. Up' = Up
    BY <1>2, SameUp DEF Start, Goes, IInv
  <2>2. schema' = schema /\ Busy' = Busy
    BY <1>2, SameBusy DEF Start, work
  <2>3. QED
    BY <2>1, <2>2, Idle
<1>3. ASSUME NEW p \in Apis, ConnectBus(p) PROVE OneByOne!Next
  <2>1. schema = 2 /\ schema' = schema
    BY <1>3 DEF ConnectBus, IInv, ServingHasSchema
  <2>2. Up' = Up \cup {p}
    BY <1>3 DEF ConnectBus, Goes, Up, IInv, TypeOK
  <2>3. Busy' = Busy
    BY <1>3, SameBusy DEF ConnectBus, work
  <2>4. OneByOne!Join(p)
    BY <2>1, <2>2, <2>3 DEF OneByOne!Join, OneByOne!Files, Up, Busy
  <2>5. QED
    BY <2>4 DEF OneByOne!Next
<1>4. ASSUME NEW p \in Apis, AlreadyExists(p) \/ Kill(p) PROVE OneByOne!Next
  BY <1>4, ExitLeaves DEF AlreadyExists, Kill
<1>5. ASSUME NEW q \in Slots, NEW p \in Apis, MigrationLoses(q, p) PROVE OneByOne!Next
  BY <1>5, ExitLeaves DEF MigrationLoses
<1>6. ASSUME NEW q \in Slots, NEW p \in Apis, StatementLoses(q, p)
      PROVE  OneByOne!Next \/ UNCHANGED OneByOne!vars
  <2>1. Wants(q) /\ Leave(q) /\ q \in Sessions
    BY <1>6 DEF StatementLoses, Deadlocked, Awaits, Sessions
  <2>2. request[q] # << >>
    <3>1. Todo(q) \in Statement
      BY <2>1, SlotBusy
    <3>2. Len(Todo(q)) \in 1..4 /\ Len(<< >>) = 0
      BY <3>1, StatementLength
    <3>3. QED
      BY <3>2 DEF Todo
  <2>3. QED
    BY <2>1, <2>2, LeaveRests
<1>7. ASSUME NEW q \in Slots, Answer(q) \/ Abort(q)
      PROVE  OneByOne!Next \/ UNCHANGED OneByOne!vars
  BY <1>7, LeaveRests DEF Answer, Abort
<1>8. ASSUME NEW s \in Sessions, Grant(s) PROVE UNCHANGED OneByOne!vars
  BY <1>1, <1>8 DEF Grant, work
<1>9. ASSUME NEW q \in Slots, NextStatement(q) PROVE UNCHANGED OneByOne!vars
  BY <1>1, <1>9 DEF NextStatement
<1>10. CASE UNCHANGED <<db, stage, work>>
  BY <1>1, <1>10 DEF db, work
<1>11. QED
  BY <1>2, <1>3, <1>4, <1>5, <1>6, <1>7, <1>8, <1>9, <1>10, CommitApplies, RequestWorks
     DEF Next, Boot, Handle, Detect, Reconnect, Outage, Restored, WorkerStart, WorkerRestart,
         vars, Sessions

(* Any number of pods that run all files at once, wait for each other, lose *)
(* deadlocks and are killed, behave as one migration after the other by one *)
(* hand; store.go:142 "in filename order ... re-running is safe".           *)
THEOREM MigrationsAreSequential == Spec => ImplementsMigration
BY InitOneByOne, NextOneByOne, StartupInvariance, PTL
   DEF Spec, ImplementsMigration, OneByOne!Spec
=============================================================================
