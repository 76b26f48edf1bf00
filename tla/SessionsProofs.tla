--------------------------- MODULE SessionsProofs ---------------------------
(* Theorems about Sessions for every set of names, sessions and requests. *)
EXTENDS SessionsAccounts, TLAPS

USE DEF NoId

LEMMA NewRow ==
    ASSUME TypeOK, TablesOK, NEW name \in Names, born < MaxBorn
    PROVE  /\ nextId \in Id /\ born + 1 \in Id
           /\ [id |-> nextId, name |-> name, born |-> born + 1] \in User
<1>1. nextId \in Id /\ born + 1 \in Id
  BY SessionsAssumption DEF TypeOK, TablesOK, Id
<1>2. QED
  BY <1>1 DEF User

LEMMA Cookies == \A r \in Requests : Browser[r] \in Browsers
BY DEF Browsers

LEMMA InitType == Init => TypeOK
<1> SUFFICES ASSUME Init PROVE TypeOK
    OBVIOUS
<1>1. nextId \in 1..(MaxBorn + 1) /\ born \in 0..MaxBorn
  BY SessionsAssumption DEF Init
<1>2. QED
  BY <1>1 DEF Init, TypeOK

LEMMA NextType == IInv /\ [Next]_vars => TypeOK'
<1> SUFFICES ASSUME IInv, [Next]_vars PROVE TypeOK'
    OBVIOUS
<1> USE DEF IInv, tables, store, request, restore, history
<1>1. ASSUME NEW r \in Requests, NEW name \in Names, Signup(r, name) PROVE TypeOK'
  <2> DEFINE row == [id |-> nextId, name |-> name, born |-> born + 1]
  <2>1. nextId \in Id /\ born + 1 \in Id /\ row \in User
    BY <1>1, NewRow DEF Signup
  <2>2. nextId' \in 1..(MaxBorn + 1) /\ born' \in 0..MaxBorn
    BY <1>1, <2>1, SessionsAssumption DEF Signup, Id, TypeOK
  <2>3. users' \subseteq User /\ held' \in [Requests -> User \cup {None}]
    BY <1>1, <2>1 DEF Signup, TypeOK
  <2>4. QED
    BY <1>1, <2>2, <2>3 DEF Signup, TypeOK
<1>2. ASSUME NEW r \in Requests, NEW u \in users, Login(r, u) \/ LoadUser(r, u)
      PROVE  TypeOK'
  BY <1>2 DEF Login, LoadUser, TypeOK
<1>3. ASSUME NEW r \in Requests, NEW s \in Sids, StartSession(r, s) PROVE TypeOK'
  <2>1. held[r].id \in Id /\ held[r].born \in Id
    BY <1>3 DEF StartSession, RequestsOK, TypeOK, User
  <2>2. QED
    BY <1>3, <2>1, Cookies DEF StartSession, Finish, TypeOK
<1>4. ASSUME NEW r \in Requests, StartSessionFails(r) PROVE TypeOK'
  <2>1. held[r].born \in Id
    BY <1>4 DEF StartSessionFails, RequestsOK, TypeOK, User
  <2>2. QED
    BY <1>4, <2>1, Cookies DEF StartSessionFails, Finish, TypeOK
<1>5. ASSUME NEW r \in Requests, Logout(r) \/ LogoutFails(r) PROVE TypeOK'
  BY <1>5, Cookies DEF Logout, LogoutFails, ClearCookie, TypeOK
<1>6. ASSUME NEW r \in Requests, LookUpSession(r) PROVE TypeOK'
  BY <1>6, Cookies DEF LookUpSession, TypeOK
<1>7. ASSUME NEW r \in Requests, End(r) PROVE TypeOK'
  BY <1>7 DEF End, Finish, TypeOK
<1>8. ASSUME NEW s \in Sids, Expire(s) PROVE TypeOK'
  BY <1>8 DEF Expire, TypeOK
<1>9. CASE Sync
  BY <1>9 DEF Sync, TypeOK
<1>10. CASE Restart
  BY <1>10 DEF Restart, TypeOK
<1>11. CASE Dump
  <2>1. [users |-> users, nextId |-> nextId] \in Tables
    BY DEF TypeOK, Tables
  <2>2. QED
    BY <1>11, <2>1 DEF Dump, TypeOK
<1>12. CASE ScaleToZero \/ PodsGone \/ ScaleUp
  BY <1>12 DEF ScaleToZero, PodsGone, ScaleUp, TypeOK
<1>13. ASSUME NEW d \in dumps, RestoreDump(d) PROVE TypeOK'
  <2>1. d.users \subseteq User /\ d.nextId \in 1..(MaxBorn + 1)
    BY DEF TypeOK, Tables
  <2>2. QED
    BY <1>13, <2>1 DEF RestoreDump, TypeOK
<1>14. CASE FlushRedis
  BY <1>14 DEF FlushRedis, TypeOK
<1>15. CASE UNCHANGED vars
  BY <1>15 DEF vars, TypeOK
<1>16. QED
  BY <1>1, <1>2, <1>3, <1>4, <1>5, <1>6, <1>7, <1>8, <1>9, <1>10, <1>11, <1>12,
     <1>13, <1>14, <1>15 DEF Next, Handle, Playbook

LEMMA NextTables == TypeOK /\ TablesOK /\ [Next]_vars => TablesOK'
<1> SUFFICES ASSUME TypeOK, TablesOK, [Next]_vars PROVE TablesOK'
    OBVIOUS
<1> USE DEF tables, store, request, restore, history
<1>1. nextId \in Nat /\ born \in Nat /\ \A u \in users : u.id \in Nat /\ u.born \in Nat
  BY SessionsAssumption DEF TypeOK, User, Id
<1>2. \A d \in dumps : d.nextId \in Nat /\ \A u \in d.users : u.born \in Nat
  BY SessionsAssumption DEF TypeOK, Tables, User, Id
<1>3. ASSUME NEW r \in Requests, NEW name \in Names, Signup(r, name) PROVE TablesOK'
  <2>1. UniqueIds(users', nextId')
    BY <1>1, <1>3 DEF Signup, TablesOK, UniqueIds
  <2>2. (\A u \in users : u.born <= born)'
    BY <1>1, <1>3 DEF Signup, TablesOK
  <2>3. (\A d \in dumps : d.nextId <= born + 1 /\ \A u \in d.users : u.born <= born)'
    BY <1>1, <1>2, <1>3 DEF Signup, TablesOK
  <2>4. nextId' <= born' + 1
    BY <1>1, <1>3 DEF Signup, TablesOK
  <2>5. QED
    BY <2>1, <2>2, <2>3, <2>4, <1>3 DEF Signup, TablesOK
<1>4. CASE Dump
  BY <1>4 DEF Dump, TablesOK
<1>5. ASSUME NEW d \in dumps, RestoreDump(d) PROVE TablesOK'
  BY <1>5 DEF RestoreDump, TablesOK
<1>6. CASE UNCHANGED <<tables, born>>
  BY <1>6 DEF TablesOK
<1>7. QED
  BY <1>3, <1>4, <1>5, <1>6
     DEF Next, Handle, Playbook, vars, Login, LoadUser, StartSession, StartSessionFails,
         Logout, LogoutFails, ClearCookie, LookUpSession, End, Expire, Sync, Restart,
         ScaleToZero, PodsGone, ScaleUp, FlushRedis

LEMMA OwnedBelong ==
    ASSUME TypeOK, StoreOK, NEW s \in Sids
    PROVE  /\ s \in gone => owner[s] # NoId
           /\ \A id : Belongs(s, id) => owner[s] # NoId
BY DEF TypeOK, StoreOK, Belongs, User, Id

LEMMA NextSticks == IInv /\ [Next]_vars => LogoutSticks'
<1> SUFFICES ASSUME IInv, [Next]_vars PROVE LogoutSticks'
    OBVIOUS
<1> USE DEF IInv, tables, store, request, restore, history
<1>1. ASSUME NEW r \in Requests, NEW s \in Sids, StartSession(r, s) PROVE LogoutSticks'
  BY <1>1 DEF StartSession, StoreOK, LogoutSticks, TypeOK
<1>2. ASSUME NEW r \in Requests, Logout(r) PROVE LogoutSticks'
  BY <1>2, Cookies DEF Logout, ClearCookie, LogoutSticks, TypeOK
<1>3. ASSUME NEW s \in Sids, Expire(s) PROVE LogoutSticks'
  BY <1>3 DEF Expire, LogoutSticks, TypeOK
<1>4. CASE Restart
  BY <1>4 DEF Restart, LogoutSticks, TypeOK
<1>5. CASE FlushRedis
  BY <1>5 DEF FlushRedis, LogoutSticks, TypeOK
<1>6. CASE UNCHANGED <<redis, gone, revived>>
  BY <1>6 DEF LogoutSticks
<1>7. QED
  BY <1>1, <1>2, <1>3, <1>4, <1>5, <1>6
     DEF Next, Handle, Playbook, vars, Signup, Login, LoadUser, StartSessionFails,
         LogoutFails, ClearCookie, LookUpSession, End, Sync, Dump,
         ScaleToZero, PodsGone, ScaleUp, RestoreDump

LEMMA NextStore == IInv /\ [Next]_vars => StoreOK'
<1> SUFFICES ASSUME IInv, [Next]_vars PROVE StoreOK'
    OBVIOUS
<1> USE DEF IInv, tables, store, request, restore, history
<1>1. ASSUME NEW r \in Requests, NEW name \in Names, Signup(r, name) PROVE StoreOK'
  BY <1>1 DEF Signup, StoreOK, Belongs
<1>2. ASSUME NEW r \in Requests, NEW s \in Sids, StartSession(r, s) PROVE StoreOK'
  <2>1. held[r].born # NoId /\ (r \notin stale => held[r] \in users)
    BY <1>2 DEF StartSession, RequestsOK, User, Id
  <2>2. /\ \A t \in Sids : t # s => owner'[t] = owner[t] /\ redis'[t] = redis[t]
        /\ owner'[s] = held[r].born /\ redis'[s] = held[r].id
        /\ disk' = disk /\ users' = users /\ gone' = gone /\ phase' = phase
        /\ disk[s] = NoId
        /\ late \subseteq late' /\ (r \in stale => s \in late')
    BY <1>2 DEF StartSession, TypeOK, StoreOK
  <2>3. \A t \in Sids : owner'[t] = NoId => redis'[t] = NoId /\ disk'[t] = NoId /\ t \notin gone'
    BY <2>1, <2>2 DEF StoreOK
  <2>4. \A b \in Browsers : cookie'[b] # None => owner'[cookie'[b]] # NoId
    BY <1>2, <2>1, <2>2, Cookies DEF StartSession, StoreOK, TypeOK
  <2>5. ASSUME phase' # "restored", NEW t \in Sids, t \notin gone' \cup late'
        PROVE  /\ redis'[t] # NoId => \E u \in users : u.id = redis'[t] /\ u.born = owner'[t]
               /\ disk'[t] # NoId => \E u \in users : u.id = disk'[t] /\ u.born = owner'[t]
    <3>1. CASE t = s
      BY <3>1, <2>1, <2>2, <2>5
    <3>2. CASE t # s
      BY <3>2, <2>2, <2>5 DEF StoreOK, Belongs
    <3>3. QED
      BY <3>1, <3>2
  <2>6. QED
    BY <2>2, <2>3, <2>4, <2>5 DEF StoreOK, Belongs
<1>3. ASSUME NEW r \in Requests, Logout(r) \/ LogoutFails(r) PROVE StoreOK'
  <2>1. owner[cookie[Browser[r]]] # NoId
    BY <1>3, Cookies DEF Logout, LogoutFails, ClearCookie, StoreOK
  <2>2. QED
    BY <1>3, <2>1, Cookies DEF Logout, LogoutFails, ClearCookie, StoreOK, Belongs, TypeOK
<1>4. ASSUME NEW s \in Sids, Expire(s) PROVE StoreOK'
  BY <1>4 DEF Expire, StoreOK, Belongs, TypeOK
<1>5. CASE Sync
  BY <1>5 DEF Sync, StoreOK, Belongs
<1>6. CASE Restart
  BY <1>6 DEF Restart, StoreOK, Belongs
<1>7. CASE ScaleToZero \/ PodsGone
  BY <1>7 DEF ScaleToZero, PodsGone, StoreOK, Belongs
<1>8. ASSUME NEW d \in dumps, RestoreDump(d) PROVE StoreOK'
  BY <1>8 DEF RestoreDump, StoreOK, Belongs
<1>9. CASE FlushRedis
  BY <1>9 DEF FlushRedis, StoreOK, Belongs, TypeOK
<1>10. CASE ScaleUp
  BY <1>10 DEF ScaleUp, StoreOK, Belongs
<1>11. CASE UNCHANGED <<users, store, cookie, phase, owner, gone, late>>
  BY <1>11 DEF StoreOK, Belongs
<1>12. QED
  BY <1>1, <1>2, <1>3, <1>4, <1>5, <1>6, <1>7, <1>8, <1>9, <1>10, <1>11
     DEF Next, Handle, Playbook, vars, Login, LoadUser, StartSessionFails,
         LookUpSession, End, Dump

(* A session that is in use was started: StartSession takes another one. *)
LEMMA OthersKept ==
    ASSUME IInv, NEW r \in Requests, NEW s \in Sids, StartSession(r, s),
           NEW q \in Requests, pc[q] \in {"load", "serve"}
    PROVE  owner'[sid[q]] = owner[sid[q]]
<1>1. owner[sid[q]] # NoId
  BY DEF IInv, RequestsOK
<1>2. QED
  BY <1>1 DEF StartSession, IInv, TypeOK

LEMMA NextRequests == IInv /\ [Next]_vars => RequestsOK' /\ ActsForOwner'
<1> SUFFICES ASSUME IInv, [Next]_vars PROVE RequestsOK' /\ ActsForOwner'
    OBVIOUS
<1> USE DEF IInv, tables, store, request, restore, history
<1>0. /\ born \in Nat
      /\ \A r \in Requests : held[r] \in User => held[r].born \in Nat
      /\ \A u \in users : u \in User /\ u.born <= born
  BY SessionsAssumption DEF TypeOK, TablesOK, User, Id
<1>1. ASSUME NEW r \in Requests, NEW name \in Names, Signup(r, name)
      PROVE  RequestsOK' /\ ActsForOwner'
  <2> DEFINE row == [id |-> nextId, name |-> name, born |-> born + 1]
  <2>1. row \in User /\ row.born = born + 1
    BY <1>1, NewRow DEF Signup
  <2>2. /\ \A q \in Requests : q # r => pc'[q] = pc[q] /\ held'[q] = held[q]
        /\ held'[r] = row /\ pc'[r] = "start" /\ row \in users' /\ users \subseteq users'
        /\ born' = born + 1
    BY <1>1 DEF Signup, TypeOK
  <2> HIDE DEF row
  <2>3. RequestsOK'
    BY <1>0, <1>1, <2>1, <2>2 DEF Signup, RequestsOK, Belongs, Doubtful
  <2>4. ActsForOwner'
    BY <1>1, <2>2 DEF Signup, ActsForOwner, Doubtful
  <2>5. QED
    BY <2>3, <2>4
<1>2. ASSUME NEW r \in Requests, NEW u \in users, Login(r, u)
      PROVE  RequestsOK' /\ ActsForOwner'
  BY <1>0, <1>2 DEF Login, RequestsOK, ActsForOwner, Belongs, Doubtful, TypeOK
<1>3. ASSUME NEW r \in Requests, NEW u \in users, LoadUser(r, u)
      PROVE  RequestsOK' /\ ActsForOwner'
  <2>1. sid[r] \in Sids /\ owner[sid[r]] # NoId /\ u \in User
    BY <1>3 DEF LoadUser, RequestsOK, TypeOK
  <2>2. r \in stale \/ sid[r] \in Doubtful \/ u.born = owner[sid[r]]
    BY <1>3 DEF LoadUser, RequestsOK, Belongs, TablesOK, UniqueIds
  <2>3. QED
    BY <1>3, <2>1, <2>2 DEF LoadUser, RequestsOK, ActsForOwner, Belongs, Doubtful, TypeOK
<1>4. ASSUME NEW r \in Requests, NEW s \in Sids, StartSession(r, s)
      PROVE  RequestsOK' /\ ActsForOwner'
  <2>1. \A q \in Requests : pc'[q] \in {"load", "serve"} =>
            /\ pc[q] = pc'[q] /\ sid'[q] = sid[q] /\ uid'[q] = uid[q] /\ held'[q] = held[q]
            /\ owner'[sid[q]] = owner[sid[q]] /\ (q \in stale => q \in stale')
    BY <1>4, OthersKept DEF StartSession, Finish, TypeOK
  <2>2. \A q \in Requests : \/ pc'[q] = "idle"
                            \/ pc'[q] = pc[q] /\ held'[q] = held[q] /\ (q \in stale => q \in stale')
    BY <1>4 DEF StartSession, Finish, TypeOK
  <2>3. users' = users /\ born' = born /\ revived' = revived /\ late \subseteq late'
    BY <1>4 DEF StartSession
  <2>4. RequestsOK'
    BY <2>1, <2>2, <2>3 DEF RequestsOK, Belongs, Doubtful
  <2>5. ActsForOwner'
    BY <2>1, <2>3 DEF ActsForOwner, Doubtful
  <2>6. QED
    BY <2>4, <2>5
<1>5. ASSUME NEW r \in Requests, StartSessionFails(r) \/ End(r)
      PROVE  RequestsOK' /\ ActsForOwner'
  BY <1>5 DEF StartSessionFails, End, Finish, RequestsOK, ActsForOwner, Belongs, Doubtful, TypeOK
<1>6. ASSUME NEW r \in Requests, LookUpSession(r) PROVE RequestsOK' /\ ActsForOwner'
  <2> DEFINE s == cookie[Browser[r]]
  <2>1. /\ s \in Sids /\ owner[s] # NoId
        /\ phase = "restored" \/ s \in Doubtful \/ Belongs(s, redis[s])
    BY <1>6, Cookies DEF LookUpSession, TypeOK, StoreOK, LogoutSticks, Doubtful
  <2>2. QED
    BY <1>6, <2>1 DEF LookUpSession, RequestsOK, ActsForOwner, Belongs, Doubtful, TypeOK
<1>7. CASE Restart
  BY <1>7 DEF Restart, RequestsOK, ActsForOwner, Belongs, Doubtful
<1>8. CASE ScaleToZero \/ PodsGone
  BY <1>8 DEF ScaleToZero, PodsGone, RequestsOK, ActsForOwner, Belongs, Doubtful
<1>9. ASSUME NEW d \in dumps, RestoreDump(d) PROVE RequestsOK' /\ ActsForOwner'
  BY <1>9 DEF RestoreDump, RequestsOK, ActsForOwner, Belongs, Doubtful
<1>10. CASE FlushRedis
  BY <1>10 DEF FlushRedis, RequestsOK, ActsForOwner, Belongs, Doubtful
<1>11. CASE ScaleUp
  BY <1>11 DEF ScaleUp, RequestsOK, ActsForOwner, Belongs, Doubtful
<1>12. CASE UNCHANGED <<users, born, request, owner, revived, stale, late>>
  BY <1>12 DEF RequestsOK, ActsForOwner, Belongs, Doubtful
<1>13. QED
  BY <1>1, <1>2, <1>3, <1>4, <1>5, <1>6, <1>7, <1>8, <1>9, <1>10, <1>11, <1>12
     DEF Next, Handle, Playbook, vars, Logout, LogoutFails, ClearCookie, Expire, Sync, Dump

LEMMA InitInv == Init => IInv
<1> SUFFICES ASSUME Init PROVE IInv
    OBVIOUS
<1>1. TypeOK
  BY InitType
<1>2. TablesOK /\ StoreOK /\ RequestsOK /\ LogoutSticks /\ ActsForOwner
  BY DEF Init, TablesOK, UniqueIds, StoreOK, RequestsOK, LogoutSticks, ActsForOwner
<1>3. QED
  BY <1>1, <1>2 DEF IInv

(* Ids stay unique in the tables and in every dump, sessions in memory and  *)
(* on disk keep to their accounts, and requests in progress to both.        *)
THEOREM SessionInvariance == Spec => []IInv
<1>1. IInv /\ [Next]_vars => IInv'
  BY NextType, NextTables, NextStore, NextRequests, NextSticks DEF IInv
<1>2. QED
  BY InitInv, <1>1, PTL DEF Spec

(* A request that no restore overtook is served as the account whose login  *)
(* started its session, across logouts, Redis restarts and restored backups *)
(* that reuse ids, although terminating pods go on serving meanwhile.       *)
THEOREM RequestsActForOwners == Spec => []ActsForOwner
<1>1. IInv => ActsForOwner
  BY DEF IInv
<1>2. QED
  BY <1>1, SessionInvariance, PTL

(* Whenever the application is up, a session in Redis is one of an account  *)
(* that exists, unless a restart of Redis or an overtaken login put it      *)
(* there: the FLUSHALL of the playbook comes before the pods.               *)
THEOREM SessionsKeepToAccounts == Spec => []SessionsBelong
<1>1. IInv => SessionsBelong
  BY DEF IInv, StoreOK, LogoutSticks, SessionsBelong, Doubtful
<1>2. QED
  BY <1>1, SessionInvariance, PTL

(* A logged-out or flushed session stays dead while Redis does not restart  *)
(* from a file that still has it.                                           *)
THEOREM LogoutIsFinal == Spec => []LogoutSticks
<1>1. IInv => LogoutSticks
  BY DEF IInv
<1>2. QED
  BY <1>1, SessionInvariance, PTL

(* Tables, dumps, sessions and requests keep their types, and no session    *)
(* comes back that was not gone before.                                     *)
THEOREM SessionTypes == Spec => []TypeOK
<1>1. IInv => TypeOK
  BY DEF IInv
<1>2. QED
  BY <1>1, SessionInvariance, PTL
-----------------------------------------------------------------------------
(* The refinement of Accounts, by what a step does to its variables.        *)
Accts     == Births(users)
Backups   == {Births(d.users) : d \in dumps}
Usable    == {s \in Sids : redis[s] # NoId}
Presented == [r \in Requests |-> SessionOf(r)]
Acting    == [r \in Requests |-> ActsAs(r)]

SameTables == Accts' = Accts /\ born' = born /\ Backups' = Backups
SameStore  == /\ owner' = owner /\ Usable' = Usable /\ gone' = gone
              /\ revived' = revived /\ late' = late
SameOpen   == (phase = "up")' = (phase = "up")
SameWork   == Presented' = Presented /\ Acting' = Acting
SameStale  == stale' = stale

LEMMA KeepTables == UNCHANGED <<tables, born>> => SameTables
BY DEF tables, SameTables, Accts, Backups, Births

LEMMA KeepStore == UNCHANGED <<redis, owner, gone, revived, late>> => SameStore
BY DEF SameStore, Usable

LEMMA KeepOpen == phase' = phase => SameOpen
BY DEF SameOpen

LEMMA KeepWork == UNCHANGED request => SameWork
BY DEF request, SameWork, Presented, Acting, SessionOf, ActsAs

LEMMA Stutter ==
    ASSUME SameTables, SameStore, SameOpen, SameWork, SameStale
    PROVE  UNCHANGED Promise!vars
BY DEF SameTables, SameStore, SameOpen, SameWork, SameStale, Accts, Backups, Usable, Presented, Acting,
   Promise!vars, Promise!tables, Promise!store, Promise!work

LEMMA InIssued == \A s \in Sids : s \in Promise!Issued <=> owner[s] # NoId
BY DEF Promise!Issued, Promise!Nobody

(* A request that is about to start a session, or idle, presents none.      *)
LEMMA QuietWork ==
    ASSUME TypeOK, NEW r \in Requests,
           pc[r] \in {"idle", "start"}, pc'[r] \in {"idle", "start"},
           \A q \in Requests : q # r => /\ pc'[q] = pc[q] /\ sid'[q] = sid[q]
                                        /\ held'[q] = held[q]
    PROVE  SameWork
BY DEF SameWork, Presented, Acting, SessionOf, ActsAs

LEMMA FinishOthers ==
    ASSUME TypeOK, NEW r \in Requests, Finish(r)
    PROVE  /\ pc'[r] = "idle" /\ sid'[r] = None
           /\ \A q \in Requests : q # r => /\ pc'[q] = pc[q] /\ sid'[q] = sid[q]
                                           /\ held'[q] = held[q]
BY DEF Finish, TypeOK

LEMMA OneMoreBirth == \A us, u : Births(us \cup {u}) = Births(us) \cup {u.born}
BY DEF Births

LEMMA OneMoreBackup ==
    \A ds, d : {Births(e.users) : e \in ds \cup {d}}
                  = {Births(e.users) : e \in ds} \cup {Births(d.users)}
OBVIOUS

LEMMA SignupPromise ==
    ASSUME IInv, NEW r \in Requests, NEW name \in Names, Signup(r, name)
    PROVE  Promise!SignUp
<1>1. Accts' = Accts \cup {born + 1}
  <2> DEFINE row == [id |-> nextId, name |-> name, born |-> born + 1]
  <2>1. users' = users \cup {row} /\ row.born = born + 1
    BY DEF Signup
  <2> HIDE DEF row
  <2>2. QED
    BY <2>1, OneMoreBirth DEF Accts
<1>2. Backups' = Backups
  BY DEF Signup, Backups
<1>3. SameWork
  <2>1. pc'[r] = "start" /\ pc[r] = "idle"
    BY DEF Signup, IInv, TypeOK
  <2>2. \A q \in Requests : q # r => /\ pc'[q] = pc[q] /\ sid'[q] = sid[q]
                                     /\ held'[q] = held[q]
    BY DEF Signup, IInv, TypeOK
  <2>3. QED
    BY <2>1, <2>2, QuietWork DEF IInv
<1>4. SameStore /\ SameOpen
  BY KeepStore, KeepOpen DEF Signup, store, restore
<1>5. born' = born + 1 /\ SameStale
  BY DEF Signup, SameStale
<1>6. QED
  BY <1>1, <1>2, <1>3, <1>4, <1>5
     DEF Promise!SignUp, Promise!store, Promise!work, SameStore, SameOpen, SameWork, SameStale, Accts,
         Backups, Usable, Presented, Acting

LEMMA LoginPromise ==
    ASSUME IInv, NEW r \in Requests, NEW u \in users, Login(r, u)
    PROVE  UNCHANGED Promise!vars
<1>1. SameWork
  <2>1. pc'[r] = "start" /\ pc[r] = "idle"
    BY DEF Login, IInv, TypeOK
  <2>2. \A q \in Requests : q # r => /\ pc'[q] = pc[q] /\ sid'[q] = sid[q]
                                     /\ held'[q] = held[q]
    BY DEF Login, IInv, TypeOK
  <2>3. QED
    BY <2>1, <2>2, QuietWork DEF IInv
<1>2. SameTables /\ SameStore /\ SameOpen /\ SameStale
  BY KeepTables, KeepStore, KeepOpen DEF Login, tables, store, restore, history, SameStale
<1>3. QED
  BY <1>1, <1>2, Stutter

LEMMA StartPromise ==
    ASSUME IInv, NEW r \in Requests, NEW s \in Sids, StartSession(r, s)
    PROVE  Promise!Next
<1>1. held[r] \in User /\ held[r].id # NoId
  BY DEF StartSession, IInv, RequestsOK, User, Id
<1>2. held[r].born \in 1..born
  BY <1>1 DEF StartSession, IInv, RequestsOK, TypeOK, User, Id
<1> PICK a \in 1..born : a = held[r].born
  BY <1>2
<1>3. Usable' = Usable \cup {s}
  BY <1>1 DEF StartSession, Usable, IInv, TypeOK
<1>4. SameWork
  <2>1. Finish(r) /\ pc[r] = "start"
    BY DEF StartSession
  <2>2. QED
    BY <2>1, FinishOthers, QuietWork DEF IInv
<1>5. SameTables /\ SameOpen
  BY KeepTables, KeepOpen DEF StartSession, tables, restore
<1>6. /\ owner' = [owner EXCEPT ![s] = a] /\ gone' = gone /\ revived' = revived
      /\ s \notin Promise!Issued
  BY InIssued DEF StartSession
<1>7. Promise!LogIn(a, s)
  BY <1>3, <1>4, <1>5, <1>6
     DEF Promise!LogIn, Promise!tables, SameTables, SameOpen, SameWork, Accts,
         Backups, Usable, Presented, Acting
<1>8. CASE r \in stale
  <2>1. Presented[r] = None
    BY DEF StartSession, Presented, SessionOf
  <2>2. late' = late \cup {s} /\ stale' = stale \ {r}
    BY <1>8 DEF StartSession, Finish
  <2>3. Promise!LogInLate(r, a, s)
    BY <1>7, <1>8, <2>1, <2>2 DEF Promise!LogInLate, Presented
  <2>4. QED
    BY <2>3 DEF Promise!Next
<1>9. CASE r \notin stale
  <2>1. a \in Accts
    BY <1>9 DEF StartSession, IInv, RequestsOK, Accts, Births
  <2>2. late' = late /\ stale' = stale
    BY <1>9 DEF StartSession, Finish
  <2>3. Promise!LogInOnTime(a, s)
    BY <1>7, <2>1, <2>2 DEF Promise!LogInOnTime, Accts
  <2>4. QED
    BY <2>1, <2>3 DEF Promise!Next, Accts
<1>10. QED
  BY <1>8, <1>9

LEMMA DonePromise ==
    ASSUME IInv, NEW r \in Requests, Finish(r), pc[r] # "idle",
           SameTables, SameStore, SameOpen
    PROVE  [Promise!Done(r)]_(Promise!vars)
<1>0. stale' = stale \ {r}
  BY DEF Finish
<1>1. CASE pc[r] = "start" /\ r \notin stale
  <2>1. SameWork
    BY <1>1, FinishOthers, QuietWork DEF IInv
  <2>2. SameStale
    BY <1>0, <1>1 DEF SameStale
  <2>3. QED
    BY <2>1, <2>2, Stutter
<1>2. CASE pc[r] # "start" \/ r \in stale
  <2>1. Presented[r] # None \/ r \in stale
    <3>1. CASE pc[r] \in {"load", "serve"}
      BY <3>1, SessionsAssumption DEF Presented, SessionOf, IInv, RequestsOK
    <3>2. QED
      BY <1>2, <3>1 DEF IInv, TypeOK
  <2>2. Presented' = [Presented EXCEPT ![r] = None] /\ Acting' = [Acting EXCEPT ![r] = NoId]
    BY FinishOthers DEF Presented, Acting, SessionOf, ActsAs, IInv
  <2>3. QED
    BY <1>0, <2>1, <2>2
       DEF Promise!Done, Promise!tables, Promise!store, Promise!Nobody, SameTables, SameStore,
           SameOpen, Accts, Backups, Usable, Presented, Acting
<1>3. QED
  BY <1>1, <1>2

LEMMA LogoutPromise ==
    ASSUME IInv, NEW r \in Requests, Logout(r)
    PROVE  \E s \in Sids : Promise!LogOut(s)
<1>0. cookie[Browser[r]] \in Sids
  BY Cookies DEF Logout, ClearCookie, IInv, TypeOK
<1> PICK s \in Sids : s = cookie[Browser[r]]
  BY <1>0
<1>1. owner[s] # NoId
  BY Cookies, SessionsAssumption DEF IInv, StoreOK
<1>2. Usable' = Usable \ {s}
  BY DEF Logout, Usable, IInv, TypeOK
<1>3. s \in Promise!Issued
  BY <1>1, InIssued
<1>4. SameTables /\ SameOpen /\ SameWork
  BY KeepTables, KeepOpen, KeepWork DEF Logout, ClearCookie, tables, restore
<1>5. /\ gone' = gone \cup {s} /\ owner' = owner /\ revived' = revived
      /\ late' = late /\ stale' = stale
  BY DEF Logout, ClearCookie
<1>6. Promise!LogOut(s)
  BY <1>2, <1>3, <1>4, <1>5
     DEF Promise!LogOut, Promise!tables, Promise!work, SameTables, SameOpen, SameWork, Accts,
         Backups, Usable, Presented, Acting
<1>7. QED
  BY <1>6

LEMMA LookUpPromise ==
    ASSUME IInv, NEW r \in Requests, LookUpSession(r)
    PROVE  Promise!Present(r, cookie[Browser[r]])
<1> DEFINE s == cookie[Browser[r]]
<1>1. s \in Usable /\ Presented[r] = None
  BY Cookies DEF LookUpSession, IInv, TypeOK, Usable, Presented, SessionOf
<1>2. Presented' = [Presented EXCEPT ![r] = s]
  BY DEF LookUpSession, Presented, SessionOf, IInv, TypeOK
<1>3. Acting' = Acting
  BY DEF LookUpSession, Acting, ActsAs, IInv, TypeOK
<1>4. SameTables /\ SameStore /\ SameOpen
  BY KeepTables, KeepStore, KeepOpen DEF LookUpSession, tables, store, restore
<1>5. stale' = stale \/ (phase # "up" /\ stale' = stale \cup {r})
  BY DEF LookUpSession
<1>6. QED
  BY <1>1, <1>2, <1>3, <1>4, <1>5
     DEF Promise!Present, Promise!tables, Promise!store, SameTables, SameStore, SameOpen, Accts,
         Backups, Usable, Presented, Acting

LEMMA LoadPromise ==
    ASSUME IInv, NEW r \in Requests, NEW u \in users, LoadUser(r, u)
    PROVE  Promise!Act(r, u.born)
<1>1. /\ sid[r] \in Sids
      /\ r \in stale \/ sid[r] \in revived \cup late \/ u.born = owner[sid[r]]
  BY DEF LoadUser, IInv, RequestsOK, Belongs, TablesOK, UniqueIds, Doubtful
<1>2. Presented[r] = sid[r] /\ Acting[r] = NoId
  BY DEF LoadUser, Presented, Acting, SessionOf, ActsAs
<1>3. Presented[r] # None
  BY <1>1, <1>2, SessionsAssumption
<1>4. Presented' = Presented
  BY DEF LoadUser, Presented, SessionOf, IInv, TypeOK
<1>5. Acting' = [Acting EXCEPT ![r] = u.born]
  BY DEF LoadUser, Acting, ActsAs, IInv, TypeOK
<1>6. u.born \in Accts
  BY DEF Accts, Births
<1>7. SameTables /\ SameStore /\ SameOpen /\ stale' = stale
  BY KeepTables, KeepStore, KeepOpen DEF LoadUser, tables, store, restore, history
<1>8. QED
  BY <1>1, <1>2, <1>3, <1>4, <1>5, <1>6, <1>7
     DEF Promise!Act, Promise!tables, Promise!store, Promise!Nobody, SameTables, SameStore,
         SameOpen, Accts, Backups, Usable, Presented, Acting

LEMMA ExpirePromise ==
    ASSUME IInv, NEW s \in Sids, Expire(s)
    PROVE  Promise!Expire(s)
<1>1. Usable' = Usable \ {s}
  BY DEF Expire, Usable, IInv, TypeOK
<1>2. SameTables /\ SameOpen /\ SameWork
  BY KeepTables, KeepOpen, KeepWork DEF Expire, tables, restore, history
<1>3. /\ owner' = owner /\ gone' = gone /\ revived' = revived
      /\ late' = late /\ stale' = stale
  BY DEF Expire, history
<1>4. QED
  BY <1>1, <1>2, <1>3
     DEF Promise!Expire, Promise!tables, Promise!work, SameTables, SameOpen, SameWork, Accts,
         Backups, Usable, Presented, Acting

LEMMA RestartPromise ==
    ASSUME IInv, Restart
    PROVE  \E back \in SUBSET Sids : Promise!Crash(back)
<1> PICK back \in SUBSET Sids : back = {s \in Sids : disk[s] # NoId}
  OBVIOUS
<1>1. Usable' = back
  BY DEF Restart, Usable
<1>2. back \subseteq Promise!Issued
  BY InIssued DEF IInv, StoreOK
<1>3. revived' = revived \cup (back \cap gone)
  BY DEF Restart, IInv, TypeOK
<1>4. SameTables /\ SameOpen /\ SameWork
  BY KeepTables, KeepOpen, KeepWork DEF Restart, tables, restore
<1>5. owner' = owner /\ gone' = gone /\ late' = late /\ stale' = stale
  BY DEF Restart
<1>6. Promise!Crash(back)
  BY <1>1, <1>2, <1>3, <1>4, <1>5
     DEF Promise!Crash, Promise!tables, Promise!work, SameTables, SameOpen, SameWork, Accts,
         Backups, Usable, Presented, Acting
<1>7. QED
  BY <1>6

LEMMA DumpPromise == Dump => Promise!Save
<1> SUFFICES ASSUME Dump PROVE Promise!Save
  OBVIOUS
<1>1. Backups' = Backups \cup {Accts}
  <2> DEFINE now == [users |-> users, nextId |-> nextId]
  <2>1. dumps' = dumps \cup {now} /\ now.users = users
    BY DEF Dump
  <2> HIDE DEF now
  <2>2. QED
    BY <2>1, OneMoreBackup DEF Backups, Accts
<1>2. Accts' = Accts
  <2>1. users' = users
    BY DEF Dump
  <2>2. QED
    BY <2>1 DEF Accts, Births
<1>3. SameStore /\ SameOpen /\ SameWork
  BY KeepStore, KeepOpen, KeepWork DEF Dump, store, restore, history
<1>4. born' = born /\ stale' = stale
  BY DEF Dump, history
<1>5. QED
  BY <1>1, <1>2, <1>3, <1>4
     DEF Promise!Save, Promise!store, Promise!work, SameStore, SameOpen, SameWork, SameStale, Accts,
         Backups, Usable, Presented, Acting

LEMMA ClosePromise == ScaleToZero => Promise!Close
<1> SUFFICES ASSUME ScaleToZero PROVE Promise!Close
  OBVIOUS
<1>1. SameTables /\ SameStore /\ SameWork
  BY KeepTables, KeepStore, KeepWork DEF ScaleToZero, tables, store, history
<1>2. (phase = "up")' = FALSE /\ stale' = stale
  BY DEF ScaleToZero, history
<1>3. QED
  BY <1>1, <1>2
     DEF Promise!Close, Promise!tables, Promise!store, Promise!work, SameTables, SameStore,
         SameWork, Accts, Backups, Usable, Presented, Acting

LEMMA RestorePromise ==
    ASSUME IInv, NEW d \in dumps, RestoreDump(d)
    PROVE  \E as \in Backups : Promise!Restore(as)
<1>1. Accts' = Births(d.users) /\ Births(d.users) \in Backups /\ Backups' = Backups
  BY DEF RestoreDump, Accts, Backups, Births
<1>2. phase # "up" /\ SameOpen
  BY DEF RestoreDump, SameOpen
<1>3. SameStore /\ SameWork /\ born' = born
  BY KeepStore, KeepWork DEF RestoreDump, store
<1>4. \E busy \in SUBSET Requests :
          /\ {r \in Requests : Presented[r] # None} \subseteq busy
          /\ stale' = stale \cup busy
  <2> DEFINE busy == {r \in Requests : pc[r] # "idle"}
  <2>1. {r \in Requests : Presented[r] # None} \subseteq busy
    BY DEF Presented, SessionOf
  <2>2. stale' = stale \cup busy /\ busy \in SUBSET Requests
    BY DEF RestoreDump
  <2>3. QED
    BY <2>1, <2>2
<1>5. Promise!Restore(Births(d.users))
  BY <1>1, <1>2, <1>3, <1>4
     DEF Promise!Restore, Promise!store, Promise!work, SameStore, SameOpen, SameWork, SameStale, Accts,
         Backups, Usable, Presented, Acting
<1>6. QED
  BY <1>1, <1>5

LEMMA FlushPromise == IInv /\ FlushRedis => Promise!EndAll
<1> SUFFICES ASSUME IInv, FlushRedis PROVE Promise!EndAll
  OBVIOUS
<1>1. Usable' = {}
  BY DEF FlushRedis, Usable
<1>2. gone' = gone \cup Promise!Issued
  BY DEF FlushRedis, Promise!Issued, Promise!Nobody
<1>3. /\ phase # "up" /\ SameOpen /\ owner' = owner /\ revived' = revived
      /\ late' = late /\ stale' = stale
  BY DEF FlushRedis, SameOpen
<1>4. SameTables /\ SameWork
  BY KeepTables, KeepWork DEF FlushRedis, tables
<1>5. QED
  BY <1>1, <1>2, <1>3, <1>4
     DEF Promise!EndAll, Promise!tables, Promise!work, SameTables, SameOpen, SameWork, Accts,
         Backups, Usable, Presented, Acting

(* After the flush every session in Redis is doubtful, or was stored by a   *)
(* request that found its account in the restored database.                 *)
LEMMA ReopenPromise == IInv /\ ScaleUp => Promise!Reopen
<1> SUFFICES ASSUME IInv, ScaleUp PROVE Promise!Reopen
  OBVIOUS
<1>1. \A s \in Usable \ (revived \cup late) : owner[s] \in Accts
  BY DEF ScaleUp, IInv, Usable, StoreOK, LogoutSticks, Belongs, Accts, Births
<1>2. SameTables /\ SameStore /\ SameWork
  BY KeepTables, KeepStore, KeepWork DEF ScaleUp, tables, store, history
<1>3. phase # "up" /\ (phase = "up")' = TRUE /\ stale' = stale
  BY DEF ScaleUp, history
<1>4. QED
  BY <1>1, <1>2, <1>3
     DEF Promise!Reopen, Promise!tables, Promise!store, Promise!work, SameTables, SameStore,
         SameWork, Accts, Backups, Usable, Presented, Acting

LEMMA InitPromise == Init => Promise!Init
<1> SUFFICES ASSUME Init PROVE Promise!Init
  OBVIOUS
<1>1. Accts = {} /\ Backups = {} /\ Usable = {}
  BY DEF Init, Accts, Births, Backups, Usable
<1>2. Presented = [r \in Requests |-> None] /\ Acting = [r \in Requests |-> NoId]
  BY DEF Init, Presented, Acting, SessionOf, ActsAs
<1>3. QED
  BY <1>1, <1>2 DEF Init, Promise!Init, Promise!Nobody, Accts, Backups, Usable, Presented, Acting

LEMMA NextPromise == IInv /\ [Next]_vars => [Promise!Next]_(Promise!vars)
<1> SUFFICES ASSUME IInv, [Next]_vars PROVE [Promise!Next]_(Promise!vars)
  OBVIOUS
<1>1. ASSUME NEW r \in Requests, Handle(r) PROVE [Promise!Next]_(Promise!vars)
  <2>1. ASSUME NEW name \in Names, Signup(r, name) PROVE Promise!Next
    BY <2>1, SignupPromise DEF Promise!Next
  <2>2. ASSUME NEW u \in users, Login(r, u) PROVE UNCHANGED Promise!vars
    BY <2>2, LoginPromise
  <2>3. ASSUME NEW u \in users, LoadUser(r, u) PROVE Promise!Next
    <3>1. Promise!Act(r, u.born) /\ u.born \in Births(users)
      BY <2>3, LoadPromise DEF Births
    <3>2. QED
      BY <3>1 DEF Promise!Next
  <2>4. ASSUME NEW s \in Sids, StartSession(r, s) PROVE Promise!Next
    BY <2>4, StartPromise
  <2>5. ASSUME StartSessionFails(r) \/ End(r) PROVE [Promise!Next]_(Promise!vars)
    <3>1. Finish(r) /\ pc[r] # "idle"
      BY <2>5 DEF StartSessionFails, End
    <3>2. SameTables /\ SameStore /\ SameOpen
      BY <2>5, KeepTables, KeepStore, KeepOpen
         DEF StartSessionFails, End, tables, store, restore, history
    <3>3. [Promise!Done(r)]_(Promise!vars)
      BY <3>1, <3>2, DonePromise
    <3>4. QED
      BY <3>3 DEF Promise!Next
  <2>6. ASSUME Logout(r) PROVE Promise!Next
    BY <2>6, LogoutPromise DEF Promise!Next
  <2>7. ASSUME LogoutFails(r) PROVE UNCHANGED Promise!vars
    BY <2>7, KeepTables, KeepStore, KeepOpen, KeepWork, Stutter
       DEF LogoutFails, ClearCookie, tables, restore, SameStale
  <2>8. ASSUME LookUpSession(r) PROVE Promise!Next
    <3>1. cookie[Browser[r]] \in Sids
      BY <2>8, Cookies DEF LookUpSession, IInv, TypeOK
    <3>2. QED
      BY <2>8, <3>1, LookUpPromise DEF Promise!Next
  <2>9. QED
    BY <1>1, <2>1, <2>2, <2>3, <2>4, <2>5, <2>6, <2>7, <2>8 DEF Handle
<1>2. ASSUME NEW s \in Sids, Expire(s) PROVE Promise!Next
  BY <1>2, ExpirePromise DEF Promise!Next
<1>3. ASSUME Sync PROVE UNCHANGED Promise!vars
  BY <1>3, KeepTables, KeepStore, KeepOpen, KeepWork, Stutter
     DEF Sync, tables, restore, history, SameStale
<1>4. ASSUME Restart PROVE Promise!Next
  BY <1>4, RestartPromise DEF Promise!Next
<1>5. ASSUME Dump PROVE Promise!Next
  BY <1>5, DumpPromise DEF Promise!Next
<1>6. ASSUME Playbook PROVE [Promise!Next]_(Promise!vars)
  <2>1. ASSUME NEW d \in dumps, RestoreDump(d) PROVE Promise!Next
    <3>1. PICK as \in Backups : Promise!Restore(as)
      BY <2>1, RestorePromise
    <3>2. QED
      BY <3>1 DEF Promise!Next, Backups
  <2>2. ASSUME PodsGone PROVE UNCHANGED Promise!vars
    BY <2>2, KeepTables, KeepStore, KeepOpen, KeepWork, Stutter
       DEF PodsGone, tables, store, history, SameStale
  <2>3. QED
    BY <1>6, <2>1, <2>2, ClosePromise, FlushPromise, ReopenPromise DEF Playbook, Promise!Next
<1>7. ASSUME UNCHANGED vars PROVE UNCHANGED Promise!vars
  BY <1>7, KeepTables, KeepStore, KeepOpen, KeepWork, Stutter
     DEF vars, tables, store, restore, history, SameStale
<1>8. QED
  BY <1>1, <1>2, <1>3, <1>4, <1>5, <1>6, <1>7 DEF Next

(* Sessions implements Accounts: however requests, Redis' restarts, dumps   *)
(* and restores interleave, a session is of one sign-up for good, a request *)
(* acts as it unless a restore overtook the request, and the application    *)
(* comes back up (restore-db.yml) only when no session in Redis but a       *)
(* doubtful one is of an account that was lost.                             *)
THEOREM SessionsAreAccounts == Spec => ImplementsAccounts
BY InitPromise, NextPromise, SessionInvariance, PTL
   DEF Spec, ImplementsAccounts, Promise!Spec
-----------------------------------------------------------------------------
(* While no Redis command fails and Redis does not restart, no session is   *)
(* revived and the counterexample of sessions_login cannot happen.          *)
Faultless == revived = {} /\ AnsweredUserActs

LEMMA NextFaultless == ~ RedisFaults /\ IInv /\ Faultless /\ [Next]_vars => Faultless'
<1> SUFFICES ASSUME ~ RedisFaults, IInv, Faultless, [Next]_vars PROVE Faultless'
  OBVIOUS
<1> USE DEF tables, store, request, restore, history
<1>1. revived' = revived
  BY DEF Next, Handle, Playbook, vars, Signup, Login, LoadUser, StartSession,
     StartSessionFails, Logout, LogoutFails, ClearCookie, LookUpSession, End, Expire, Sync,
     Restart, Dump, ScaleToZero, PodsGone, RestoreDump, FlushRedis, ScaleUp
<1>2. ASSUME NEW r \in Requests, NEW s \in Sids, StartSession(r, s)
      PROVE  AnsweredUserActs'
  <2>1. \A b \in Browsers : cookie[b] # None => cookie[b] # s
    BY <1>2 DEF StartSession, IInv, StoreOK
  <2>2. ASSUME NEW b \in Browsers, cookie'[b] # None, answered'[b] # NoId
        PROVE  owner'[cookie'[b]] = answered'[b]
    <3>1. CASE b = Browser[r]
      BY <1>2, <3>1 DEF StartSession, IInv, TypeOK
    <3>2. CASE b # Browser[r]
      <4>1. cookie'[b] = cookie[b] /\ answered'[b] = answered[b] /\ cookie[b] \in Sids
        BY <1>2, <2>2, <3>2 DEF StartSession, IInv, TypeOK
      <4>2. owner'[cookie[b]] = owner[cookie[b]]
        BY <1>2, <2>1, <2>2, <4>1 DEF StartSession, IInv, TypeOK
      <4>3. QED
        BY <2>2, <4>1, <4>2 DEF Faultless, AnsweredUserActs
    <3>3. QED
      BY <3>1, <3>2
  <2>3. QED
    BY <2>2 DEF AnsweredUserActs
<1>3. ASSUME NEW r \in Requests, ClearCookie(r), owner' = owner PROVE AnsweredUserActs'
  BY <1>3 DEF ClearCookie, Faultless, AnsweredUserActs, IInv, TypeOK
<1>4. ASSUME UNCHANGED <<cookie, owner, answered>> PROVE AnsweredUserActs'
  BY <1>4 DEF Faultless, AnsweredUserActs
<1>5. AnsweredUserActs'
  BY <1>2, <1>3, <1>4
     DEF Next, Handle, Playbook, vars, Signup, Login, LoadUser, StartSessionFails, Logout,
         LogoutFails, ClearCookie, LookUpSession, End, Expire, Sync, Restart, Dump,
         ScaleToZero, PodsGone, RestoreDump, FlushRedis, ScaleUp
<1>6. QED
  BY <1>1, <1>5 DEF Faultless

LEMMA AlwaysFaultless ==
    ASSUME ~ RedisFaults
    PROVE  Spec => [](IInv /\ Faultless)
<1>1. Init => Faultless
  BY DEF Init, Faultless, AnsweredUserActs
<1>2. IInv /\ Faultless /\ [Next]_vars => Faultless'
  BY NextFaultless
<1>3. QED
  BY SessionInvariance, <1>1, <1>2, PTL DEF Spec

(* README.md:77 holds of a Redis that answers: whoever was told 200 acts as *)
(* themselves.  The other account of sessions_login comes from the error of *)
(* PutSession that startSession only logs, and from nothing else.           *)
THEOREM AnsweredIsOwner ==
    ASSUME ~ RedisFaults
    PROVE  Spec => []AnsweredUserActs
<1>1. Faultless => AnsweredUserActs
  BY DEF Faultless
<1>2. QED
  BY <1>1, AlwaysFaultless, PTL

(* And a session that was logged out or flushed never acts again, restored  *)
(* backups and reused ids or not: only a restart of Redis revives one.      *)
Ended == \A s \in gone : redis[s] = NoId

THEOREM EndedForGood ==
    ASSUME ~ RedisFaults
    PROVE  Spec => []Ended
<1>1. IInv /\ Faultless => Ended
  BY DEF IInv, LogoutSticks, Faultless, Ended
<1>2. QED
  BY <1>1, AlwaysFaultless, PTL
=============================================================================
