-------------------------- MODULE SessionsAccounts --------------------------
(***************************************************************************)
(* Ids from a sequence, Redis with its file, and the restore playbook       *)
(* together keep the promise of module Accounts.                            *)
(***************************************************************************)
EXTENDS Sessions

(* Accounts are told apart by their INSERT, which the program never sees. *)
Births(us) == {u.born : u \in us}

SessionOf(r) == IF pc[r] \in {"load", "serve"} THEN sid[r] ELSE None
ActsAs(r)    == IF pc[r] = "serve" THEN held[r].born ELSE NoId

Promise == INSTANCE Accounts WITH
    accounts <- Births(users),
    saved    <- {Births(d.users) : d \in dumps},
    valid    <- {s \in Sids : redis[s] # NoId},
    ended    <- gone,
    open     <- phase = "up",
    session  <- [r \in Requests |-> SessionOf(r)],
    acts     <- [r \in Requests |-> ActsAs(r)]

(* A session stays the session of one sign-up and a request acts as that    *)
(* account, although Redis knows it by an id that a restored backup may     *)
(* hand out again; the application is not up again (restore-db.yml) before  *)
(* every session in Redis is of an account that the backup has.  Excepted   *)
(* are the requests of terminating pods that the restore overtakes, the     *)
(* sessions that they store, and what a restart of Redis brings back.       *)
ImplementsAccounts == Promise!Spec
=============================================================================
