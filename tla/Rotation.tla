------------------------------- MODULE Rotation -------------------------------
(***************************************************************************)
(* ansible/ops/rotate-secrets.yml, target postgres, and what it changes.    *)
(* A password travels from the role in Postgres to Secrets Manager, from    *)
(* there to a file in each pod (when the pod is made, and again whenever    *)
(* the CSI driver polls), and from the file into the process, once, when    *)
(* its container starts.  Connections made earlier outlive a password, but  *)
(* a busy pool needs new ones, and those Postgres refuses.                  *)
(*                                                                          *)
(* The playbook may fail after any task; it is then run again from the top, *)
(* with another password.  Passwords are numbered in the order they are     *)
(* made.  The pods are those of deploy/app: one replica, and one more while *)
(* a rollout is under way (the autoscaler's second replica is left out).    *)
(***************************************************************************)
EXTENDS Naturals

CONSTANTS Pods,     \* names a pod can have
          MaxPw,    \* bound on the passwords ever made
          None

Pw == 0..MaxPw
NotRead == MaxPw + 1  \* the container has not come up
Pod == [fresh : BOOLEAN,                     \* made from the latest template
        file : Pw, held : Pw \cup {NotRead}, \* password mounted, and in use
        linked : BOOLEAN,                    \* has a connection in its pool
        ready : BOOLEAN]                     \* what the last probe found

ASSUME RotationAssumption == MaxPw \in Nat /\ None \notin Pod

VARIABLES db, secret,      \* the role's password, and Secrets Manager's
          pods, rolling,   \* of the Deployment
          step,            \* of the playbook: the last task that was done
          hurt,    \* history: was a pod lost, or found unready, for another
                   \* reason than its password?
          refused  \* history: was an old password a pod's undoing, since a
                   \* pod with the current one was last found ready?

vars == <<db, secret, pods, rolling, step, hurt, refused>>

Running == {p \in Pods : pods[p] # None}
Serving == {p \in Running : pods[p].ready}

(* A pod serves, and nothing was ever rotated. *)
Init ==
    /\ db = 0 /\ secret = 0
    /\ \E p \in Pods :
          pods = [q \in Pods |->
                    IF q = p THEN [fresh |-> TRUE, file |-> 0, held |-> 0,
                                   linked |-> TRUE, ready |-> TRUE]
                             ELSE None]
    /\ rolling = FALSE
    /\ step = "idle"
    /\ hurt = FALSE /\ refused = FALSE
-----------------------------------------------------------------------------
(* The playbook *)

(* Mutant: the secret first, then the role. *)
StoreFirst ==
    /\ step \in {"idle", "done"} /\ db < MaxPw
    /\ secret' = db + 1
    /\ step' = "altered"
    /\ UNCHANGED <<db, pods, rolling, hurt, refused>>

(* psql runs in the pod of Postgres and needs no password. *)
AlterRole ==
    /\ step \in {"idle", "done"} /\ db < MaxPw
    /\ db' = db + 1
    /\ step' = "altered"
    /\ UNCHANGED <<secret, pods, rolling, hurt, refused>>

PutSecret ==
    /\ step = "altered"
    /\ secret' = db
    /\ step' = "stored"
    /\ UNCHANGED <<db, pods, rolling, hurt, refused>>

(* Mutant: the pods are left to notice. *)
RestartNothing ==
    /\ step = "stored"
    /\ step' = "restarted"
    /\ UNCHANGED <<db, secret, pods, rolling, hurt, refused>>

RestartDeployment ==
    /\ step = "stored"
    /\ pods' = [p \in Pods |-> IF p \in Running THEN [pods[p] EXCEPT !.fresh = FALSE]
                                                ELSE None]
    /\ rolling' = TRUE
    /\ step' = "restarted"
    /\ UNCHANGED <<db, secret, hurt, refused>>

AwaitRollout ==
    /\ step = "restarted" /\ ~ rolling
    /\ step' = "awaited"
    /\ UNCHANGED <<db, secret, pods, rolling, hurt, refused>>

(* Over a connection that it has and that is idle, or over a new one. *)
CanQuery(p) == pods[p].linked \/ pods[p].held = db

(* readyz through the Service: the answer of any pod that serves. *)
Confirm ==
    /\ step = "awaited"
    /\ \E p \in Serving :
          /\ CanQuery(p)
          /\ pods' = [pods EXCEPT ![p].linked = TRUE]
    /\ step' = "done"
    /\ UNCHANGED <<db, secret, rolling, hurt, refused>>

(* A task fails, or times out, or the operator stops it. *)
Fail ==
    /\ step \notin {"idle", "done"}
    /\ step' = "idle"
    /\ UNCHANGED <<db, secret, pods, rolling, hurt, refused>>
-----------------------------------------------------------------------------
(* The Deployment: maxSurge 1, maxUnavailable 0.  While a rollout is under  *)
(* way the old template may get its pod back as well as the new one its.    *)

Create(p) ==
    /\ p \notin Running
    /\ \A q, r \in Running : q = r
    /\ \E fresh \in {TRUE, ~ rolling} :
          /\ \A q \in Running : pods[q].fresh # fresh
          /\ pods' = [pods EXCEPT ![p] = [fresh |-> fresh, file |-> secret, held |-> NotRead,
                                          linked |-> FALSE, ready |-> FALSE]]
    /\ UNCHANGED <<db, secret, rolling, step, hurt, refused>>

(* Mutant: strategy Recreate. *)
RetireAtOnce(p) ==
    /\ rolling /\ p \in Running /\ ~ pods[p].fresh
    /\ pods' = [pods EXCEPT ![p] = None]
    /\ UNCHANGED <<db, secret, rolling, step, hurt, refused>>

Retire(p) ==
    /\ rolling /\ p \in Running /\ ~ pods[p].fresh
    /\ \/ Serving \ {p} # {}
       \/ p \notin Serving /\ \E q \in Running \ {p} : ~ pods[q].fresh
    /\ pods' = [pods EXCEPT ![p] = None]
    /\ UNCHANGED <<db, secret, rolling, step, hurt, refused>>

FinishRollout ==
    /\ rolling
    /\ Serving # {} /\ \A p \in Running : pods[p].fresh
    /\ rolling' = FALSE
    /\ UNCHANGED <<db, secret, pods, step, hurt, refused>>

(* The node goes away, with the pod. *)
Evict(p) ==
    /\ p \in Running
    /\ pods' = [pods EXCEPT ![p] = None]
    /\ hurt' = TRUE
    /\ UNCHANGED <<db, secret, rolling, step, refused>>
-----------------------------------------------------------------------------
(* A pod *)

(* Mutant: enableSecretRotation is off. *)
PollNever(p) ==
    /\ FALSE
    /\ UNCHANGED vars

Poll(p) ==
    /\ p \in Running
    /\ pods' = [pods EXCEPT ![p].file = secret]
    /\ UNCHANGED <<db, secret, rolling, step, hurt, refused>>

(* main reads DATABASE_URL_FILE and runs the migrations.  With a password   *)
(* Postgres refuses it exits, and the container is started again later.     *)
Boot(p) ==
    /\ p \in Running /\ pods[p].held = NotRead
    /\ pods[p].file = db
    /\ pods' = [pods EXCEPT ![p].held = pods[p].file, ![p].linked = TRUE]
    /\ UNCHANGED <<db, secret, rolling, step, hurt, refused>>

(* Mutant: readyz is up before main has read its password, and asks nothing. *)
ProbeBlindly(p) ==
    /\ p \in Running
    /\ pods' = [pods EXCEPT ![p].ready = TRUE]
    /\ UNCHANGED <<db, secret, rolling, step, hurt, refused>>

(* readyz: an idle connection of the pool, or a new one, which Postgres     *)
(* refuses a pod with an old password.  Ready is what the last answers came *)
(* to: it takes three refusals in a row to lose it, and one success to win  *)
(* it back.                                                                 *)
Probe(p) ==
    /\ p \in Running /\ pods[p].held # NotRead
    /\ \/ /\ CanQuery(p)
          /\ pods' = [pods EXCEPT ![p].linked = TRUE, ![p].ready = TRUE]
          /\ refused' = (refused /\ pods[p].held # db)
       \/ /\ pods[p].held # db
          /\ pods' = [pods EXCEPT ![p].ready = FALSE]
          /\ refused' = TRUE
    /\ UNCHANGED <<db, secret, rolling, step, hurt>>

(* readyz fails for another reason: Postgres or Redis is away, or all ten   *)
(* connections are taken for longer than its two seconds.                   *)
Starve(p) ==
    /\ p \in Serving
    /\ pods' = [pods EXCEPT ![p].ready = FALSE]
    /\ hurt' = TRUE
    /\ UNCHANGED <<db, secret, rolling, step, refused>>

(* The pool drops its last connection: MaxConnLifetime, MaxConnIdleTime, or *)
(* Postgres restarts.                                                       *)
Unlink(p) ==
    /\ p \in Running /\ pods[p].linked
    /\ pods' = [pods EXCEPT ![p].linked = FALSE]
    /\ UNCHANGED <<db, secret, rolling, step, hurt, refused>>

Crash(p) ==
    /\ p \in Running /\ pods[p].held # NotRead
    /\ pods' = [pods EXCEPT ![p].held = NotRead, ![p].linked = FALSE, ![p].ready = FALSE]
    /\ hurt' = TRUE
    /\ UNCHANGED <<db, secret, rolling, step, refused>>
-----------------------------------------------------------------------------
Playbook ==
    \/ AlterRole \/ PutSecret \/ RestartDeployment \/ AwaitRollout \/ Confirm
    \/ Fail

Cluster(p) ==
    \/ Create(p) \/ Retire(p) \/ Evict(p)
    \/ Poll(p) \/ Boot(p) \/ Probe(p) \/ Starve(p) \/ Unlink(p) \/ Crash(p)

Next == Playbook \/ FinishRollout \/ \E p \in Pods : Cluster(p)

Spec == Init /\ [][Next]_vars

(* The CSI driver polls, and the kubelet starts containers again. *)
FairSpec == Spec /\ \A p \in Pods : WF_vars(Poll(p)) /\ WF_vars(Boot(p))
-----------------------------------------------------------------------------
(* What the variables hold; a container that is not up has no connection    *)
(* and serves nobody.                                                       *)
TypeOK ==
    /\ db \in Pw /\ secret \in Pw
    /\ pods \in [Pods -> Pod \cup {None}]
    /\ rolling \in BOOLEAN /\ hurt \in BOOLEAN /\ refused \in BOOLEAN
    /\ step \in {"idle", "altered", "stored", "restarted", "awaited", "done"}
    /\ \A p \in Running :
          pods[p].held = NotRead => ~ pods[p].linked /\ ~ pods[p].ready

(* rotate-secrets.yml:82 "Doing 2 before 1 leaves the app holding a         *)
(* password the database has never heard of": in the order of the playbook  *)
(* no pod ever does, however often it fails and is run again.               *)
OnlyKnownPasswords ==
    \A p \in Running : /\ pods[p].file <= db
                       /\ pods[p].held # NotRead => pods[p].held <= db

(* When the playbook reports success, no pod is left with an older          *)
(* password, neither in its process nor in its file: losing its connections *)
(* can no longer take the application down.  readyz alone does not show     *)
(* this, because a pool with a live connection answers it as well.          *)
SuccessIsLasting ==
    step = "done" =>
        \A p \in Running : pods[p].file = db /\ pods[p].held \in {db, NotRead}

(* Unless a pod is lost or unready for a reason of its own, nobody serves   *)
(* only where a pod with an old password was refused a connection, and that *)
(* is over with the rollout that the playbook waits for: what it reports on *)
(* is an application that serves.  The rollout never takes the last pod     *)
(* that does, however often the playbook stopped before, and on whichever   *)
(* of the pods of earlier rollouts it falls.                                *)
KeepsServing ==
    ~ hurt => /\ Serving = {} => refused
              /\ step \in {"awaited", "done"} => Serving # {}

(* Whoever was caught by a rotation and restarts with the old password      *)
(* comes up without help, once role and secret agree for good.              *)
Down(p) == p \in Running /\ pods[p].held = NotRead

RestartsRecover ==
    <>[](secret = db) => \A p \in Pods : Down(p) ~> ~ Down(p)
-----------------------------------------------------------------------------
(* The inductive invariant: after the restart task every pod of the new     *)
(* template was made when role and secret agreed, and no other is left once *)
(* the rollout is over, which leaves one that serves.                       *)
PasswordsOK ==
    /\ secret <= db
    /\ step \in {"stored", "restarted", "awaited", "done"} => secret = db
    /\ step \in {"restarted", "awaited", "done"} =>
          \A p \in Running : pods[p].fresh =>
              pods[p].file = db /\ pods[p].held \in {db, NotRead}
    /\ ~ rolling => \A p \in Running : pods[p].fresh
    /\ step \in {"awaited", "done"} => ~ rolling

ServingOK ==
    ~ hurt /\ ~ rolling /\ step \in {"restarted", "awaited", "done"} => Serving # {}

IInv ==
    /\ TypeOK /\ OnlyKnownPasswords /\ PasswordsOK /\ ServingOK
    /\ SuccessIsLasting /\ KeepsServing
=============================================================================
