---------------------------- MODULE RotationProofs ----------------------------
(* The rotation of the database password, for every set of pods and any     *)
(* number of passwords.                                                     *)
EXTENDS Rotation, TLAPS

LEMMA InitInv == Init => IInv
<1> SUFFICES ASSUME Init PROVE IInv
  OBVIOUS
<1>1. PICK p \in Pods :
         pods = [q \in Pods |->
                   IF q = p THEN [fresh |-> TRUE, file |-> 0, held |-> 0,
                                  linked |-> TRUE, ready |-> TRUE]
                            ELSE None]
  BY DEF Init
<1>2. [fresh |-> TRUE, file |-> 0, held |-> 0, linked |-> TRUE, ready |-> TRUE] \in Pod
  BY RotationAssumption DEF Pod, Pw
<1>3. Running = {p} /\ Serving = {p}
  BY <1>1, <1>2, RotationAssumption DEF Running, Serving
<1>4. TypeOK
  <2>1. pods \in [Pods -> Pod \cup {None}]
    BY <1>1, <1>2
  <2>2. 0 \in Pw /\ 0 # NotRead
    BY RotationAssumption DEF Pw, NotRead
  <2>3. \A q \in Running : pods[q].held # NotRead
    BY <1>1, <1>3, <2>2
  <2>4. QED
    BY <2>1, <2>2, <2>3 DEF Init, TypeOK
<1>5. OnlyKnownPasswords /\ PasswordsOK /\ ServingOK /\ SuccessIsLasting /\ KeepsServing
  BY <1>1, <1>3 DEF Init, OnlyKnownPasswords, PasswordsOK, ServingOK, SuccessIsLasting,
     KeepsServing
<1>6. QED
  BY <1>4, <1>5 DEF IInv

(* What a pod's record holds. *)
LEMMA PodFields ==
    ASSUME TypeOK, NEW p \in Running
    PROVE  /\ p \in Pods /\ pods[p] \in Pod /\ pods[p].file \in Nat
           /\ pods[p].held \in Nat /\ (pods[p].held # NotRead => pods[p].held \in Pw)
           /\ pods[p].fresh \in BOOLEAN
<1>1. p \in Pods /\ pods[p] \in Pod
  BY DEF TypeOK, Running
<1>2. QED
  BY <1>1, RotationAssumption DEF Pod, Pw, NotRead

(* No old pod is left after a success, so the passwords of the new template *)
(* are all there are.                                                       *)
LEMMA SuccessFromPasswords == PasswordsOK => SuccessIsLasting
BY DEF PasswordsOK, SuccessIsLasting

LEMMA AlterRoleInv == ASSUME IInv, AlterRole PROVE IInv'
<1>1. UNCHANGED pods /\ Running' = Running /\ Serving' = Serving
  BY DEF AlterRole, Running, Serving
<1>2. /\ db \in Nat /\ db < MaxPw /\ db' = db + 1 /\ secret' = secret
      /\ secret \in Nat /\ secret <= db /\ step' = "altered"
  BY RotationAssumption DEF AlterRole, IInv, TypeOK, PasswordsOK, Pw
<1>3. TypeOK'
  BY <1>1, <1>2, RotationAssumption DEF AlterRole, IInv, TypeOK, Pw
<1>4. OnlyKnownPasswords'
  <2> SUFFICES ASSUME NEW p \in Running
               PROVE  pods[p].file <= db + 1 /\ (pods[p].held # NotRead => pods[p].held <= db + 1)
    BY <1>1, <1>2 DEF OnlyKnownPasswords
  <2>1. pods[p].file \in Nat /\ pods[p].held \in Nat
    BY PodFields DEF IInv
  <2>2. QED
    BY <1>2, <2>1 DEF IInv, OnlyKnownPasswords
<1>5. PasswordsOK'
  BY <1>1, <1>2 DEF AlterRole, IInv, PasswordsOK
<1>6. ServingOK' /\ KeepsServing'
  BY <1>1, <1>2 DEF AlterRole, IInv, ServingOK, KeepsServing
<1>7. QED
  BY <1>3, <1>4, <1>5, <1>6, SuccessFromPasswords DEF IInv, PasswordsOK, SuccessIsLasting

LEMMA PutSecretInv == ASSUME IInv, PutSecret PROVE IInv'
<1>1. UNCHANGED pods /\ Running' = Running /\ Serving' = Serving
  BY DEF PutSecret, Running, Serving
<1>2. db' = db /\ secret' = db /\ db \in Nat /\ step' = "stored"
  BY RotationAssumption DEF PutSecret, IInv, TypeOK, Pw
<1>3. TypeOK'
  BY <1>1, <1>2 DEF PutSecret, IInv, TypeOK
<1>4. OnlyKnownPasswords' /\ ServingOK' /\ KeepsServing'
  BY <1>1, <1>2 DEF PutSecret, IInv, OnlyKnownPasswords, ServingOK, KeepsServing
<1>5. PasswordsOK'
  BY <1>1, <1>2 DEF PutSecret, IInv, PasswordsOK
<1>6. QED
  BY <1>2, <1>3, <1>4, <1>5 DEF IInv, SuccessIsLasting

(* The steps of the playbook that only wait or give up, and the end of a    *)
(* rollout, which waits until no pod is old and one serves.                 *)
LEMMA WaitInv == ASSUME IInv, AwaitRollout \/ Fail \/ FinishRollout PROVE IInv'
<1>1. UNCHANGED <<db, secret, pods, hurt, refused>> /\ Running' = Running /\ Serving' = Serving
  BY DEF AwaitRollout, Fail, FinishRollout, Running, Serving
<1>2. /\ rolling' \in BOOLEAN
      /\ step' \in {"idle", "altered", "stored", "restarted", "awaited", "done"}
  BY DEF AwaitRollout, Fail, FinishRollout, IInv, TypeOK
<1>3. TypeOK'
  BY <1>1, <1>2 DEF IInv, TypeOK
<1>4. OnlyKnownPasswords' /\ ServingOK' /\ KeepsServing'
  BY <1>1 DEF AwaitRollout, Fail, FinishRollout, IInv, OnlyKnownPasswords, ServingOK,
     KeepsServing
<1>5. PasswordsOK'
  BY <1>1 DEF AwaitRollout, Fail, FinishRollout, IInv, PasswordsOK
<1>6. SuccessIsLasting'
  BY <1>1 DEF AwaitRollout, Fail, FinishRollout, IInv, SuccessIsLasting
<1>7. QED
  BY <1>3, <1>4, <1>5, <1>6 DEF IInv

LEMMA RestartInv == ASSUME IInv, RestartDeployment PROVE IInv'
<1>1. \A p \in Pods : IF p \in Running THEN pods'[p] = [pods[p] EXCEPT !.fresh = FALSE]
                                       ELSE pods'[p] = None
  BY DEF RestartDeployment
<1>2. \A p \in Running : pods[p] \in Pod
  BY DEF IInv, TypeOK, Running
<1>3. \A p \in Running : /\ pods'[p] \in Pod /\ ~ pods'[p].fresh
                         /\ pods'[p].file = pods[p].file /\ pods'[p].held = pods[p].held
                         /\ pods'[p].linked = pods[p].linked /\ pods'[p].ready = pods[p].ready
  BY <1>1, <1>2 DEF Running, Pod
<1>4. Running' = Running
  BY <1>1, <1>3, RotationAssumption DEF Running
<1>5. Serving' = Serving
  BY <1>3, <1>4 DEF Serving
<1>6. TypeOK'
  BY <1>1, <1>3, <1>4 DEF RestartDeployment, IInv, TypeOK
<1>7. OnlyKnownPasswords' /\ SuccessIsLasting'
  BY <1>3, <1>4 DEF RestartDeployment, IInv, OnlyKnownPasswords, SuccessIsLasting
<1>8. PasswordsOK'
  BY <1>3, <1>4 DEF RestartDeployment, IInv, PasswordsOK
<1>9. ServingOK' /\ KeepsServing'
  BY <1>5 DEF RestartDeployment, IInv, ServingOK, KeepsServing
<1>10. QED
  BY <1>6, <1>7, <1>8, <1>9 DEF IInv

(* A step that gives one pod a new record keeps what IInv says of passwords *)
(* when the record itself conforms.                                         *)
LEMMA PodStep ==
    ASSUME IInv, NEW p \in Pods, NEW new \in Pod,
           pods' = [pods EXCEPT ![p] = new],
           UNCHANGED <<db, secret, rolling>>, hurt' \in BOOLEAN, refused' \in BOOLEAN,
           step' = step \/ (step = "awaited" /\ step' = "done"),
           new.held = NotRead => ~ new.linked /\ ~ new.ready,
           new.file <= db, new.held # NotRead => new.held <= db,
           step \in {"restarted", "awaited", "done"} /\ new.fresh =>
              new.file = db /\ new.held \in {db, NotRead},
           ~ rolling => new.fresh,
           KeepsServing', ServingOK'
    PROVE  IInv'
<1>1. /\ pods'[p] = new
      /\ \A q \in Pods : q # p => pods'[q] = pods[q]
  BY DEF IInv, TypeOK
<1>2. Running' = Running \cup {p} /\ \A q \in Running' : q # p => q \in Running
  BY <1>1, RotationAssumption DEF Running
<1>3. TypeOK'
  <2>1. pods' \in [Pods -> Pod \cup {None}]
    BY DEF IInv, TypeOK
  <2>2. \A q \in Running' : pods'[q].held = NotRead => ~ pods'[q].linked /\ ~ pods'[q].ready
    BY <1>1, <1>2 DEF IInv, TypeOK, Running
  <2>3. QED
    BY <2>1, <2>2 DEF IInv, TypeOK
<1>4. OnlyKnownPasswords'
  BY <1>1, <1>2 DEF IInv, OnlyKnownPasswords, Running
<1>5. PasswordsOK'
  BY <1>1, <1>2 DEF IInv, PasswordsOK, Running
<1>6. SuccessIsLasting'
  BY <1>5 DEF PasswordsOK, SuccessIsLasting
<1>7. QED
  BY <1>3, <1>4, <1>5, <1>6 DEF IInv

LEMMA RemoveStep ==
    ASSUME IInv, NEW p \in Pods, pods' = [pods EXCEPT ![p] = None],
           UNCHANGED <<db, secret, rolling, step, refused>>, hurt' \in BOOLEAN,
           KeepsServing', ServingOK'
    PROVE  IInv'
<1>1. Running' = Running \ {p} /\ \A q \in Running' : pods'[q] = pods[q]
  BY DEF IInv, TypeOK, Running
<1>2. TypeOK'
  <2>1. pods' \in [Pods -> Pod \cup {None}]
    BY DEF IInv, TypeOK
  <2>2. QED
    BY <1>1, <2>1 DEF IInv, TypeOK
<1>3. OnlyKnownPasswords'
  BY <1>1 DEF IInv, OnlyKnownPasswords
<1>4. PasswordsOK'
  BY <1>1 DEF IInv, PasswordsOK
<1>5. SuccessIsLasting'
  BY <1>4 DEF PasswordsOK, SuccessIsLasting
<1>6. QED
  BY <1>2, <1>3, <1>4, <1>5 DEF IInv

(* Whoever serves and is not touched still does, so serving lasts through a *)
(* step of one pod that either goes on serving or was not the only one.     *)
LEMMA OthersServe ==
    ASSUME IInv, NEW p \in Pods,
           \A q \in Pods : q # p => pods'[q] = pods[q],
           ~ hurt' => ~ hurt, refused' = refused, rolling' = rolling,
           step' = step \/ (step = "awaited" /\ step' = "done"),
           ~ hurt' /\ Serving # {} => Serving \ {p} # {} \/ p \in Serving'
    PROVE  KeepsServing' /\ ServingOK'
<1>1. ~ hurt' /\ Serving # {} => Serving' # {}
  <2> SUFFICES ASSUME ~ hurt', Serving # {} PROVE Serving' # {}
    OBVIOUS
  <2>1. CASE Serving \ {p} # {}
    <3>1. PICK q \in Serving : q # p
      BY <2>1
    <3>2. q \in Serving'
      BY <3>1 DEF Serving, Running
    <3>3. QED
      BY <3>2
  <2>2. QED
    BY <2>1
<1>2. QED
  BY <1>1 DEF IInv, KeepsServing, ServingOK

-----------------------------------------------------------------------------
LEMMA ConfirmInv == ASSUME IInv, Confirm PROVE IInv'
<1>1. PICK p \in Serving : pods' = [pods EXCEPT ![p].linked = TRUE]
  BY DEF Confirm
<1> DEFINE new == [pods[p] EXCEPT !.linked = TRUE]
<1>2. p \in Running /\ p \in Pods /\ pods[p] \in Pod /\ pods[p].ready
  BY <1>1, PodFields DEF IInv, Serving
<1>3. /\ pods' = [pods EXCEPT ![p] = new] /\ new \in Pod
      /\ new.file = pods[p].file /\ new.held = pods[p].held /\ new.fresh = pods[p].fresh
      /\ new.ready = pods[p].ready /\ new.linked = TRUE
  BY <1>1, <1>2 DEF Pod
<1> HIDE DEF new
<1>4. pods[p].held # NotRead
  BY <1>2 DEF IInv, TypeOK
<1>5. p \in Serving' /\ (\A q \in Pods : q # p => pods'[q] = pods[q])
  BY <1>2, <1>3, RotationAssumption DEF Serving, Running, IInv, TypeOK
<1>6. KeepsServing' /\ ServingOK'
  BY <1>2, <1>5, OthersServe DEF Confirm
<1>7. /\ new.file <= db /\ new.held <= db
      /\ step \in {"restarted", "awaited", "done"} /\ new.fresh =>
            new.file = db /\ new.held \in {db, NotRead}
      /\ ~ rolling => new.fresh
  BY <1>2, <1>3, <1>4 DEF IInv, OnlyKnownPasswords, PasswordsOK
<1>8. QED
  BY <1>2, <1>3, <1>4, <1>6, <1>7, PodStep DEF Confirm, IInv, TypeOK

LEMMA CreateInv == ASSUME IInv, NEW p \in Pods, Create(p) PROVE IInv'
<1>1. PICK fresh \in {TRUE, ~ rolling} :
         pods' = [pods EXCEPT ![p] = [fresh |-> fresh, file |-> secret, held |-> NotRead,
                                      linked |-> FALSE, ready |-> FALSE]]
  BY DEF Create
<1> DEFINE new == [fresh |-> fresh, file |-> secret, held |-> NotRead,
                   linked |-> FALSE, ready |-> FALSE]
<1>2. /\ pods' = [pods EXCEPT ![p] = new] /\ new \in Pod
      /\ new.file = secret /\ new.held = NotRead /\ ~ new.linked /\ ~ new.ready
      /\ (~ rolling => new.fresh)
  BY <1>1 DEF Pod, IInv, TypeOK
<1> HIDE DEF new
<1>3. /\ secret <= db
      /\ step \in {"restarted", "awaited", "done"} => secret = db
  BY DEF IInv, PasswordsOK
<1>4. KeepsServing' /\ ServingOK'
  <2>1. \A q \in Pods : q # p => pods'[q] = pods[q]
    BY <1>2 DEF IInv, TypeOK
  <2>2. p \notin Serving
    BY DEF Create, Serving
  <2>3. QED
    BY <2>1, <2>2, OthersServe DEF Create
<1>5. QED
  BY <1>2, <1>3, <1>4, PodStep DEF Create, IInv, TypeOK

LEMMA RetireInv == ASSUME IInv, NEW p \in Pods, Retire(p) PROVE IInv'
<1>1. pods' = [pods EXCEPT ![p] = None]
  BY DEF Retire
<1>2. \A q \in Pods : q # p => pods'[q] = pods[q]
  BY <1>1 DEF IInv, TypeOK
<1>3. Serving # {} => Serving \ {p} # {}
  BY DEF Retire
<1>4. KeepsServing' /\ ServingOK'
  BY <1>2, <1>3, OthersServe DEF Retire
<1>5. QED
  BY <1>1, <1>4, RemoveStep DEF Retire, IInv, TypeOK

LEMMA EvictInv == ASSUME IInv, NEW p \in Pods, Evict(p) PROVE IInv'
<1>1. KeepsServing' /\ ServingOK'
  BY DEF Evict, KeepsServing, ServingOK
<1>2. QED
  BY <1>1, RemoveStep DEF Evict

LEMMA PollInv == ASSUME IInv, NEW p \in Pods, Poll(p) PROVE IInv'
<1> DEFINE new == [pods[p] EXCEPT !.file = secret]
<1>1. p \in Running /\ pods[p] \in Pod
  BY PodFields DEF Poll, IInv
<1>2. /\ pods' = [pods EXCEPT ![p] = new] /\ new \in Pod
      /\ new.file = secret /\ new.held = pods[p].held /\ new.fresh = pods[p].fresh
      /\ new.ready = pods[p].ready /\ new.linked = pods[p].linked
  BY <1>1 DEF Poll, Pod, IInv, TypeOK
<1> HIDE DEF new
<1>3. /\ secret <= db
      /\ step \in {"restarted", "awaited", "done"} => secret = db
  BY DEF IInv, PasswordsOK
<1>4. new.held = NotRead => ~ new.linked /\ ~ new.ready
  BY <1>1, <1>2 DEF IInv, TypeOK
<1>5. KeepsServing' /\ ServingOK'
  <2>1. \A q \in Pods : q # p => pods'[q] = pods[q]
    BY <1>2 DEF IInv, TypeOK
  <2>2. p \in Serving => p \in Serving'
    BY <1>2, RotationAssumption DEF Serving, Running, IInv, TypeOK
  <2>3. QED
    BY <2>1, <2>2, OthersServe DEF Poll
<1>6. /\ new.held # NotRead => new.held <= db
      /\ step \in {"restarted", "awaited", "done"} /\ new.fresh =>
            new.file = db /\ new.held \in {db, NotRead}
      /\ ~ rolling => new.fresh
  BY <1>1, <1>2, <1>3 DEF IInv, OnlyKnownPasswords, PasswordsOK
<1>7. QED
  BY <1>2, <1>3, <1>4, <1>5, <1>6, PodStep DEF Poll, IInv, TypeOK

LEMMA BootInv == ASSUME IInv, NEW p \in Pods, Boot(p) PROVE IInv'
<1> DEFINE new == [pods[p] EXCEPT !.held = pods[p].file, !.linked = TRUE]
<1>1. p \in Running /\ pods[p] \in Pod /\ pods[p].file = db /\ db \in Pw /\ db # NotRead
  BY PodFields, RotationAssumption DEF Boot, IInv, TypeOK, Pw, NotRead
<1>2. /\ pods' = [pods EXCEPT ![p] = new] /\ new \in Pod
      /\ new.file = db /\ new.held = db /\ new.fresh = pods[p].fresh
      /\ new.ready = pods[p].ready /\ new.linked
  BY <1>1 DEF Boot, Pod
<1> HIDE DEF new
<1>3. ~ rolling => new.fresh
  BY <1>1, <1>2 DEF IInv, PasswordsOK
<1>4. KeepsServing' /\ ServingOK'
  <2>1. \A q \in Pods : q # p => pods'[q] = pods[q]
    BY <1>2 DEF IInv, TypeOK
  <2>2. p \notin Serving
    BY <1>1 DEF Boot, Serving, IInv, TypeOK
  <2>3. QED
    BY <2>1, <2>2, OthersServe DEF Boot
<1>5. new.file <= db /\ new.held <= db
  BY <1>1, <1>2, RotationAssumption DEF Pw
<1>6. /\ new.held = NotRead => ~ new.linked /\ ~ new.ready
      /\ new.file = db /\ new.held \in {db, NotRead}
  BY <1>1, <1>2
<1>7. UNCHANGED <<db, secret, rolling, step, hurt, refused>> /\ hurt \in BOOLEAN
      /\ refused \in BOOLEAN
  BY DEF Boot, IInv, TypeOK
<1>8. QED
  BY <1>2, <1>3, <1>4, <1>5, <1>6, <1>7, PodStep

(* A refusal after the rollout is not possible, since every pod then holds  *)
(* the password of the role; before, it is the excuse.                      *)
LEMMA ProbeInv == ASSUME IInv, NEW p \in Pods, Probe(p) PROVE IInv'
<1>1. p \in Running /\ pods[p] \in Pod /\ pods[p].held # NotRead
  BY PodFields DEF Probe, IInv
<1>2. PICK new \in Pod :
         /\ pods' = [pods EXCEPT ![p] = new]
         /\ new.file = pods[p].file /\ new.held = pods[p].held /\ new.fresh = pods[p].fresh
         /\ \/ new.ready /\ refused' = (refused /\ pods[p].held # db)
            \/ pods[p].held # db /\ ~ new.ready /\ refused' = TRUE
  <2>1. CASE /\ pods' = [pods EXCEPT ![p].linked = TRUE, ![p].ready = TRUE]
             /\ refused' = (refused /\ pods[p].held # db)
    <3> [pods[p] EXCEPT !.linked = TRUE, !.ready = TRUE] \in Pod
      BY <1>1 DEF Pod
    <3> WITNESS [pods[p] EXCEPT !.linked = TRUE, !.ready = TRUE] \in Pod
    <3> QED
      BY <1>1, <2>1 DEF Pod
  <2>2. CASE /\ pods[p].held # db
             /\ pods' = [pods EXCEPT ![p].ready = FALSE]
             /\ refused' = TRUE
    <3> [pods[p] EXCEPT !.ready = FALSE] \in Pod
      BY <1>1 DEF Pod
    <3> WITNESS [pods[p] EXCEPT !.ready = FALSE] \in Pod
    <3> QED
      BY <1>1, <2>2 DEF Pod
  <2>3. QED
    BY <2>1, <2>2 DEF Probe
<1>3. /\ new.file <= db /\ new.held <= db
      /\ step \in {"restarted", "awaited", "done"} /\ new.fresh =>
            new.file = db /\ new.held \in {db, NotRead}
      /\ ~ rolling => new.fresh
  BY <1>1, <1>2 DEF IInv, OnlyKnownPasswords, PasswordsOK
<1>4. /\ \A q \in Pods : q # p => pods'[q] = pods[q]
      /\ p \in Serving' <=> new.ready
  BY <1>2, RotationAssumption DEF Serving, Running, IInv, TypeOK
<1>5. KeepsServing' /\ ServingOK'
  <2>1. CASE new.ready
    BY <1>4, <2>1 DEF KeepsServing, ServingOK
  <2>2. CASE ~ new.ready
    <3>1. pods[p].held # db /\ refused'
      BY <1>2, <2>2
    <3>2. ~ (~ rolling /\ step \in {"restarted", "awaited", "done"})
      BY <1>1, <1>2, <1>3, <3>1
    <3>3. QED
      BY <3>1, <3>2 DEF Probe, IInv, PasswordsOK, KeepsServing, ServingOK
  <2>3. QED
    BY <2>1, <2>2, <1>2
<1>6. refused' \in BOOLEAN /\ hurt' \in BOOLEAN
  BY <1>2 DEF Probe, IInv, TypeOK
<1>7. QED
  BY <1>1, <1>2, <1>3, <1>5, <1>6, PodStep DEF Probe

(* Recycling takes connections, not passwords or what the last probe found. *)
LEMMA UnlinkInv == ASSUME IInv, NEW p \in Pods, Unlink(p) PROVE IInv'
<1> DEFINE new == [pods[p] EXCEPT !.linked = FALSE]
<1>1. p \in Running /\ pods[p] \in Pod
  BY PodFields DEF Unlink, IInv
<1>2. /\ pods' = [pods EXCEPT ![p] = new] /\ new \in Pod
      /\ new.file = pods[p].file /\ new.held = pods[p].held /\ new.fresh = pods[p].fresh
      /\ new.ready = pods[p].ready /\ ~ new.linked
  BY <1>1 DEF Unlink, Pod, IInv, TypeOK
<1> HIDE DEF new
<1>3. /\ new.held = NotRead => ~ new.ready
      /\ new.file <= db
      /\ new.held # NotRead => new.held <= db
      /\ step \in {"restarted", "awaited", "done"} /\ new.fresh =>
            new.file = db /\ new.held \in {db, NotRead}
      /\ ~ rolling => new.fresh
  BY <1>1, <1>2 DEF IInv, TypeOK, OnlyKnownPasswords, PasswordsOK
<1>4. KeepsServing' /\ ServingOK'
  <2>1. \A q \in Pods : q # p => pods'[q] = pods[q]
    BY <1>2 DEF IInv, TypeOK
  <2>2. p \in Serving => p \in Serving'
    BY <1>2, RotationAssumption DEF Serving, Running, IInv, TypeOK
  <2>3. QED
    BY <2>1, <2>2, OthersServe DEF Unlink
<1>5. QED
  BY <1>2, <1>3, <1>4, PodStep DEF Unlink, IInv, TypeOK

(* A lost container, or a pod unready for its own reason, makes the history *)
(* say so.                                                                  *)
LEMMA LossInv == ASSUME IInv, NEW p \in Pods, Starve(p) \/ Crash(p) PROVE IInv'
<1>1. p \in Running /\ pods[p] \in Pod
  BY PodFields DEF Starve, Crash, IInv, Serving
<1>2. PICK new \in Pod :
         /\ pods' = [pods EXCEPT ![p] = new]
         /\ new.file = pods[p].file /\ new.fresh = pods[p].fresh /\ ~ new.ready
         /\ \/ new.held = pods[p].held /\ new.linked = pods[p].linked
            \/ new.held = NotRead /\ ~ new.linked
  <2>1. CASE Starve(p)
    <3> [pods[p] EXCEPT !.ready = FALSE] \in Pod
      BY <1>1 DEF Pod
    <3> WITNESS [pods[p] EXCEPT !.ready = FALSE] \in Pod
    <3> QED
      BY <1>1, <2>1 DEF Starve, Pod
  <2>2. CASE Crash(p)
    <3> [pods[p] EXCEPT !.held = NotRead, !.linked = FALSE, !.ready = FALSE] \in Pod
      BY <1>1 DEF Pod
    <3> WITNESS [pods[p] EXCEPT !.held = NotRead, !.linked = FALSE, !.ready = FALSE] \in Pod
    <3> QED
      BY <1>1, <2>2 DEF Crash, Pod
  <2>3. QED
    BY <2>1, <2>2
<1>3. /\ new.held = NotRead => ~ new.linked /\ ~ new.ready
      /\ new.file <= db
      /\ new.held # NotRead => new.held <= db
      /\ step \in {"restarted", "awaited", "done"} /\ new.fresh =>
            new.file = db /\ new.held \in {db, NotRead}
      /\ ~ rolling => new.fresh
  BY <1>1, <1>2 DEF IInv, TypeOK, OnlyKnownPasswords, PasswordsOK
<1>4. KeepsServing' /\ ServingOK'
  BY DEF Starve, Crash, KeepsServing, ServingOK
<1>5. /\ UNCHANGED <<db, secret, rolling, step, refused>>
      /\ hurt' \in BOOLEAN /\ refused' \in BOOLEAN
  BY DEF Starve, Crash, IInv, TypeOK
<1>6. QED
  BY <1>2, <1>3, <1>4, <1>5, PodStep

LEMMA NextInv == IInv /\ [Next]_vars => IInv'
<1> SUFFICES ASSUME IInv, [Next]_vars PROVE IInv'
  OBVIOUS
<1>1. CASE Playbook
  BY <1>1, AlterRoleInv, PutSecretInv, RestartInv, WaitInv, ConfirmInv DEF Playbook
<1>2. CASE FinishRollout
  BY <1>2, WaitInv
<1>3. ASSUME NEW p \in Pods, Cluster(p) PROVE IInv'
  BY <1>3, CreateInv, RetireInv, EvictInv, PollInv, BootInv, ProbeInv,
     UnlinkInv, LossInv DEF Cluster
<1>4. CASE UNCHANGED vars
  BY <1>4 DEF vars, IInv, TypeOK, OnlyKnownPasswords, PasswordsOK, ServingOK,
     SuccessIsLasting, KeepsServing, Running, Serving
<1>5. QED
  BY <1>1, <1>2, <1>3, <1>4 DEF Next

THEOREM RotationInvariance == Spec => []IInv
<1>1. QED
  BY InitInv, NextInv, PTL DEF Spec
-----------------------------------------------------------------------------
(* However often the playbook fails between two of its tasks and is run     *)
(* again, no pod reads a password that Postgres has never heard of.         *)
THEOREM PasswordsStayKnown == Spec => []OnlyKnownPasswords
<1>1. IInv => OnlyKnownPasswords
  BY DEF IInv
<1>2. QED
  BY <1>1, RotationInvariance, PTL

(* After "Rotation complete" no pod holds, or has mounted, an old password. *)
THEOREM SuccessLasts == Spec => []SuccessIsLasting
<1>1. IInv => SuccessIsLasting
  BY DEF IInv
<1>2. QED
  BY <1>1, RotationInvariance, PTL

(* Without losses of another kind, only a refused connection of a pod with  *)
(* an old password leaves nobody to serve, and never once the rollout that  *)
(* the playbook waits for is over.                                          *)
THEOREM RotationKeepsServing == Spec => []KeepsServing
<1>1. IInv => KeepsServing
  BY DEF IInv
<1>2. QED
  BY <1>1, RotationInvariance, PTL

(* Pods, templates and the playbook's place keep their types through        *)
(* failures, rollouts and evictions.                                        *)
THEOREM RotationTypes == Spec => []TypeOK
<1>1. IInv => TypeOK
  BY DEF IInv
<1>2. QED
  BY <1>1, RotationInvariance, PTL
=============================================================================
