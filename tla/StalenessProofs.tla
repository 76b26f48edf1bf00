-------------------------- MODULE StalenessProofs --------------------------
(* The bound of Staleness for every TTL, delay and set of requests. *)
EXTENDS Staleness, TLAPS

LEMMA SupersedeKeeps ==
    ASSUME NEW v \in Value \cup {None}
    PROVE  /\ Supersede(v) \in Value \cup {None}
           /\ Supersede(v) = None <=> v = None
           /\ v # None => Supersede(v).stale = v.stale
<1>1. ASSUME v \in Value
      PROVE  [v EXCEPT !.current = FALSE] \in Value /\ [v EXCEPT !.current = FALSE].stale = v.stale
  BY <1>1 DEF Value
<1>2. QED
  BY <1>1, StalenessAssumption DEF Supersede

LEMMA OlderByOne ==
    ASSUME NEW v \in Value \cup {None}, v # None => v.stale < TTL + MaxDelay
    PROVE  /\ Older(v) \in Value \cup {None}
           /\ Older(v) = None <=> v = None
           /\ v # None => Older(v).stale <= v.stale + 1
<1>1. ASSUME v \in Value, v.stale < TTL + MaxDelay
      PROVE  /\ [v EXCEPT !.stale = @ + 1] \in Value
             /\ [v EXCEPT !.stale = @ + 1].stale = v.stale + 1
             /\ v.stale <= v.stale + 1
  BY <1>1, StalenessAssumption DEF Value
<1>2. CASE v = None
  BY <1>2 DEF Older
<1>3. CASE v \in Value
  <2>1. v # None /\ v.stale < TTL + MaxDelay
    BY <1>3, StalenessAssumption
  <2>2. CASE v = Fresh
    <3>1. Older(v) = v
      BY <2>2 DEF Older
    <3>2. v.stale <= v.stale + 1
      BY <1>1, <1>3, <2>1
    <3>3. QED
      BY <1>3, <2>1, <3>1, <3>2
  <2>3. CASE v # Fresh
    <3>1. Older(v) = [v EXCEPT !.stale = @ + 1]
      BY <2>1, <2>3 DEF Older
    <3>2. /\ Older(v) \in Value
          /\ Older(v).stale = v.stale + 1 /\ v.stale <= v.stale + 1
      BY <1>1, <1>3, <2>1, <3>1
    <3>3. Older(v).stale <= v.stale + 1
      BY <1>3, <3>2, StalenessAssumption DEF Value
    <3>4. QED
      BY <2>1, <3>2, <3>3, StalenessAssumption
  <2>4. QED
    BY <2>2, <2>3
<1>4. QED
  BY <1>2, <1>3

LEMMA InitInv == Init => IInv
BY StalenessAssumption DEF Init, IInv, TypeOK, BoundedStaleness, HeldNoStalerThanRead

LEMMA NextInv == IInv /\ [Next]_vars => IInv'
<1> SUFFICES ASSUME IInv, [Next]_vars PROVE IInv'
    OBVIOUS
<1> USE StalenessAssumption DEF IInv, TypeOK, BoundedStaleness, HeldNoStalerThanRead
<1>1. CASE Change
  <2>1. /\ entry' \in Value \cup {None} /\ (entry' = None <=> entry = None)
        /\ entry # None => entry'.stale = entry.stale
    BY <1>1, SupersedeKeeps DEF Change
  <2>2. \A r \in Readers : /\ held'[r] \in Value \cup {None} /\ (held'[r] = None <=> held[r] = None)
                           /\ held[r] # None => held'[r].stale = held[r].stale
    BY <1>1, SupersedeKeeps DEF Change
  <2>3. held' \in [Readers -> Value \cup {None}]
    BY <1>1, <2>2 DEF Change
  <2>4. QED
    BY <1>1, <2>1, <2>2, <2>3 DEF Change
<1>2. ASSUME NEW r \in Readers, Query(r) PROVE IInv'
  <2>1. Fresh \in Value /\ Fresh.stale = 0
    BY DEF Fresh, Value
  <2>2. QED
    BY <1>2, <2>1 DEF Query
<1>3. ASSUME NEW r \in Readers, PutTimeline(r) PROVE IInv'
  <2>1. held[r].stale \in Nat /\ held[r].stale <= age[r] /\ age[r] \in 0..MaxDelay
    BY <1>3 DEF PutTimeline, Value
  <2>2. entry'.stale <= TTL + MaxDelay - left'
    BY <1>3, <2>1 DEF PutTimeline
  <2>3. TypeOK' /\ HeldNoStalerThanRead'
    BY <1>3 DEF PutTimeline
  <2>4. QED
    BY <2>2, <2>3
<1>4. ASSUME NEW r \in Readers, PutFails(r) PROVE IInv'
  BY <1>4 DEF PutFails
<1>5. CASE Drop
  BY <1>5 DEF Drop
<1>6. CASE Tick
  <2>1. entry # None => entry.stale \in Nat /\ left \in Nat /\ left > 0
                        /\ entry.stale <= TTL + MaxDelay - left
    BY <1>6 DEF Tick, Value
  <2>2. /\ entry' \in Value \cup {None} /\ (entry' = None <=> entry = None)
        /\ entry # None => entry'.stale <= entry.stale + 1
    <3>1. entry # None => entry.stale < TTL + MaxDelay
      BY <2>1
    <3>2. QED
      BY <1>6, <3>1, OlderByOne DEF Tick
  <2>3. BoundedStaleness' /\ left' \in 0..TTL
    <3>1. entry # None => entry'.stale \in Nat
      BY <2>2 DEF Value
    <3>2. QED
      BY <1>6, <2>1, <2>2, <3>1 DEF Tick
  <2>4. ASSUME NEW r \in Readers
        PROVE  /\ held'[r] \in Value \cup {None} /\ age'[r] \in 0..MaxDelay
               /\ held'[r] # None => held'[r].stale <= age'[r]
    <3>1. held[r] # None => /\ held[r].stale \in Nat /\ held[r].stale <= age[r]
                            /\ age[r] \in Nat /\ age[r] < MaxDelay
      BY <1>6 DEF Tick, Value
    <3>2. held[r] # None => held[r].stale < TTL + MaxDelay
      BY <3>1
    <3>3. /\ held'[r] \in Value \cup {None} /\ (held'[r] = None <=> held[r] = None)
          /\ held[r] # None => held'[r].stale <= held[r].stale + 1
      BY <1>6, <3>2, OlderByOne DEF Tick
    <3>4. held'[r] # None => held'[r].stale \in Nat
      BY <3>3 DEF Value
    <3>5. age'[r] = IF held[r] = None THEN 0 ELSE age[r] + 1
      BY <1>6 DEF Tick
    <3>6. QED
      BY <3>1, <3>3, <3>4, <3>5
  <2>5. held' \in [Readers -> Value \cup {None}] /\ age' \in [Readers -> 0..MaxDelay]
    BY <1>6, <2>4 DEF Tick
  <2>6. QED
    BY <2>2, <2>3, <2>4, <2>5
<1>7. CASE UNCHANGED vars
  BY <1>7 DEF vars
<1>8. QED
  BY <1>1, <1>2, <1>3, <1>4, <1>5, <1>6, <1>7 DEF Next

(* No hit answers with what the database stopped saying more than the TTL   *)
(* and the longest request ago, for every TTL and every such delay.         *)
THEOREM StalenessIsBounded == Spec => []BoundedStaleness
<1>1. IInv => BoundedStaleness
  BY DEF IInv
<1>2. QED
  BY InitInv, NextInv, <1>1, PTL DEF Spec

(* Entries and pages carry their ages as numbers, and no reader holds a page *)
(* longer than MaxDelay.                                                    *)
THEOREM StalenessTypes == Spec => []TypeOK
<1>1. IInv => TypeOK
  BY DEF IInv
<1>2. QED
  BY InitInv, NextInv, <1>1, PTL DEF Spec
=============================================================================
