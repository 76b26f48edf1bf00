----------------------------- MODULE Staleness -----------------------------
(***************************************************************************)
(* How old can a timeline answer be?  One user's key with its clock: every  *)
(* change the invalidation paths do not reach (someone else's deletes and   *)
(* likes, a lost fan-out) leaves the entry to its TTL.  Ages are counted in *)
(* ticks; a value is stale from the tick at which the database moved on.    *)
(***************************************************************************)
EXTENDS Naturals

CONSTANTS Readers,    \* timeline requests of this user, one at a time each
          TTL,        \* timelineCacheTTL (30s)
          MaxDelay,   \* the longest a request takes from its query to its SET
          None

(* stale is 0 while the value is current, and then the ticks since it was   *)
(* superseded; `current' tells the two apart at the tick of the change.     *)
Value == [current : BOOLEAN, stale : 0..(TTL + MaxDelay)]
Fresh == [current |-> TRUE, stale |-> 0]

ASSUME StalenessAssumption ==
    TTL \in Nat \ {0} /\ MaxDelay \in Nat /\ None \notin Value

VARIABLES entry, left,  \* the cached value or None, and its remaining TTL
          held, age     \* per reader: the value it read, and how long ago

vars == <<entry, left, held, age>>

Init ==
    /\ entry = None /\ left = 0
    /\ held = [r \in Readers |-> None]
    /\ age = [r \in Readers |-> 0]

Supersede(v) == IF v = None THEN None ELSE [v EXCEPT !.current = FALSE]

(* A commit that changes what the user's query returns. *)
Change ==
    /\ entry' = Supersede(entry)
    /\ held' = [r \in Readers |-> Supersede(held[r])]
    /\ UNCHANGED <<left, age>>

(* Store.Timeline after a miss, or after a GET that failed. *)
Query(r) ==
    /\ held[r] = None
    /\ held' = [held EXCEPT ![r] = Fresh]
    /\ age' = [age EXCEPT ![r] = 0]
    /\ UNCHANGED <<entry, left>>

(* SET timeline:<id> EX 30: whatever is there is replaced. *)
PutTimeline(r) ==
    /\ held[r] # None
    /\ entry' = held[r]
    /\ left' = TTL
    /\ held' = [held EXCEPT ![r] = None]
    /\ age' = [age EXCEPT ![r] = 0]

(* The SET fails. *)
PutFails(r) ==
    /\ held[r] # None
    /\ held' = [held EXCEPT ![r] = None]
    /\ age' = [age EXCEPT ![r] = 0]
    /\ UNCHANGED <<entry, left>>

(* DEL, eviction, or the end of the TTL. *)
Drop ==
    /\ entry # None
    /\ entry' = None /\ left' = 0
    /\ UNCHANGED <<held, age>>

Older(v) == IF v = None \/ v = Fresh THEN v ELSE [v EXCEPT !.stale = @ + 1]

(* Mutants: a SET without EX, and ages that run on while nothing is held. *)
TickForever ==
    /\ \A r \in Readers : held[r] # None => age[r] < MaxDelay
    /\ entry' = Older(entry)
    /\ held' = [r \in Readers |-> Older(held[r])]
    /\ age' = [r \in Readers |-> IF held[r] = None THEN 0 ELSE age[r] + 1]
    /\ UNCHANGED left

TickAll ==
    /\ entry # None => left > 0
    /\ \A r \in Readers : held[r] # None => age[r] < MaxDelay
    /\ entry' = Older(entry)
    /\ left' = IF entry = None THEN 0 ELSE left - 1
    /\ held' = [r \in Readers |-> Older(held[r])]
    /\ age' = [r \in Readers |-> age[r] + 1]

(* Redis never answers from a key whose TTL is spent; a request that is not *)
(* done within MaxDelay is outside what this module speaks of.              *)
Tick ==
    /\ entry # None => left > 0
    /\ \A r \in Readers : held[r] # None => age[r] < MaxDelay
    /\ entry' = Older(entry)
    /\ left' = IF entry = None THEN 0 ELSE left - 1
    /\ held' = [r \in Readers |-> Older(held[r])]
    /\ age' = [r \in Readers |-> IF held[r] = None THEN 0 ELSE age[r] + 1]

Next ==
    \/ Change \/ Drop \/ Tick
    \/ \E r \in Readers : Query(r) \/ PutTimeline(r) \/ PutFails(r)

Spec == Init /\ [][Next]_vars
-----------------------------------------------------------------------------
(* What the variables hold. *)
TypeOK ==
    /\ entry \in Value \cup {None} /\ left \in 0..TTL
    /\ held \in [Readers -> Value \cup {None}]
    /\ age \in [Readers -> 0..MaxDelay]

(* What a hit answers was the database's answer at most TTL + MaxDelay ago: *)
(* the 30 seconds of handlers.go:222 count from the SET, not from the read. *)
BoundedStaleness == entry # None => entry.stale <= TTL + MaxDelay - left

(* Inductive: a page in a request's hands is no staler than its read is old *)
HeldNoStalerThanRead == \A r \in Readers : held[r] # None => held[r].stale <= age[r]

IInv == TypeOK /\ BoundedStaleness /\ HeldNoStalerThanRead
============================================================================
