-------------------------------- MODULE Drain --------------------------------
(***************************************************************************)
(* How an api pod goes away.  SIGTERM starts two clocks that know nothing   *)
(* of each other: the load balancer's, which goes on sending requests until *)
(* it notices, and the kubelet's, which kills what is left at the end of    *)
(* the grace period.  In between, main sleeps, shuts the server down within *)
(* a budget, flushes the spans with what is left of that same budget, and   *)
(* runs its deferred calls, of which pool.Close waits for every connection  *)
(* a request still holds.                                                   *)
(*                                                                          *)
(* Time is counted in ticks since SIGTERM, and a tick is longer than the    *)
(* two seconds of the span batcher.  An action that the program takes       *)
(* without waiting happens before the next tick.                            *)
(***************************************************************************)
EXTENDS Naturals

CONSTANTS Requests,
          Deregister,    \* the load balancer has noticed by then
          PreStop,       \* PRESTOP_DELAY (5s)
          Budget,        \* the timeout of shutdownCtx (20s)
          WriteTimeout,  \* of http.Server (30s)
          Grace          \* terminationGracePeriodSeconds (40s)

ASSUME DrainAssumption ==
    /\ {Deregister, PreStop, Budget, WriteTimeout, Grace} \subseteq Nat
    /\ Deregister < PreStop
    /\ PreStop + Budget < Grace
    /\ 0 < Budget /\ Budget <= WriteTimeout

VARIABLES phase,       \* of main
          t, routed,   \* ticks since SIGTERM; does the load balancer send here?
          req, age,    \* per request: its state, and how long it has run
          holds,       \* requests that hold a connection of the pool
          span, killed

vars == <<phase, t, routed, req, age, holds, span, killed>>

Init ==
    /\ phase = "serving" /\ t = 0 /\ routed = TRUE
    /\ req = [r \in Requests |-> "none"]
    /\ age = [r \in Requests |-> 0]
    /\ holds = {}
    /\ span = [r \in Requests |-> "none"]
    /\ killed = FALSE

Listening == phase \in {"serving", "sleeping"}
Deadline  == PreStop + Budget
InFlight  == {r \in Requests : req[r] = "running"}
-----------------------------------------------------------------------------
(* Requests *)

Arrive(r) ==
    /\ routed /\ req[r] = "none"
    /\ req' = [req EXCEPT ![r] = IF Listening THEN "running" ELSE "refused"]
    /\ UNCHANGED <<phase, t, routed, age, holds, span, killed>>

(* A statement of Store takes a connection, and gives it back when its rows *)
(* are closed.  A closed pool hands out none: the handler answers 500.      *)
Acquire(r) ==
    /\ req[r] = "running" /\ r \notin holds
    /\ phase # "closing"
    /\ holds' = holds \cup {r}
    /\ UNCHANGED <<phase, t, routed, req, age, span, killed>>

Release(r) ==
    /\ r \in holds
    /\ holds' = holds \ {r}
    /\ UNCHANGED <<phase, t, routed, req, age, span, killed>>

(* Spans that end once the provider is shut down are dropped. *)
Record(r) ==
    span' = [span EXCEPT ![r] = IF phase = "closing" THEN "lost" ELSE "buffered"]

(* Mutant: the rows of a query are not closed. *)
AnswerRowsOpen(r) ==
    /\ req[r] = "running"
    /\ req' = [req EXCEPT ![r] = IF age[r] < WriteTimeout THEN "answered" ELSE "cut"]
    /\ Record(r)
    /\ UNCHANGED <<phase, t, routed, age, holds, killed>>

(* After WriteTimeout the handler still runs, but nobody reads its answer.  *)
Answer(r) ==
    /\ req[r] = "running" /\ r \notin holds
    /\ req' = [req EXCEPT ![r] = IF age[r] < WriteTimeout THEN "answered" ELSE "cut"]
    /\ Record(r)
    /\ UNCHANGED <<phase, t, routed, age, holds, killed>>

Exported == [r \in Requests |-> IF span[r] = "buffered" THEN "exported" ELSE span[r]]

(* The batcher, every two seconds and once more when it is stopped. *)
Export ==
    /\ phase # "gone"
    /\ span' = Exported
    /\ UNCHANGED <<phase, t, routed, req, age, holds, killed>>
-----------------------------------------------------------------------------
(* The load balancer and the kubelet *)

Terminate ==
    /\ phase = "serving"
    /\ phase' = "sleeping"
    /\ UNCHANGED <<t, routed, req, age, holds, span, killed>>

StopRouting ==
    /\ phase # "serving" /\ routed
    /\ routed' = FALSE
    /\ UNCHANGED <<phase, t, req, age, holds, span, killed>>

Vanish ==
    /\ phase' = "gone"
    /\ req' = [r \in Requests |-> IF r \in InFlight THEN "cut" ELSE req[r]]
    /\ span' = [r \in Requests |->
                  IF r \in InFlight \/ span[r] = "buffered" THEN "lost" ELSE span[r]]
    /\ holds' = {}
    /\ UNCHANGED <<t, routed, age>>

Kill ==
    /\ phase # "gone" /\ t = Grace
    /\ Vanish
    /\ killed' = TRUE
-----------------------------------------------------------------------------
(* main, after <-ctx.Done() *)

(* Mutant: no sleep. *)
CloseListenerAtOnce ==
    /\ phase = "sleeping"
    /\ phase' = "draining"
    /\ UNCHANGED <<t, routed, req, age, holds, span, killed>>

CloseListener ==
    /\ phase = "sleeping" /\ t = PreStop
    /\ phase' = "draining"
    /\ UNCHANGED <<t, routed, req, age, holds, span, killed>>

Drained ==
    /\ phase = "draining" /\ InFlight = {}
    /\ phase' = "flushing"
    /\ UNCHANGED <<t, routed, req, age, holds, span, killed>>

(* Mutant: srv.Close in the place of srv.Shutdown. *)
CloseServer ==
    /\ phase = "draining"
    /\ phase' = "flushing"
    /\ UNCHANGED <<t, routed, req, age, holds, span, killed>>

(* Shutdown gives up.  It closes no connection that has a request. *)
OutOfBudget ==
    /\ phase = "draining" /\ t = Deadline
    /\ phase' = "flushing"
    /\ UNCHANGED <<t, routed, req, age, holds, span, killed>>

(* Mutant: no flush. *)
CloseUnflushed ==
    /\ phase = "flushing"
    /\ phase' = "closing"
    /\ UNCHANGED <<t, routed, req, age, holds, span, killed>>

(* A context that is done already waits for nothing. *)
Flush ==
    /\ phase = "flushing"
    /\ span' = IF t < Deadline THEN Exported ELSE span
    /\ phase' = "closing"
    /\ UNCHANGED <<t, routed, req, age, holds, killed>>

Exit ==
    /\ phase = "closing" /\ holds = {}
    /\ Vanish
    /\ UNCHANGED killed

(* Ages are counted up to Grace: no bound depends on more. *)
Tick ==
    /\ phase = "sleeping" => t < PreStop
    /\ phase = "draining" => t < Deadline /\ InFlight # {}
    /\ phase = "closing" => t < Grace /\ holds # {}
    /\ phase \notin {"flushing", "gone"}
    /\ phase # "serving" /\ routed => t < Deregister
    /\ t' = IF phase = "serving" THEN 0 ELSE t + 1
    /\ age' = [r \in Requests |->
                 IF r \in InFlight /\ age[r] < Grace THEN age[r] + 1 ELSE age[r]]
    /\ span' = Exported
    /\ UNCHANGED <<phase, routed, req, holds, killed>>
-----------------------------------------------------------------------------
Handle(r) == Arrive(r) \/ Acquire(r) \/ Release(r) \/ Answer(r)

Shutdown ==
    CloseListener \/ Drained \/ OutOfBudget \/ Flush \/ Exit

Next ==
    \/ \E r \in Requests : Handle(r)
    \/ Export
    \/ Terminate \/ StopRouting \/ Kill
    \/ Shutdown
    \/ Tick

Spec == Init /\ [][Next]_vars
-----------------------------------------------------------------------------
(* What the variables hold; only a request that runs holds a connection. *)
TypeOK ==
    /\ phase \in {"serving", "sleeping", "draining", "flushing", "closing", "gone"}
    /\ t \in 0..Grace /\ routed \in BOOLEAN /\ killed \in BOOLEAN
    /\ req \in [Requests -> {"none", "running", "answered", "cut", "refused"}]
    /\ age \in [Requests -> 0..Grace]
    /\ holds \subseteq InFlight
    /\ span \in [Requests -> {"none", "buffered", "exported", "lost"}]

Ran(ticks) == \E r \in Requests : age[r] >= ticks

(* While the load balancer sends requests here, somebody listens: the sleep *)
(* covers the deregistration.  (main.go:95 "Skipping this causes 502s      *)
(* during every deploy".)                                                   *)
NoneRefused == \A r \in Requests : req[r] # "refused"

(* Whenever it arrived, a request shorter than the shutdown budget gets its *)
(* answer, whatever the others do.  (main.go:25 "everything below must      *)
(* finish inside that window or connections get cut mid-request".)          *)
ShortOnesAnswered == \A r \in Requests : req[r] = "cut" => age[r] >= Budget

(* The deferred pool.Close has no deadline, so the process can outlast its  *)
(* budget; but the kubelet only ever kills it because of a request that ran *)
(* for the grace period less the sleep, 35 of the 40 seconds.               *)
KilledOnlyByStragglers == killed => Ran(Grace - PreStop)

(* A pod without overlong requests takes no trace with it. *)
TracesLostOnlyToStragglers ==
    (\E r \in Requests : span[r] = "lost") => Ran(Budget)

(* main.go:98 "Flush buffered spans - otherwise the traces for the         *)
(* requests that were in flight during the incident are lost."              *)
TracesFlushed ==
    phase = "gone" /\ ~ killed =>
        \A r \in Requests : req[r] = "answered" => span[r] = "exported"
-----------------------------------------------------------------------------
(* The inductive invariant: the two clocks, and how the age of what is in   *)
(* flight follows from them.                                                *)
ClocksOK ==
    /\ phase = "serving" => t = 0
    /\ phase = "sleeping" => t <= PreStop
    /\ phase \in {"draining", "flushing"} => PreStop <= t /\ t <= Deadline
    /\ phase \in {"closing", "gone"} => PreStop <= t
    /\ routed => t <= Deregister
    /\ ~ Listening => \A r \in InFlight : age[r] + PreStop >= t
    /\ phase \in {"flushing", "closing"} /\ InFlight # {} => t >= Deadline

StragglersOK ==
    /\ phase \in {"draining", "flushing"} /\ t = Deadline => Ran(Budget)
    /\ t = Grace => Ran(Grace - PreStop)
    /\ phase = "closing" /\ (\E r \in Requests : span[r] = "buffered") => Ran(Budget)

IInv ==
    /\ TypeOK /\ ClocksOK /\ StragglersOK
    /\ NoneRefused /\ ShortOnesAnswered /\ KilledOnlyByStragglers
    /\ TracesLostOnlyToStragglers
=============================================================================
