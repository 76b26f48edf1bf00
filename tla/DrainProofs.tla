----------------------------- MODULE DrainProofs -----------------------------
(* The shutdown of an api pod, for every set of requests and every choice   *)
(* of the five durations that DrainAssumption allows.                       *)
EXTENDS Drain, TLAPS

(* The durations, as numbers. *)
LEMMA Durations ==
    /\ Deregister \in Nat /\ PreStop \in Nat /\ Budget \in Nat
    /\ WriteTimeout \in Nat /\ Grace \in Nat
    /\ Deregister < PreStop /\ Deadline < Grace
    /\ 0 < Budget /\ Budget <= WriteTimeout
    /\ Deadline = PreStop + Budget /\ Budget <= Grace - PreStop
BY DrainAssumption DEF Deadline

LEMMA InitInv == Init => IInv
<1> SUFFICES ASSUME Init PROVE IInv
  OBVIOUS
<1>1. InFlight = {}
  BY DEF Init, InFlight
<1>2. ~ \E r \in Requests : span[r] = "lost"
  BY DEF Init
<1>3. TypeOK
  <2>1. 0 \in 0..Grace
    BY Durations
  <2>2. age \in [Requests -> 0..Grace]
    BY <2>1 DEF Init
  <2>3. QED
    BY <1>1, <2>1, <2>2 DEF Init, TypeOK
<1>4. ClocksOK
  BY <1>1, Durations DEF Init, ClocksOK, Listening
<1>5. StragglersOK
  BY Durations DEF Init, StragglersOK
<1>6. QED
  BY <1>2, <1>3, <1>4, <1>5 DEF Init, IInv, NoneRefused, ShortOnesAnswered,
     KilledOnlyByStragglers, TracesLostOnlyToStragglers

(* A step that leaves clocks, phase and ages alone keeps what IInv says of  *)
(* them, if it starts or ends requests rightly.                             *)
LEMMA RequestStep ==
    ASSUME IInv, UNCHANGED <<phase, t, routed, age, killed>>,
           TypeOK', NoneRefused', ShortOnesAnswered',
           TracesLostOnlyToStragglers',
           InFlight' \subseteq InFlight \/ Listening,
           phase = "closing" =>
              \A r \in Requests : span'[r] = "buffered" => span[r] = "buffered"
    PROVE  IInv'
<1>1. \A ticks : Ran(ticks)' <=> Ran(ticks)
  BY DEF Ran
<1>2. ClocksOK'
  BY DEF IInv, ClocksOK, Listening
<1>3. StragglersOK'
  BY <1>1 DEF IInv, StragglersOK
<1>4. KilledOnlyByStragglers'
  BY <1>1 DEF IInv, KilledOnlyByStragglers
<1>5. QED
  BY <1>2, <1>3, <1>4 DEF IInv

LEMMA ArriveInv == ASSUME IInv, NEW r \in Requests, Arrive(r) PROVE IInv'
<1>1. Listening
  BY Durations DEF Arrive, IInv, TypeOK, ClocksOK, Listening
<1>2. req' = [req EXCEPT ![r] = "running"] /\ req[r] = "none"
  BY <1>1 DEF Arrive
<1>3. TypeOK'
  BY <1>2 DEF Arrive, IInv, TypeOK, InFlight
<1>4. NoneRefused' /\ ShortOnesAnswered' /\ TracesLostOnlyToStragglers'
  BY <1>2 DEF Arrive, IInv, TypeOK, NoneRefused, ShortOnesAnswered,
     TracesLostOnlyToStragglers, Ran
<1>5. QED
  BY <1>1, <1>3, <1>4, RequestStep DEF Arrive

LEMMA ConnectionInv ==
    ASSUME IInv, NEW r \in Requests, Acquire(r) \/ Release(r) PROVE IInv'
<1>1. UNCHANGED <<phase, t, routed, req, age, span, killed>>
  BY DEF Acquire, Release
<1>2. holds' \subseteq InFlight
  BY DEF Acquire, Release, IInv, TypeOK, InFlight
<1>3. InFlight' = InFlight
  BY <1>1 DEF InFlight
<1>4. TypeOK'
  BY <1>1, <1>2, <1>3 DEF IInv, TypeOK
<1>5. NoneRefused' /\ ShortOnesAnswered' /\ TracesLostOnlyToStragglers'
  BY <1>1 DEF IInv, NoneRefused, ShortOnesAnswered, TracesLostOnlyToStragglers, Ran
<1>6. QED
  BY <1>1, <1>3, <1>4, <1>5, RequestStep

LEMMA AnswerInv == ASSUME IInv, NEW r \in Requests, Answer(r) PROVE IInv'
<1>1. r \in InFlight /\ InFlight' = InFlight \ {r}
  BY DEF Answer, IInv, TypeOK, InFlight
<1>2. age[r] \in Nat
  BY Durations DEF IInv, TypeOK
<1>3. TypeOK'
  BY <1>1 DEF Answer, Record, IInv, TypeOK
<1>4. NoneRefused' /\ ShortOnesAnswered'
  BY <1>2, Durations DEF Answer, IInv, TypeOK, NoneRefused, ShortOnesAnswered
<1>5. phase = "closing" => age[r] >= Budget
  BY <1>1, <1>2, Durations DEF IInv, TypeOK, ClocksOK, Listening
<1>6. TracesLostOnlyToStragglers'
  BY <1>5 DEF Answer, Record, IInv, TypeOK, TracesLostOnlyToStragglers, Ran
<1>7. phase = "closing" =>
         \A s \in Requests : span'[s] = "buffered" => span[s] = "buffered"
  BY DEF Answer, Record, IInv, TypeOK
<1>8. QED
  BY <1>1, <1>3, <1>4, <1>6, <1>7, RequestStep DEF Answer

LEMMA ExportInv == ASSUME IInv, Export PROVE IInv'
<1>1. \A r \in Requests : /\ span'[r] # "buffered"
                          /\ span'[r] = "lost" => span[r] = "lost"
  BY DEF Export, Exported
<1>2. InFlight' = InFlight
  BY DEF Export, InFlight
<1>3. TypeOK'
  BY <1>2 DEF Export, Exported, IInv, TypeOK
<1>4. NoneRefused' /\ ShortOnesAnswered' /\ TracesLostOnlyToStragglers'
  BY <1>1 DEF Export, IInv, NoneRefused, ShortOnesAnswered, TracesLostOnlyToStragglers, Ran
<1>5. QED
  BY <1>1, <1>2, <1>3, <1>4, RequestStep DEF Export

(* A step of main, the load balancer or the clock that touches no request.  *)
LEMMA ControlStep ==
    ASSUME IInv, UNCHANGED <<req, age, holds, span, killed>>,
           TypeOK', ClocksOK', StragglersOK'
    PROVE  IInv'
BY DEF IInv, NoneRefused, ShortOnesAnswered, KilledOnlyByStragglers,
       TracesLostOnlyToStragglers, Ran

LEMMA EnvironmentInv == ASSUME IInv, Terminate \/ StopRouting PROVE IInv'
<1>1. UNCHANGED <<t, req, age, holds, span, killed>> /\ InFlight' = InFlight
  BY DEF Terminate, StopRouting, InFlight
<1>2. \A ticks : Ran(ticks)' <=> Ran(ticks)
  BY <1>1 DEF Ran
<1>3. TypeOK'
  BY <1>1 DEF Terminate, StopRouting, IInv, TypeOK
<1>4. ClocksOK'
  BY <1>1, Durations DEF Terminate, StopRouting, IInv, TypeOK, ClocksOK, Listening
<1>5. StragglersOK'
  BY <1>1, <1>2 DEF Terminate, StopRouting, IInv, StragglersOK
<1>6. QED
  BY <1>1, <1>3, <1>4, <1>5, ControlStep

LEMMA ShutdownInv ==
    ASSUME IInv, CloseListener \/ Drained \/ OutOfBudget PROVE IInv'
<1>1. UNCHANGED <<t, routed, req, age, holds, span, killed>> /\ InFlight' = InFlight
  BY DEF CloseListener, Drained, OutOfBudget, InFlight
<1>2. \A ticks : Ran(ticks)' <=> Ran(ticks)
  BY <1>1 DEF Ran
<1>3. TypeOK'
  BY <1>1 DEF CloseListener, Drained, OutOfBudget, IInv, TypeOK
<1>4. \A r \in InFlight : age[r] \in Nat
  BY Durations DEF IInv, TypeOK, InFlight
<1>5. ClocksOK'
  BY <1>1, <1>4, Durations
     DEF CloseListener, Drained, OutOfBudget, IInv, TypeOK, ClocksOK, Listening
<1>6. StragglersOK'
  <2>1. CASE CloseListener
    <3>1. t # Deadline /\ t # Grace
      BY <2>1, Durations DEF CloseListener
    <3>2. QED
      BY <1>1, <1>2, <2>1, <3>1 DEF CloseListener, IInv, StragglersOK
  <2>2. CASE Drained \/ OutOfBudget
    BY <1>1, <1>2, <2>2 DEF Drained, OutOfBudget, IInv, StragglersOK
  <2>3. QED
    BY <2>1, <2>2
<1>7. QED
  BY <1>1, <1>3, <1>5, <1>6, ControlStep

LEMMA FlushInv == ASSUME IInv, Flush PROVE IInv'
<1>1. UNCHANGED <<t, routed, req, age, holds, killed>> /\ InFlight' = InFlight
  BY DEF Flush, InFlight
<1>2. \A ticks : Ran(ticks)' <=> Ran(ticks)
  BY <1>1 DEF Ran
<1>3. /\ \A r \in Requests : span'[r] = "lost" => span[r] = "lost"
      /\ span' \in [Requests -> {"none", "buffered", "exported", "lost"}]
      /\ t < Deadline => \A r \in Requests : span'[r] # "buffered"
  BY DEF Flush, Exported, IInv, TypeOK
<1>4. TypeOK'
  BY <1>1, <1>3 DEF Flush, IInv, TypeOK
<1>5. ClocksOK'
  BY <1>1 DEF Flush, IInv, ClocksOK, Listening
<1>6. t \in Nat /\ (t < Deadline \/ t = Deadline)
  BY Durations DEF Flush, IInv, TypeOK, ClocksOK
<1>7. StragglersOK'
  BY <1>1, <1>2, <1>3, <1>6 DEF Flush, IInv, StragglersOK
<1>8. QED
  BY <1>1, <1>2, <1>3, <1>4, <1>5, <1>7
     DEF IInv, NoneRefused, ShortOnesAnswered, KilledOnlyByStragglers,
         TracesLostOnlyToStragglers

(* What goes down with the process has run for the budget, at least. *)
LEMMA VanishInv ==
    ASSUME IInv, phase = "closing", Vanish, killed' \in BOOLEAN,
           killed' => Ran(Grace - PreStop)
    PROVE  IInv'
<1>1. /\ phase' = "gone" /\ holds' = {} /\ UNCHANGED <<t, routed, age>>
      /\ \A r \in Requests :
            /\ req'[r] = IF r \in InFlight THEN "cut" ELSE req[r]
            /\ span'[r] = "lost" =>
                  r \in InFlight \/ span[r] \in {"buffered", "lost"}
  BY DEF Vanish, IInv, TypeOK
<1>2. \A ticks : Ran(ticks)' <=> Ran(ticks)
  BY <1>1 DEF Ran
<1>3. InFlight' = {}
  BY <1>1 DEF InFlight
<1>4. \A r \in InFlight : r \in Requests /\ age[r] >= Budget
  BY Durations DEF IInv, TypeOK, ClocksOK, Listening, InFlight
<1>5. TypeOK'
  BY <1>1, <1>3 DEF Vanish, IInv, TypeOK
<1>6. ClocksOK'
  BY <1>1, <1>3 DEF IInv, ClocksOK, Listening
<1>7. StragglersOK'
  BY <1>1, <1>2 DEF IInv, StragglersOK
<1>8. NoneRefused' /\ ShortOnesAnswered'
  BY <1>1, <1>4 DEF IInv, NoneRefused, ShortOnesAnswered
<1>9. TracesLostOnlyToStragglers'
  <2>1. ASSUME NEW r \in Requests, span'[r] = "lost" PROVE Ran(Budget)
    <3>1. CASE r \in InFlight
      BY <1>4, <3>1 DEF Ran
    <3>2. CASE span[r] \in {"buffered", "lost"}
      BY <3>2 DEF IInv, StragglersOK, TracesLostOnlyToStragglers
    <3>3. QED
      BY <1>1, <2>1, <3>1, <3>2
  <2>2. QED
    BY <1>2, <2>1 DEF TracesLostOnlyToStragglers
<1>10. KilledOnlyByStragglers'
  BY <1>2 DEF KilledOnlyByStragglers
<1>11. QED
  BY <1>5, <1>6, <1>7, <1>8, <1>9, <1>10 DEF IInv

LEMMA ExitInv == ASSUME IInv, Exit PROVE IInv'
<1>1. killed' = killed /\ killed \in BOOLEAN /\ (killed => Ran(Grace - PreStop))
  BY DEF Exit, IInv, TypeOK, KilledOnlyByStragglers
<1>2. QED
  BY <1>1, VanishInv DEF Exit

LEMMA KillInv == ASSUME IInv, Kill PROVE IInv'
<1>1. phase = "closing"
  BY Durations DEF Kill, IInv, TypeOK, ClocksOK
<1>2. Ran(Grace - PreStop)
  BY DEF Kill, IInv, StragglersOK
<1>3. QED
  BY <1>1, <1>2, VanishInv DEF Kill

LEMMA TickInv == ASSUME IInv, Tick PROVE IInv'
<1>1. /\ UNCHANGED <<phase, routed, req, holds, killed>> /\ InFlight' = InFlight
      /\ t \in Nat /\ t <= Grace /\ phase \notin {"flushing", "gone"}
  BY Durations DEF Tick, IInv, TypeOK, InFlight
<1>2. t' = (IF phase = "serving" THEN 0 ELSE t + 1) /\ t' \in 0..Grace
  <2>1. phase # "serving" => t < Grace
    BY <1>1, Durations DEF Tick, IInv, TypeOK
  <2>2. QED
    BY <1>1, <2>1, Durations DEF Tick
<1>3. \A r \in Requests :
         /\ age[r] \in Nat /\ age[r] <= Grace
         /\ age'[r] \in Nat /\ age'[r] <= Grace /\ age'[r] >= age[r]
         /\ r \in InFlight /\ age[r] < Grace => age'[r] = age[r] + 1
  BY Durations DEF Tick, IInv, TypeOK
<1>4. ASSUME NEW ticks \in Nat, Ran(ticks) PROVE Ran(ticks)'
  BY <1>3, <1>4 DEF Ran
<1>5. Budget \in Nat /\ Grace - PreStop \in Nat
  BY Durations
<1>6. \A r \in Requests : span'[r] = "lost" => span[r] = "lost"
  BY DEF Tick, Exported, IInv, TypeOK
<1>7. \A r \in Requests : span'[r] # "buffered"
  BY DEF Tick, Exported, IInv, TypeOK
<1>8. TypeOK'
  <2>1. age' \in [Requests -> 0..Grace]
    BY <1>3, Durations DEF Tick
  <2>2. span' \in [Requests -> {"none", "buffered", "exported", "lost"}]
    BY DEF Tick, Exported, IInv, TypeOK
  <2>3. QED
    BY <1>1, <1>2, <2>1, <2>2 DEF IInv, TypeOK
<1>9. ~ Listening => \A r \in InFlight : age'[r] + PreStop >= t'
  <2>1. SUFFICES ASSUME ~ Listening, NEW r \in InFlight PROVE age'[r] + PreStop >= t'
    OBVIOUS
  <2>2. r \in Requests /\ age[r] + PreStop >= t /\ t' = t + 1
    BY <1>2, <2>1 DEF IInv, ClocksOK, InFlight, Listening
  <2>3. CASE age[r] < Grace
    BY <1>1, <1>3, <2>1, <2>2, <2>3, Durations
  <2>4. CASE age[r] = Grace
    BY <1>2, <1>3, <2>2, <2>4, Durations
  <2>5. QED
    BY <1>3, <2>2, <2>3, <2>4, Durations
<1>10. ClocksOK'
  BY <1>1, <1>2, <1>9, Durations DEF Tick, IInv, TypeOK, ClocksOK, Listening
(* Time passes only while a request is in the way. *)
<1>11. phase \in {"draining", "closing"} =>
          \E r \in Requests : r \in InFlight /\ age'[r] + PreStop >= t'
  BY <1>1, <1>9 DEF Tick, IInv, TypeOK, InFlight, Listening
<1>12. StragglersOK'
  <2>1. phase = "draining" /\ t' = Deadline => Ran(Budget)'
    BY <1>3, <1>11, Durations DEF Ran
  <2>2. t' = Grace => Ran(Grace - PreStop)'
    <3>1. t' = Grace => phase = "closing"
      BY <1>1, <1>2, Durations DEF Tick, IInv, TypeOK
    <3>2. QED
      BY <1>3, <1>11, <3>1, Durations DEF Ran
  <2>3. QED
    BY <1>1, <1>7, <2>1, <2>2 DEF StragglersOK
<1>13. NoneRefused' /\ KilledOnlyByStragglers' /\ TracesLostOnlyToStragglers'
  BY <1>1, <1>4, <1>5, <1>6
     DEF IInv, NoneRefused, KilledOnlyByStragglers, TracesLostOnlyToStragglers
<1>14. ShortOnesAnswered'
  BY <1>1, <1>3, Durations DEF IInv, ShortOnesAnswered
<1>15. QED
  BY <1>8, <1>10, <1>12, <1>13, <1>14 DEF IInv

LEMMA StutterInv == ASSUME IInv, UNCHANGED vars PROVE IInv'
<1>1. InFlight' = InFlight
  BY DEF vars, InFlight
<1>2. QED
  BY <1>1 DEF vars, IInv, TypeOK, ClocksOK, StragglersOK, Listening, Ran, NoneRefused,
     ShortOnesAnswered, KilledOnlyByStragglers, TracesLostOnlyToStragglers

LEMMA NextInv == IInv /\ [Next]_vars => IInv'
<1> SUFFICES ASSUME IInv, [Next]_vars PROVE IInv'
  OBVIOUS
<1>1. CASE \E r \in Requests : Handle(r)
  BY <1>1, ArriveInv, ConnectionInv, AnswerInv DEF Handle
<1>2. CASE Export
  BY <1>2, ExportInv
<1>3. CASE Terminate \/ StopRouting
  BY <1>3, EnvironmentInv
<1>4. CASE Kill
  BY <1>4, KillInv
<1>5. CASE Shutdown
  BY <1>5, ShutdownInv, FlushInv, ExitInv DEF Shutdown
<1>6. CASE Tick
  BY <1>6, TickInv
<1>7. CASE UNCHANGED vars
  BY <1>7, StutterInv
<1>8. QED
  BY <1>1, <1>2, <1>3, <1>4, <1>5, <1>6, <1>7 DEF Next

(* The clocks of load balancer, main and kubelet, and the ages of requests, *)
(* stay in the relations ClocksOK and StragglersOK name.                    *)
THEOREM DrainInvariance == Spec => []IInv
<1>1. QED
  BY InitInv, NextInv, PTL DEF Spec

(* main sleeps longer than the load balancer needs: no request meets a      *)
(* closed listener.                                                         *)
THEOREM NoRequestRefused == Spec => []NoneRefused
<1>1. IInv => NoneRefused
  BY DEF IInv
<1>2. QED
  BY <1>1, DrainInvariance, PTL

(* A request that needs less than the budget is never cut off by a          *)
(* shutdown, whenever it arrived.                                           *)
THEOREM ShortRequestsAnswered == Spec => []ShortOnesAnswered
<1>1. IInv => ShortOnesAnswered
  BY DEF IInv
<1>2. QED
  BY <1>1, DrainInvariance, PTL

(* SIGKILL means that some request ran for Grace - PreStop. *)
THEOREM KillsAreStragglers == Spec => []KilledOnlyByStragglers
<1>1. IInv => KilledOnlyByStragglers
  BY DEF IInv
<1>2. QED
  BY <1>1, DrainInvariance, PTL

(* Without a request as long as the budget no trace is lost. *)
THEOREM TracesSurviveShutdown == Spec => []TracesLostOnlyToStragglers
<1>1. IInv => TracesLostOnlyToStragglers
  BY DEF IInv
<1>2. QED
  BY <1>1, DrainInvariance, PTL

(* The clocks never pass the grace period, and only a request in flight     *)
(* holds a connection of the pool.                                          *)
THEOREM DrainTypes == Spec => []TypeOK
<1>1. IInv => TypeOK
  BY DEF IInv
<1>2. QED
  BY <1>1, DrainInvariance, PTL
-----------------------------------------------------------------------------
(* Every answer has its span, and no process leaves one in the buffer.      *)
SpansOK ==
    /\ phase = "gone" => InFlight = {}
    /\ \A r \in Requests : req[r] = "answered" => span[r] # "none"
    /\ phase = "gone" => \A r \in Requests : span[r] # "buffered"

LEMMA SpansNext ==
    ASSUME IInv, SpansOK, [Next]_vars
    PROVE  SpansOK'
<1> USE DEF IInv
<1>1. ASSUME NEW r \in Requests, Arrive(r) PROVE SpansOK'
  BY <1>1 DEF Arrive, SpansOK, InFlight, Listening, TypeOK
<1>2. ASSUME NEW r \in Requests, Answer(r) PROVE SpansOK'
  <2>1. phase # "gone"
    BY <1>2 DEF Answer, SpansOK, InFlight
  <2>2. span'[r] # "none" /\ \A q \in Requests : q # r => span'[q] = span[q]
    BY <1>2 DEF Answer, Record, TypeOK
  <2>3. \A q \in Requests : q # r => req'[q] = req[q]
    BY <1>2 DEF Answer, TypeOK
  <2>4. phase' = phase
    BY <1>2 DEF Answer
  <2>5. QED
    BY <2>1, <2>2, <2>3, <2>4 DEF SpansOK
<1>3. ASSUME \A r \in Requests : span'[r] = Exported[r], UNCHANGED <<req, phase>>
      PROVE  SpansOK'
  BY <1>3 DEF Exported, SpansOK, InFlight
<1>4. CASE Vanish
  BY <1>4 DEF Vanish, SpansOK, InFlight
<1>5. ASSUME UNCHANGED <<req, span>>, phase' # "gone" \/ phase' = phase
      PROVE  SpansOK'
  BY <1>5 DEF SpansOK, InFlight
<1>6. CASE Export \/ Tick
  BY <1>3, <1>6 DEF Export, Tick
<1>7. CASE Flush
  BY <1>7 DEF Flush, Exported, SpansOK, InFlight
<1>8. QED
  BY <1>1, <1>2, <1>4, <1>5, <1>6, <1>7
     DEF Next, Handle, Acquire, Release, Terminate, StopRouting, Kill, Shutdown,
         CloseListener, Drained, OutOfBudget, Exit, vars

(* main.go:98 holds of a shutdown that stays within its budget: a process   *)
(* that is gone, by itself or killed, has exported the trace of every       *)
(* request it answered, unless some request ran for the whole budget.  So   *)
(* the counterexample of drain_traces, a straggler that leaves Flush a      *)
(* context that is done already, is the only kind there is.                 *)
THEOREM StragglersAloneCostTraces == Spec => [](Ran(Budget) \/ TracesFlushed)
<1>1. Init => SpansOK
  BY DEF Init, SpansOK, InFlight
<1>2. IInv /\ SpansOK /\ [Next]_vars => SpansOK'
  BY SpansNext
<1>3. IInv /\ SpansOK => Ran(Budget) \/ TracesFlushed
  BY DEF IInv, TypeOK, SpansOK, TracesLostOnlyToStragglers, TracesFlushed
<1>4. QED
  BY DrainInvariance, <1>1, <1>2, <1>3, PTL DEF Spec
=============================================================================
