----------------------------- MODULE Migration -----------------------------
(***************************************************************************)
(* What a migration at every start promises, without locks, transactions    *)
(* and pods that are killed half way: the files are applied one after the   *)
(* other, each of them once and never taken back, an api is up only when    *)
(* all of them are, and works only while it is up.                          *)
(***************************************************************************)
EXTENDS Naturals

CONSTANT Apis

Files == 2

VARIABLES schema,   \* the files applied
          up, busy  \* the apis that serve, and those at work on a request

vars == <<schema, up, busy>>

Init ==
    /\ schema \in 0..Files
    /\ up = {} /\ busy = {}

Apply ==
    /\ schema < Files
    /\ schema' = schema + 1
    /\ UNCHANGED <<up, busy>>

Join(p) ==
    /\ schema = Files
    /\ up' = up \cup {p}
    /\ UNCHANGED <<schema, busy>>

Leave(p) ==
    /\ up' = up \ {p} /\ busy' = busy \ {p}
    /\ UNCHANGED schema

Work(p) ==
    /\ p \in up
    /\ busy' = busy \cup {p}
    /\ UNCHANGED <<schema, up>>

Rest(p) ==
    /\ busy' = busy \ {p}
    /\ UNCHANGED <<schema, up>>

Next ==
    \/ Apply
    \/ \E p \in Apis : Join(p) \/ Leave(p) \/ Work(p) \/ Rest(p)

Spec == Init /\ [][Next]_vars
=============================================================================
