----------------------------- MODULE MCTimeline -----------------------------
EXTENDS TimelineFeed, TLC

CONSTANTS alice, bob, callA1, callA2, callB1, none

TwoUsers == {alice, bob}

(* One call each, or a second call for alice. *)
OneCall     == {callA1, callB1}
OwnOneCall  == (callA1 :> alice) @@ (callB1 :> bob)
TwoCalls    == {callA1, callA2, callB1}
OwnTwoCalls == (callA1 :> alice) @@ (callA2 :> alice) @@ (callB1 :> bob)

(* With one call each, the users are alike as long as their calls go along. *)
UserSymmetry ==
    {f \in Permutations(TwoUsers \cup OneCall) :
        /\ \A u \in TwoUsers : f[u] \in TwoUsers
        /\ \A c \in OneCall : OwnOneCall[f[c]] = f[OwnOneCall[c]]}
=============================================================================
