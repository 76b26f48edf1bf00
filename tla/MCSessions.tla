----------------------------- MODULE MCSessions -----------------------------
EXTENDS SessionsAccounts, TLC

CONSTANTS ann, ben, s1, s2, tab1, tab2, home

(* Two requests of one browser. *)
TwoNames   == {ann, ben}
TwoSids    == {s1, s2}
TwoTabs    == {tab1, tab2}
OneBrowser == [r \in TwoTabs |-> home]

(* `answered' is a history variable that no action reads, and no property   *)
(* of run sessions either: states that differ in it alone are one state.    *)
WithoutAnswer ==
    <<tables, store, cookie, request, restore, born, owner, gone, revived, stale, late>>

Symmetry == Permutations(TwoNames) \cup Permutations(TwoSids) \cup Permutations(TwoTabs)
=============================================================================
