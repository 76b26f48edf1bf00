---------------------------- MODULE TimelineFeed ----------------------------
(***************************************************************************)
(* Handlers, Redis, NATS and workers together implement the timeline of     *)
(* module Feed.                                                             *)
(***************************************************************************)
EXTENDS Timeline

(* A user's page in Redis, and those that may still get there: from their   *)
(* requests and from the file of Redis.                                     *)
PageKept(held, u) == IF held[u] = None THEN None ELSE held[u].page

PagesRead(u) == {fill[c].page : c \in {d \in Clients : Owner[d] = u /\ fill[d] # None}}
                \cup ({PageKept(file, u)} \ {None})

Timelines == INSTANCE Feed WITH
    reads <- [u \in Users |-> PagesRead(u)],
    shown <- [u \in Users |-> PageKept(cache, u)]

(* Whatever the interleaving, failure, loss or restart, timeline:<id> holds *)
(* a page that one query of Store.Timeline returned for that very user.     *)
ImplementsFeed == Timelines!Spec
=============================================================================
