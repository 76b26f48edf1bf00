-------------------------------- MODULE Feed --------------------------------
(***************************************************************************)
(* What the timeline cache promises, without handlers, tabs or messages: a  *)
(* social graph that changes one statement at a time, and for each user a   *)
(* remembered page.  A page may only be remembered after it was read, for   *)
(* that user and from a single state of the tables; it may be forgotten at  *)
(* any time, it may be out of date, and one that was forgotten may be back. *)
(* How stale it can be is for other modules to say: here a timeline is never*)
(* somebody else's, never mixes two states of the tables, and is never      *)
(* anything but a page once read.                                           *)
(***************************************************************************)
EXTENDS Schema

CONSTANT None  \* no page is remembered

VARIABLES posts, follows, nextId,
          reads,  \* per user: pages once read that may still be remembered
          shown   \* per user: the page a timeline request answers from

vars == <<posts, follows, nextId, reads, shown>>

Init ==
    /\ posts = {} /\ follows = {} /\ nextId = 1
    /\ reads = [u \in Users |-> {}]
    /\ shown = [u \in Users |-> None]

Post(u, parent) ==
    /\ nextId <= MaxPost
    /\ parent = Null \/ Exists(posts, parent)
    /\ posts' = posts \cup {[id |-> nextId, author |-> u, parent |-> parent]}
    /\ nextId' = nextId + 1
    /\ UNCHANGED <<follows, reads, shown>>

(* The author takes a post back, and its thread goes with it. *)
Remove(p) ==
    /\ posts' = WithoutThread(posts, p.id)
    /\ UNCHANGED <<follows, nextId, reads, shown>>

Follow(u, other) ==
    /\ u # other
    /\ follows' = follows \cup {<<u, other>>}
    /\ UNCHANGED <<posts, nextId, reads, shown>>

Unfollow(u, other) ==
    /\ follows' = follows \ {<<u, other>>}
    /\ UNCHANGED <<posts, nextId, reads, shown>>

Read(u) ==
    /\ \E page \in Pages(Visible(posts, follows, u)) :
           reads' = [reads EXCEPT ![u] = @ \cup {page}]
    /\ UNCHANGED <<posts, follows, nextId, shown>>

(* Pages in hand may be given up at any time. *)
InHand(may) ==
    /\ reads' \in [Users -> SUBSET (SUBSET Row)]
    /\ \A u \in Users : reads'[u] \subseteq may[u]

Remember(u, page) ==
    /\ page \in reads[u]
    /\ shown' = [shown EXCEPT ![u] = page]
    /\ InHand(reads)
    /\ UNCHANGED <<posts, follows, nextId>>

Forget(us) ==
    /\ shown' = [u \in Users |-> IF u \in us THEN None ELSE shown[u]]
    /\ InHand(reads)
    /\ UNCHANGED <<posts, follows, nextId>>

(* What is shown now may be shown again later. *)
Keep ==
    /\ InHand([u \in Users |-> reads[u] \cup ({shown[u]} \ {None})])
    /\ UNCHANGED <<posts, follows, nextId, shown>>

(* All users at once are shown something they were shown or read before. *)
Recall ==
    /\ shown' \in [Users -> (SUBSET Row) \cup {None}]
    /\ \A u \in Users : shown'[u] \in reads[u] \cup {None}
    /\ UNCHANGED <<posts, follows, nextId, reads>>

Next ==
    \/ \E us \in SUBSET Users : Forget(us)
    \/ Keep
    \/ Recall
    \/ \E p \in posts : Remove(p)
    \/ \E u \in Users :
          \/ \E other \in Users : Follow(u, other) \/ Unfollow(u, other)
          \/ \E parent \in PostId \cup {Null} : Post(u, parent)
          \/ Read(u)
          \/ \E page \in reads[u] : Remember(u, page)

Spec == Init /\ [][Next]_vars
=============================================================================
