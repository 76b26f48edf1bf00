------------------------------- MODULE Schema -------------------------------
(***************************************************************************)
(* The tables of app/migrations and the SQL statements of app/internal/    *)
(* store, as operators on sets of rows.  A row of `posts' keeps the columns *)
(* the handlers branch on: its id, its author and its parent (Null for a    *)
(* top-level post).  created_at is taken to grow with the id, and the gaps  *)
(* a failed INSERT leaves in the sequence are left out: only the order of   *)
(* ids is ever used.                                                        *)
(***************************************************************************)
EXTENDS Naturals, FiniteSets

CONSTANTS Users,     \* user ids: rows of `users' are never deleted
          MaxPost,   \* bound on the ids the posts sequence hands out
          Limit      \* timelineLimit of the web package (50)

ASSUME SchemaAssumption == MaxPost \in Nat /\ Limit \in Nat \ {0}

Null == 0
PostId == 1..MaxPost

Row == [id : PostId, author : Users, parent : PostId \cup {Null}]

IsTopLevel(p) == p.parent = Null

Exists(posts, id) == \E p \in posts : p.id = id

(***************************************************************************)
(* parent_id REFERENCES posts(id) ON DELETE CASCADE: the rows one DELETE    *)
(* takes with it, the least set of ids that has `id' and every reply to a   *)
(* member.                                                                  *)
(***************************************************************************)
ClosedUnderReply(posts, S) ==
    \A p \in posts : p.parent \in S => p.id \in S

InThread(posts, id, p) ==
    \A S \in SUBSET PostId :
        id \in S /\ ClosedUnderReply(posts, S) => p.id \in S

(* Mutant: a foreign key without ON DELETE CASCADE. *)
WithoutRow(posts, id) == {p \in posts : p.id # id}

WithoutThread(posts, id) == {p \in posts : ~ InThread(posts, id, p)}

(* The rows Store.Timeline selects for u, before ORDER BY and LIMIT.        *)
Visible(posts, follows, u) ==
    {p \in posts : IsTopLevel(p) /\ (p.author = u \/ <<u, p.author>> \in follows)}

(* ORDER BY created_at DESC LIMIT: the newest rows, all of them if they fit *)
IsPage(page, rows) ==
    /\ page \subseteq rows
    /\ page # rows => Cardinality(page) = Limit
    /\ Cardinality(page) <= Limit
    /\ \A p \in page, q \in rows \ page : q.id < p.id

Pages(rows) == {page \in SUBSET rows : IsPage(page, rows)}

(* Mutant: the two columns of `follows' swapped. *)
FolloweeIDs(follows, author) == {u \in Users : <<author, u>> \in follows}

FollowerIDs(follows, author) == {u \in Users : <<u, author>> \in follows}
=============================================================================
