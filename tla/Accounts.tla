------------------------------ MODULE Accounts ------------------------------
(***************************************************************************)
(* What accounts and sessions promise, without ids, cookies, Redis, its     *)
(* file or the playbook: an account is the one sign-up it came from, and a  *)
(* session is of one account for good.  Accounts come and go only as a      *)
(* whole, when a saved set of them is put back.  A session may end at any   *)
(* time; one that was ended acts for nobody any more, except that after a   *)
(* crash of the session store an ended session may be back (`revived').     *)
(* A request that is at work while a saved set is put back, or starts       *)
(* before the sessions are ended after it, is `stale': of it, and of a      *)
(* session that it starts (`late'), nothing more is promised.               *)
(***************************************************************************)
EXTENDS Naturals

CONSTANTS Sids, Requests,
          None  \* no session

Nobody == 0

VARIABLES accounts, born, saved,  \* accounts, the sign-ups so far, the backups
          owner, valid,           \* per session: its account; the usable ones
          ended, revived, late,   \* logged out or flushed; doubtful ones
          open,                   \* is the restored set in order?
          session, acts, stale    \* per request: its session, who it acts as;
                                  \*   the requests overtaken by a restore

tables == <<accounts, born, saved>>
store  == <<owner, valid, ended, revived, late>>
work   == <<session, acts, stale>>
vars   == <<tables, store, open, work>>

Issued == {s \in Sids : owner[s] # Nobody}

Init ==
    /\ accounts = {} /\ born = 0 /\ saved = {}
    /\ owner = [s \in Sids |-> Nobody]
    /\ valid = {} /\ ended = {} /\ revived = {} /\ late = {}
    /\ open = TRUE
    /\ session = [r \in Requests |-> None]
    /\ acts = [r \in Requests |-> Nobody]
    /\ stale = {}

SignUp ==
    /\ born' = born + 1
    /\ accounts' = accounts \cup {born + 1}
    /\ UNCHANGED <<saved, store, open, work>>

LogIn(a, s) ==
    /\ s \notin Issued
    /\ owner' = [owner EXCEPT ![s] = a]
    /\ valid' = valid \cup {s}
    /\ UNCHANGED <<tables, ended, revived, open, session, acts>>

LogInOnTime(a, s) ==
    /\ a \in accounts
    /\ LogIn(a, s)
    /\ UNCHANGED <<late, stale>>

LogInLate(r, a, s) ==
    /\ r \in stale /\ session[r] = None
    /\ LogIn(a, s)
    /\ late' = late \cup {s}
    /\ stale' = stale \ {r}

LogOut(s) ==
    /\ s \in Issued
    /\ valid' = valid \ {s}
    /\ ended' = ended \cup {s}
    /\ UNCHANGED <<tables, owner, revived, late, open, work>>

Expire(s) ==
    /\ valid' = valid \ {s}
    /\ UNCHANGED <<tables, owner, ended, revived, late, open, work>>

Present(r, s) ==
    /\ session[r] = None
    /\ s \in valid
    /\ session' = [session EXCEPT ![r] = s]
    /\ stale' = stale \/ (~ open /\ stale' = stale \cup {r})
    /\ UNCHANGED <<tables, store, open, acts>>

(* The promise: as the account that logged in, while there is one. *)
Act(r, a) ==
    /\ session[r] # None /\ acts[r] = Nobody
    /\ a \in accounts
    /\ r \in stale \/ session[r] \in revived \cup late \/ a = owner[session[r]]
    /\ acts' = [acts EXCEPT ![r] = a]
    /\ UNCHANGED <<tables, store, open, session, stale>>

Done(r) ==
    /\ session[r] # None \/ r \in stale
    /\ session' = [session EXCEPT ![r] = None]
    /\ acts' = [acts EXCEPT ![r] = Nobody]
    /\ stale' = stale \ {r}
    /\ UNCHANGED <<tables, store, open>>

(* The session store comes back with some sessions and without others. *)
Crash(back) ==
    /\ back \subseteq Issued
    /\ valid' = back
    /\ revived' = revived \cup (back \cap ended)
    /\ UNCHANGED <<tables, owner, ended, late, open, work>>

Save ==
    /\ saved' = saved \cup {accounts}
    /\ UNCHANGED <<accounts, born, store, open, work>>

Close ==
    /\ open' = FALSE
    /\ UNCHANGED <<tables, store, work>>

Restore(as) ==
    /\ ~ open
    /\ as \in saved
    /\ accounts' = as
    /\ \E busy \in SUBSET Requests :
          /\ {r \in Requests : session[r] # None} \subseteq busy
          /\ stale' = stale \cup busy
    /\ UNCHANGED <<born, saved, store, open, session, acts>>

EndAll ==
    /\ ~ open
    /\ valid' = {}
    /\ ended' = ended \cup Issued
    /\ UNCHANGED <<tables, owner, revived, late, open, work>>

(* Not before every usable session is of an account that is there. *)
Reopen ==
    /\ ~ open
    /\ \A s \in valid \ (revived \cup late) : owner[s] \in accounts
    /\ open' = TRUE
    /\ UNCHANGED <<tables, store, work>>

Next ==
    \/ SignUp
    \/ \E a \in accounts, s \in Sids : LogInOnTime(a, s)
    \/ \E r \in Requests, a \in 1..born, s \in Sids : LogInLate(r, a, s)
    \/ \E s \in Sids : LogOut(s) \/ Expire(s)
    \/ \E r \in Requests :
          \/ \E s \in Sids : Present(r, s)
          \/ \E a \in accounts : Act(r, a)
          \/ Done(r)
    \/ \E back \in SUBSET Sids : Crash(back)
    \/ Save \/ Close \/ EndAll \/ Reopen
    \/ \E as \in saved : Restore(as)

Spec == Init /\ [][Next]_vars
=============================================================================
