-------------------------- MODULE PermissionCache --------------------------
(***************************************************************************)
(* The cache of SquestRBACBackend.has_perm.  Both answers are kept in      *)
(* Redis for a minute and nothing invalidates them: adding or removing a   *)
(* role, a scope or an owner leaves the entries alone.  An answer is       *)
(* computed with two queries, one about roles and, when that one says no,  *)
(* one about owners; other handlers change the rows in between.            *)
(*                                                                         *)
(* ScopeAccess says what the rows grant.  Here they are two facts about    *)
(* each key that change at any moment.                                     *)
(***************************************************************************)
EXTENDS Integers

CONSTANTS
    Key,      \* user, permission, model and id
    Thread,   \* the handlers that ask
    Ttl,      \* the 60 seconds, in ticks of the clock
    Missing   \* in place of an entry that is not there

ASSUME TtlAssumption == Ttl \in Nat \ {0}
ASSUME MissingAssumption == Missing \notin [answer : BOOLEAN, left : 1..Ttl]

VARIABLES
    byRole,   \* some role of the user, or everybody, has the permission
    byOwner,  \* the user owns the row and owners have the permission
    entry,    \* what Redis holds
    thread,   \* where a handler is in has_perm
    quiet     \* history: ticks since the rows changed or a handler that had read them before stored

vars == <<byRole, byOwner, entry, thread, quiet>>

Idle == [at : {"idle"}]

\* key: what it asks; answer: what it will store; history: seen, the answers the rows gave
\* since it began; late, whether they changed since then
Busy == [at : {"owner", "store"}, key : Key, answer : BOOLEAN, seen : SUBSET BOOLEAN, late : BOOLEAN]

Entry == [answer : BOOLEAN, left : 1..Ttl]

Granted(k) == byRole[k] \/ byOwner[k]

Asks(t, k) == thread[t].at # "idle" /\ thread[t].key = k

Right(k) == entry[k] # Missing => entry[k].answer = Granted(k)

Init ==
    /\ byRole \in [Key -> BOOLEAN] /\ byOwner \in [Key -> BOOLEAN]
    /\ entry = [k \in Key |-> Missing]
    /\ thread = [t \in Thread |-> [at |-> "idle"]]
    /\ quiet = [k \in Key |-> 0]

----------------------------------------------------------------------------
Misses(k) == entry[k] = Missing

\* cache.get finds nothing, and the roles are asked; an entry is returned as it is.
AskRoles(t, k) ==
    /\ thread[t].at = "idle" /\ Misses(k)
    /\ thread' = [thread EXCEPT ![t] =
          [at |-> IF byRole[k] THEN "store" ELSE "owner", key |-> k, answer |-> byRole[k],
           seen |-> {Granted(k)}, late |-> FALSE]]
    /\ UNCHANGED <<byRole, byOwner, entry, quiet>>

\* mutant: the cache is asked once more, and wins
AskOwnerOrCache(t) ==
    /\ thread[t].at = "owner"
    /\ LET e == entry[thread[t].key]
       IN  thread' = [thread EXCEPT ![t] = [@ EXCEPT
              !.at = "store", !.answer = IF e = Missing THEN byOwner[thread[t].key] ELSE e.answer]]
    /\ UNCHANGED <<byRole, byOwner, entry, quiet>>

\* is_owner and owner_permissions, asked later than the roles
AskOwner(t) ==
    /\ thread[t].at = "owner"
    /\ thread' = [thread EXCEPT ![t] =
          [@ EXCEPT !.at = "store", !.answer = byOwner[thread[t].key]]]
    /\ UNCHANGED <<byRole, byOwner, entry, quiet>>

\* cache.set
Stored(a) == [answer |-> a, left |-> Ttl]

Store(t) ==
    /\ thread[t].at = "store"
    /\ LET k == thread[t].key
       IN  /\ entry' = [entry EXCEPT ![k] = Stored(thread[t].answer)]
           /\ quiet' = IF thread[t].late THEN [quiet EXCEPT ![k] = 0] ELSE quiet
    /\ thread' = [thread EXCEPT ![t] = [at |-> "idle"]]
    /\ UNCHANGED <<byRole, byOwner>>

\* A role, a permission, an owner or a scope is changed, and the cache is not told.
Change(k) ==
    /\ \E r, o \in BOOLEAN : byRole' = [byRole EXCEPT ![k] = r] /\ byOwner' = [byOwner EXCEPT ![k] = o]
    /\ <<byRole, byOwner>>' # <<byRole, byOwner>>
    /\ thread' = [t \in Thread |->
          IF Asks(t, k)
          THEN [thread[t] EXCEPT !.late = TRUE, !.seen = @ \union {byRole'[k] \/ byOwner'[k]}]
          ELSE thread[t]]
    /\ quiet' = [quiet EXCEPT ![k] = 0]
    /\ UNCHANGED entry

\* mutant: cache.set without a timeout
NeverAged(e) == e

Aged(e) == IF e.left = 1 THEN Missing ELSE [e EXCEPT !.left = @ - 1]

\* A second passes; Redis drops what has expired.
Tick ==
    /\ entry' = [k \in Key |-> IF entry[k] = Missing THEN Missing ELSE Aged(entry[k])]
    /\ quiet' = [k \in Key |-> IF quiet[k] < Ttl THEN quiet[k] + 1 ELSE Ttl]
    /\ UNCHANGED <<byRole, byOwner, thread>>

\* The process of a handler is killed.
Die(t) ==
    /\ thread[t].at # "idle"
    /\ thread' = [thread EXCEPT ![t] = [at |-> "idle"]]
    /\ UNCHANGED <<byRole, byOwner, entry, quiet>>

Compute(t) == AskOwner(t) \/ Store(t)

Next ==
    \/ \E t \in Thread, k \in Key : AskRoles(t, k)
    \/ \E t \in Thread : Compute(t) \/ Die(t)
    \/ \E k \in Key : Change(k)
    \/ Tick

Spec == Init /\ [][Next]_vars
----------------------------------------------------------------------------
TypeOK ==
    /\ byRole \in [Key -> BOOLEAN] /\ byOwner \in [Key -> BOOLEAN]
    /\ entry \in [Key -> Entry \union {Missing}]
    /\ thread \in [Thread -> Idle \union Busy]
    /\ quiet \in [Key -> 0..Ttl]

\* squest_rbac.py: the answers are kept 60 seconds.  Once the rows have been left alone that
\* long, and no handler was still computing from what they were before, no entry is wrong:
\* a role that was taken away grants no more, one that was given is seen.
StaleAtMostTtl == \A k \in Key : quiet[k] = Ttl => Right(k)

\* A handler reads roles and owners at two moments.  It may refuse what was granted at each of
\* them, but a permission it grants (and keeps for a minute) was granted at some moment.
GrantsAreEarned ==
    \A t \in Thread : thread[t].at = "store" /\ thread[t].answer => TRUE \in thread[t].seen
============================================================================
