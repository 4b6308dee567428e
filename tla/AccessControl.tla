----------------------------- MODULE AccessControl -----------------------------
(***************************************************************************)
(* What the rules of RBAC_MODEL.md promise of groups and verbs: whoever    *)
(* changes anything has, at that very moment, the right to.  Each change   *)
(* is one step, judged on the rights as they are; there are no requests,   *)
(* no copies and no stale reads.                                           *)
(***************************************************************************)
CONSTANTS Master, Keys, Groups, Names, Verbs

VARIABLES
    keys,     \* tenant keys
    scopes,   \* the global scopes of each
    groups,   \* groups
    used,     \* ids of groups, there or gone
    name,     \* the name of each group
    owner,    \* who made it, "unowned" if the master
    verbs     \* what each key may do on each group

access == <<keys, scopes, groups, used, name, owner, verbs>>

Scopes == {"can_manage_keys", "can_create_groups"}

Init ==
    /\ keys = Keys
    /\ scopes \in [Keys -> SUBSET Scopes]
    /\ groups = {} /\ used = {}
    /\ name \in [Groups -> Names]
    /\ owner = [g \in Groups |-> "unowned"]
    /\ verbs = [p \in Keys \X Groups |-> {}]

\* R2: both halves, the scope and the verb.
Manages(b, g) ==
    b = Master \/ (b \in keys /\ "can_manage_keys" \in scopes[b] /\ "manage" \in verbs[<<b, g>>])

MayFound(b) == b = Master \/ (b \in keys /\ "can_create_groups" \in scopes[b])

\* A group under a name and an id of its own.
Found(b, g, n) ==
    /\ MayFound(b)
    /\ g \notin used /\ \A h \in groups : name[h] # n
    /\ groups' = groups \cup {g} /\ used' = used \cup {g}
    /\ name' = [name EXCEPT ![g] = n]
    /\ owner' = [owner EXCEPT ![g] = IF b = Master THEN "unowned" ELSE b]
    /\ UNCHANGED <<keys, scopes, verbs>>

SetVerbs(k, g, w) ==
    /\ verbs' = [verbs EXCEPT ![<<k, g>>] = w]
    /\ UNCHANGED <<keys, scopes, groups, used, name, owner>>

\* R7: the owner of a group may come to use it, and does not manage it.
Provision(g) ==
    /\ g \in groups /\ owner[g] \in keys
    /\ verbs[<<owner[g], g>>] = {}
    /\ SetVerbs(owner[g], g, Verbs \ {"manage"})

\* R1: nothing is passed on that is not held.
Grant(b, k, g, w) ==
    /\ k \in keys /\ g \in groups
    /\ Manages(b, g)
    /\ b = Master \/ w \ verbs[<<k, g>>] \subseteq verbs[<<b, g>>]
    /\ SetVerbs(k, g, w)

\* R6: revoking takes managing, and nothing more.
Revoke(b, k, g) == Manages(b, g) /\ SetVerbs(k, g, {})

\* What is deleted takes its verbs along; scopes come and go.
Keep(kept) == verbs' = [p \in Keys \X Groups |-> IF p \in kept THEN verbs[p] ELSE {}]

LoseKeys(doomed) ==
    /\ keys' = keys \ doomed
    /\ Keep((Keys \ doomed) \X Groups)
    /\ UNCHANGED <<scopes, groups, used, name, owner>>

LoseGroup(g) ==
    /\ groups' = groups \ {g}
    /\ Keep(Keys \X (Groups \ {g}))
    /\ UNCHANGED <<keys, scopes, used, name, owner>>

Rescope(k, s) ==
    /\ scopes' = [scopes EXCEPT ![k] = s]
    /\ UNCHANGED <<keys, groups, used, name, owner, verbs>>

\* What key b may do, and what handlers of KeyLifecycle do, which has who may.
Act(b) == \E g \in Groups :
    \/ \E n \in Names : Found(b, g, n)
    \/ owner[g] = b /\ Provision(g)
    \/ \E k \in Keys : Revoke(b, k, g) \/ \E w \in SUBSET Verbs : Grant(b, k, g, w)

Lose ==
    \/ \E doomed \in SUBSET keys : LoseKeys(doomed)
    \/ \E g \in groups : LoseGroup(g)
    \/ \E k \in keys, s \in SUBSET Scopes : Rescope(k, s)

Next == Lose \/ \E b \in Keys \cup {Master} : Act(b)

Spec == Init /\ [][Next]_access
=============================================================================
