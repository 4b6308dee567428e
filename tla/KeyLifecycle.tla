----------------------------- MODULE KeyLifecycle -----------------------------
(***************************************************************************)
(* The life of API keys and of what they own: the handlers of              *)
(* src/src/api/keys.rs that create, re-scope and delete keys, and those of *)
(* groups.rs and webhooks.rs that create, hand over and delete groups and  *)
(* webhook configurations.                                                 *)
(*                                                                         *)
(* No handler here runs in a transaction.  Each is a task that reads the   *)
(* database, decides in memory and writes, one statement at a time, under  *)
(* the copy of the caller's key record taken at authentication; a task may *)
(* be abandoned between two statements.  A step of the model is a          *)
(* statement with the decisions that follow it.  A request refused before  *)
(* its first write changes nothing; the model lets it stutter.             *)
(***************************************************************************)
EXTENDS Naturals, FiniteSets

CONSTANTS
    Master,       \* the one is_master key; no handler creates, edits or deletes it
    Keys,         \* ids of tenant keys
    Groups,       \* ids of IP groups
    Hooks,        \* ids of webhook configurations
    Scopes,       \* the global scopes exercised, out of MASTER_ONLY_SCOPES
    Tasks,        \* handler tasks in flight at once
    MaxRequests   \* bound: requests served in all

AllKeys == Keys \cup {Master}
Entities == Groups \cup Hooks
Ids == Keys \cup Entities

ASSUME IdAssumption ==
    /\ Master \notin Ids
    /\ Keys \cap Entities = {} /\ Groups \cap Hooks = {}
    /\ {"none", "unowned", "keep", "delete"} \cap (Ids \cup {Master}) = {}

ASSUME BoundAssumption == MaxRequests \in Nat

MasterOnlyScopes == {"can_manage_keys", "can_create_groups", "can_manage_webhooks"}

ASSUME ScopeAssumption == Scopes \subseteq MasterOnlyScopes

VARIABLES
    rows,      \* ids whose row is in the database
    used,      \* ids handed out so far: Uuid::new_v4 never repeats one
    parent,    \* parent_key_id of each key; kept here when the row goes
    scopes,    \* the global scopes of each key
    owner,     \* owner_key_id of each group and webhook
    group,     \* group_id of each webhook
    task,      \* what each handler task is doing
    requests,  \* requests served so far
    granted    \* history: scopes the master has ever given each key

vars == <<rows, used, parent, scopes, owner, group, task, requests, granted>>

-----------------------------------------------------------------------------
Steps == {"idle", "insertKey", "findEdited", "writeScopes", "findDoomed", "walk",
          "plan", "resolve", "purge", "insertGroup", "insertHook", "findEntity",
          "drop", "assign"}

Owners == Keys \cup {"unowned"}
Resolutions == Keys \cup {"keep", "delete"}

Task == [step : Steps, by : AllKeys, on : Ids \cup {"none"},
         give : SUBSET Scopes, take : SUBSET Scopes, to : Owners,
         doomed : SUBSET Keys, frontier : SUBSET Keys,
         plan : [Entities -> Resolutions], left : SUBSET Entities]

TypeOK ==
    /\ rows \subseteq used /\ used \subseteq Ids
    /\ parent \in [Keys -> AllKeys]
    /\ scopes \in [Keys -> SUBSET Scopes]
    /\ owner \in [Entities -> Owners]
    /\ group \in [Hooks -> Groups]
    /\ task \in [Tasks -> Task]
    /\ requests \in Nat
    /\ granted \in [Keys -> SUBSET Scopes]

Idle == [step |-> "idle", by |-> Master, on |-> "none", give |-> {}, take |-> {},
         to |-> "unowned", doomed |-> {}, frontier |-> {},
         plan |-> [e \in Entities |-> "keep"], left |-> {}]

\* A new installation: the bootstrapped master and nothing else.
Init ==
    /\ rows = {} /\ used = {}
    /\ parent = [k \in Keys |-> Master]
    /\ scopes = [k \in Keys |-> {}]
    /\ owner = [e \in Entities |-> "unowned"]
    /\ group \in [Hooks -> Groups]
    /\ task = [t \in Tasks |-> Idle]
    /\ requests = 0
    /\ granted = [k \in Keys |-> {}]

LiveKeys == rows \cap Keys
LiveEntities == rows \cap Entities

\* resource_owner: the master owns nothing.
Bug_OwnerAlwaysCreator(k) == k

ResourceOwner(k) == IF k = Master THEN "unowned" ELSE k

\* The daughters of a set of keys, by the rows now in the database.
Daughters(S) == {k \in LiveKeys : parent[k] \in S}

\* caller_can_administer_key: the target is in the subtree collect_key_subtree
\* finds below the caller, the least set closed under Daughters.  Only deletions
\* can change the answer, as parents are never rewritten, so the walk is one step.
CanAdminister(k, target) ==
    \/ k = Master
    \/ \A S \in SUBSET AllKeys : k \in S /\ Daughters(S) \subseteq S => target \in S

\* The master passes every gate.
Rights(k) == IF k = Master THEN MasterOnlyScopes ELSE scopes[k]
Holds(k, scope) == scope \in Rights(k)

At(t, step) == task[t].step = step
By(t) == task[t].by
Become(t, record) == task' = [task EXCEPT ![t] = record]
Goto(t, step) == Become(t, [task[t] EXCEPT !.step = step])
Done(t) == Become(t, Idle)

\* auth_middleware hands the handler a copy of the caller's row.  The handlers
\* here test the caller's scopes before their first statement and never again.
Authenticate(t, by) ==
    /\ At(t, "idle")
    /\ by \in LiveKeys \cup {Master}
    /\ requests < MaxRequests
    /\ requests' = requests + 1
    /\ UNCHANGED <<rows, used, parent, scopes, owner, group, granted>>

-----------------------------------------------------------------------------
(* POST /keys: create_api_key *)

RequestKey(t) == \E by \in AllKeys, give \in SUBSET Scopes :
    /\ Authenticate(t, by)
    /\ Holds(by, "can_manage_keys")
    /\ by = Master \/ give = {}
    /\ Become(t, [Idle EXCEPT !.step = "insertKey", !.by = by, !.give = give])

InsertKey(t) == \E k \in Keys \ used :
    /\ At(t, "insertKey")
    /\ rows' = rows \cup {k} /\ used' = used \cup {k}
    /\ parent' = [parent EXCEPT ![k] = By(t)]
    /\ scopes' = [scopes EXCEPT ![k] = task[t].give]
    /\ granted' = [granted EXCEPT ![k] = IF By(t) = Master THEN task[t].give ELSE {}]
    /\ Done(t)
    /\ UNCHANGED <<owner, group, requests>>

-----------------------------------------------------------------------------
(* PUT /keys/{id}: update_api_key *)

RequestScopes(t) == \E by \in AllKeys, k \in Keys, give \in SUBSET Scopes, take \in SUBSET Scopes :
    /\ Authenticate(t, by)
    /\ Holds(by, "can_manage_keys")
    /\ give \cap take = {}
    /\ Become(t, [Idle EXCEPT !.step = "findEdited", !.by = by, !.on = k,
                             !.give = give, !.take = take])

\* guard_scope_elevation: only the master gives a scope the target, as read, lacks.
Bug_MayElevateToOwnScopes(t) ==
    task[t].give \subseteq Rights(By(t))

MayElevate(t) == By(t) = Master \/ task[t].give \subseteq scopes[task[t].on]

FindEdited(t) ==
    /\ At(t, "findEdited")
    /\ \/ /\ task[t].on \in LiveKeys /\ CanAdminister(By(t), task[t].on) /\ MayElevate(t)
          /\ Goto(t, "writeScopes")
       \/ /\ ~(task[t].on \in LiveKeys /\ CanAdminister(By(t), task[t].on) /\ MayElevate(t))
          /\ Done(t)
    /\ UNCHANGED <<rows, used, parent, scopes, owner, group, requests, granted>>

\* The update sets the columns the payload names, on the row as it is now; an
\* update of a row that has gone is an error.
WriteScopes(t) ==
    LET k == task[t].on IN
    /\ At(t, "writeScopes")
    /\ \/ /\ k \in LiveKeys
          /\ scopes' = [scopes EXCEPT ![k] = (@ \ task[t].take) \cup task[t].give]
          /\ granted' = [granted EXCEPT ![k] =
                            IF By(t) = Master THEN @ \cup task[t].give ELSE @]
       \/ k \notin LiveKeys /\ UNCHANGED <<scopes, granted>>
    /\ Done(t)
    /\ UNCHANGED <<rows, used, parent, owner, group, requests>>

-----------------------------------------------------------------------------
(* DELETE /keys/{id}: delete_api_key *)

RequestDeletion(t) == \E by \in AllKeys, k \in Keys :
    /\ Authenticate(t, by)
    /\ Holds(by, "can_manage_keys")
    /\ k # by
    /\ Become(t, [Idle EXCEPT !.step = "findDoomed", !.by = by, !.on = k])

Bug_FindDoomedAnywhere(t) ==
    /\ At(t, "findDoomed")
    /\ task[t].on \in LiveKeys
    /\ Become(t, [task[t] EXCEPT !.step = "walk", !.doomed = {task[t].on},
                                  !.frontier = {task[t].on}])
    /\ UNCHANGED <<rows, used, parent, scopes, owner, group, requests, granted>>

FindDoomed(t) ==
    LET k == task[t].on IN
    /\ At(t, "findDoomed")
    /\ \/ /\ k \in LiveKeys /\ CanAdminister(By(t), k)
          /\ Become(t, [task[t] EXCEPT !.step = "walk", !.doomed = {k}, !.frontier = {k}])
       \/ /\ ~(k \in LiveKeys /\ CanAdminister(By(t), k))
          /\ Done(t)
    /\ UNCHANGED <<rows, used, parent, scopes, owner, group, requests, granted>>

\* collect_key_subtree, one query for each level.
Bug_WalkOneLevel(t) ==
    /\ At(t, "walk")
    /\ Become(t, [task[t] EXCEPT !.step = "plan", !.frontier = {},
                                  !.doomed = @ \cup Daughters(task[t].frontier)])
    /\ UNCHANGED <<rows, used, parent, scopes, owner, group, requests, granted>>

Walk(t) ==
    LET next == Daughters(task[t].frontier) \ task[t].doomed IN
    /\ At(t, "walk")
    /\ Become(t, [task[t] EXCEPT !.step = IF next = {} THEN "plan" ELSE "walk",
                                  !.frontier = next,
                                  !.doomed = @ \cup next])
    /\ UNCHANGED <<rows, used, parent, scopes, owner, group, requests, granted>>

\* inventory_owned_entities, and the client's resolution map checked against it:
\* every inventoried entity resolved, nothing else, and reassigned only to a live
\* tenant key outside the doomed subtree.  Any other map is refused.
Inventory(t) == {e \in LiveEntities : owner[e] \in task[t].doomed}

Bug_HeirsAnyTenant(t) == LiveKeys

Heirs(t) == LiveKeys \ task[t].doomed

Plan(t) ==
    /\ At(t, "plan")
    /\ \/ \E choice \in [Inventory(t) -> Heirs(t) \cup {"delete"}] :
             /\ By(t) \notin task[t].doomed
             /\ Become(t, [task[t] EXCEPT
                   !.step = IF Inventory(t) = {} THEN "purge" ELSE "resolve",
                   !.left = Inventory(t),
                   !.plan = [e \in Entities |-> IF e \in Inventory(t) THEN choice[e]
                                                                         ELSE "keep"]])
       \/ /\ By(t) \in task[t].doomed \/ Inventory(t) # {}
          /\ Done(t)
    /\ UNCHANGED <<rows, used, parent, scopes, owner, group, requests, granted>>

\* The rows that go when entity e goes: webhook_configs.group_id cascades.
Dropped(e) == {e} \cup {h \in Hooks : e \in Groups /\ group[h] = e}

\* One write for each resolution, groups before webhooks.  Neither form fails when
\* the row it names has gone.
Resolve(t) == \E e \in task[t].left :
    LET choice == task[t].plan[e] IN
    /\ At(t, "resolve")
    /\ e \in Hooks => task[t].left \cap Groups = {}
    /\ \/ /\ choice = "delete"
          /\ rows' = rows \ Dropped(e)
          /\ UNCHANGED owner
       \/ /\ choice # "delete"
          /\ owner' = IF e \in rows THEN [owner EXCEPT ![e] = choice] ELSE owner
          /\ UNCHANGED rows
    /\ Become(t, [task[t] EXCEPT !.left = @ \ {e},
                                  !.step = IF task[t].left = {e} THEN "purge" ELSE "resolve"])
    /\ UNCHANGED <<used, parent, scopes, group, requests, granted>>

\* One DELETE for the whole subtree as it was walked.
Purge(t) ==
    /\ At(t, "purge")
    /\ rows' = rows \ task[t].doomed
    /\ Done(t)
    /\ UNCHANGED <<used, parent, scopes, owner, group, requests, granted>>

-----------------------------------------------------------------------------
(* Groups and webhooks: create, delete, hand over *)

RequestGroup(t) == \E by \in AllKeys :
    /\ Authenticate(t, by)
    /\ Holds(by, "can_create_groups")
    /\ Become(t, [Idle EXCEPT !.step = "insertGroup", !.by = by])

\* create_webhook and clone_webhook also want can_read on the group, a right the
\* model of group permissions carries; here any group may pass.
RequestHook(t) == \E by \in AllKeys, g \in Groups :
    /\ Authenticate(t, by)
    /\ Holds(by, "can_manage_webhooks")
    /\ Become(t, [Idle EXCEPT !.step = "insertHook", !.by = by, !.on = g])

InsertGroup(t) == \E g \in Groups \ used :
    /\ At(t, "insertGroup")
    /\ rows' = rows \cup {g} /\ used' = used \cup {g}
    /\ owner' = [owner EXCEPT ![g] = ResourceOwner(By(t))]
    /\ Done(t)
    /\ UNCHANGED <<parent, scopes, group, requests, granted>>

\* The foreign key refuses a webhook whose group has gone.
InsertHook(t) ==
    /\ At(t, "insertHook")
    /\ \/ \E h \in Hooks \ used :
             /\ task[t].on \in rows
             /\ rows' = rows \cup {h} /\ used' = used \cup {h}
             /\ owner' = [owner EXCEPT ![h] = ResourceOwner(By(t))]
             /\ group' = [group EXCEPT ![h] = task[t].on]
       \/ task[t].on \notin rows /\ UNCHANGED <<rows, used, owner, group>>
    /\ Done(t)
    /\ UNCHANGED <<parent, scopes, requests, granted>>

RequestDrop(t) == \E by \in AllKeys, e \in Entities :
    /\ Authenticate(t, by)
    /\ e \in Hooks => Holds(by, "can_manage_webhooks")
    /\ Become(t, [Idle EXCEPT !.step = "findEntity", !.by = by, !.on = e])

\* guard_resource_lifecycle: the master and the owner, and nobody else.
Bug_MayEndLifeIfAncestor(t) == CanAdminister(By(t), owner[task[t].on])

MayEndLife(t) == By(t) = Master \/ owner[task[t].on] = By(t)

FindEntity(t) ==
    /\ At(t, "findEntity")
    /\ \/ task[t].on \in rows /\ MayEndLife(t) /\ Goto(t, "drop")
       \/ ~(task[t].on \in rows /\ MayEndLife(t)) /\ Done(t)
    /\ UNCHANGED <<rows, used, parent, scopes, owner, group, requests, granted>>

Drop(t) ==
    /\ At(t, "drop")
    /\ rows' = IF task[t].on \in rows THEN rows \ Dropped(task[t].on) ELSE rows
    /\ Done(t)
    /\ UNCHANGED <<used, parent, scopes, owner, group, requests, granted>>

\* reassign_group_owner, reassign_webhook_owner: the master only.  The reads that
\* find the entity and, in resolve_owner_assignment, the new owner are one step:
\* the write repeats the first and nothing depends on their order.
RequestOwner(t) == \E e \in LiveEntities, to \in LiveKeys \cup {"unowned"} :
    /\ Authenticate(t, Master)
    /\ Become(t, [Idle EXCEPT !.step = "assign", !.on = e, !.to = to])

Assign(t) ==
    LET e == task[t].on IN
    /\ At(t, "assign")
    /\ owner' = IF e \in rows THEN [owner EXCEPT ![e] = task[t].to] ELSE owner
    /\ Done(t)
    /\ UNCHANGED <<rows, used, parent, scopes, group, requests, granted>>

-----------------------------------------------------------------------------
\* A task ends between two statements: the client hangs up and the handler is
\* dropped, a statement fails, or the process stops.
Abandon(t) ==
    /\ ~At(t, "idle")
    /\ Done(t)
    /\ UNCHANGED <<rows, used, parent, scopes, owner, group, requests, granted>>

Serve(t) ==
    \/ RequestKey(t) \/ InsertKey(t)
    \/ RequestScopes(t) \/ FindEdited(t) \/ WriteScopes(t)
    \/ RequestDeletion(t) \/ FindDoomed(t) \/ Walk(t) \/ Plan(t) \/ Resolve(t) \/ Purge(t)
    \/ RequestGroup(t) \/ InsertGroup(t) \/ RequestHook(t) \/ InsertHook(t)
    \/ RequestDrop(t) \/ FindEntity(t) \/ Drop(t) \/ RequestOwner(t) \/ Assign(t)

Next == \E t \in Tasks : Serve(t) \/ Abandon(t)

Spec == Init /\ [][Next]_vars

-----------------------------------------------------------------------------
\* No key is its own ancestor, deleted ancestors included (delete_api_key: a cycle
\* is "only reachable through direct database edits"): every set of keys has one
\* whose parent lies outside it.
LineageIsForest ==
    \A S \in SUBSET (used \cap Keys) : S # {} => \E k \in S : parent[k] \notin S

\* A key holds only scopes the master gave that key at some time, however the
\* writes of key managers interleave with the master's (R4, guard_scope_elevation).
ScopesTraceToMaster == \A k \in LiveKeys : scopes[k] \subseteq granted[k]

\* d is a or was created, at some remove, by a: parents as recorded at creation.
Descends(a, d) ==
    \A S \in SUBSET AllKeys :
        a \in S /\ (\A k \in used \cap Keys : parent[k] \in S => k \in S) => d \in S

Acts(t) == task'[t] # task[t]

\* A key's row disappears only through DELETE /keys by a key that created it, at
\* some remove: never by a stranger, a sister or a daughter, never by itself
\* (find_administrable_key, "Cannot delete yourself").
OnlyAncestorsDelete ==
    [][\A k \in LiveKeys \ rows' :
          \E t \in Tasks : /\ Acts(t) /\ At(t, "purge")
                           /\ k # By(t) /\ Descends(By(t), k)]_vars

\* Every owner_key_id names a key that exists: one is looked up before it is
\* written, and deleting a key leaves none behind (migration 000008).
OwnersExist == \A e \in LiveEntities : owner[e] \in LiveKeys \cup {"unowned"}

\* Every daughter's parent exists: deletion takes the whole subtree (RBAC 6).
DaughtersHaveParents == \A k \in LiveKeys : parent[k] \in LiveKeys \cup {Master}

\* R4: a key gains a scope, at creation or later, only by the master's hand.
OnlyMasterElevates ==
    [][\A k \in rows' \cap Keys :
          \/ scopes'[k] \subseteq IF k \in rows THEN scopes[k] ELSE {}
          \/ \E t \in Tasks : Acts(t) /\ By(t) = Master]_vars

\* A group or webhook disappears only by the hand of the master or its owner, by
\* an explicit resolution when a key above its owner is deleted, or, for a
\* webhook, with its group (RBAC 3 and 6).
LifecycleByOwner ==
    [][\A e \in LiveEntities \ rows' :
          \E t \in Tasks :
             /\ Acts(t)
             /\ \/ By(t) = Master \/ owner[e] = By(t)
                \/ At(t, "resolve") /\ owner[e] \in task[t].doomed
                \/ e \in Hooks /\ group[e] \in rows \ rows']_vars

\* When the subtree is about to go, every entity its resolution map reassigned is
\* still there, with its new owner (RBAC 6: each entity gets "either deletion or
\* reassignment").
RescuedSurvive ==
    \A t \in Tasks : At(t, "purge") =>
        \A e \in Entities : task[t].plan[e] \in Keys =>
            e \in rows /\ owner[e] = task[t].plan[e]
=============================================================================
