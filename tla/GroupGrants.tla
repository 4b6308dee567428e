------------------------------ MODULE GroupGrants ------------------------------
(***************************************************************************)
(* Who may do what on which IP group: the rows of                          *)
(* api_key_group_permissions, as src/src/api/keys.rs grants and revokes    *)
(* them, groups.rs and records.rs provision them, and the foreign keys     *)
(* take them away.                                                         *)
(*                                                                         *)
(* As in KeyLifecycle, a handler is a task whose steps are its database    *)
(* statements, each with the decisions that follow it.  Scopes are judged  *)
(* on the copy of the caller's row taken at authentication, verbs on rows  *)
(* read statements before the write.  A request refused before its first   *)
(* statement changes nothing; the model lets it stutter.  Handlers that    *)
(* delete keys or groups, or edit scopes, take one step here: KeyLifecycle *)
(* has their statements and who may call them.                             *)
(***************************************************************************)
EXTENDS Naturals, FiniteSets

CONSTANTS
    Master,       \* the one is_master key: no rows, every right
    Keys,         \* tenant keys
    Groups,       \* ids of IP groups: Uuid::new_v4 never repeats one
    Names,        \* names of groups, unique among those that exist
    Verbs,        \* the verbs exercised, out of can_read, _write, _delete, _manage
    Tasks,        \* handler tasks in flight at once
    MaxRequests   \* bound: requests served in all

ASSUME KeyAssumption == Master \notin Keys
ASSUME AbsentAssumption == "none" \notin Keys \cup Groups \cup Names /\ "unowned" \notin Keys
ASSUME VerbAssumption == Verbs \subseteq {"read", "write", "delete", "manage"}
ASSUME BoundAssumption == MaxRequests \in Nat

Scopes == {"can_manage_keys", "can_create_groups"}
AllKeys == Keys \cup {Master}

VARIABLES
    keys,      \* tenant keys whose row exists
    scopes,    \* the global scopes of each key
    groups,    \* groups whose row exists
    used,      \* group ids handed out so far
    name,      \* the name of each group
    owner,     \* owner_key_id of each group
    rows,      \* <<key, group>> pairs with a permission row
    verbs,     \* the verbs set in each row, {} without one
    task,      \* what each handler task is doing
    requests,  \* requests served so far
    conferred  \* history: verbs of each group the master ever granted to
               \* anyone, or that came with its creation

stored == <<keys, scopes, groups, used, name, owner, rows, verbs>>
vars == <<stored, task, requests, conferred>>

-----------------------------------------------------------------------------
Steps == {"idle", "abandoned", "insertGroup", "provision", "gate", "resolve",
          "getOrCreate", "readBack", "readCaller", "judge", "writeRow", "findRow",
          "judgeRevoke", "deleteRow", "findGroup", "record", "audit"}

Operations == {"none", "create", "grant", "revoke", "upsert", "batch"}

Task == [step : Steps, op : Operations, by : AllKeys, scopes : SUBSET Scopes,
         key : Keys \cup {"none"}, group : Groups \cup {"none"}, name : Names \cup {"none"},
         want : SUBSET Verbs, held : SUBSET Verbs, lowers : BOOLEAN, changed : BOOLEAN]

TypeOK ==
    /\ keys \subseteq Keys
    /\ scopes \in [Keys -> SUBSET Scopes]
    /\ groups \subseteq used /\ used \subseteq Groups
    /\ name \in [Groups -> Names]
    /\ owner \in [Groups -> Keys \cup {"unowned"}]
    /\ rows \subseteq keys \X groups
    /\ verbs \in [Keys \X Groups -> SUBSET Verbs]
    /\ task \in [Tasks -> Task]
    /\ requests \in Nat
    /\ conferred \in [Groups -> SUBSET Verbs]

Idle == [step |-> "idle", op |-> "none", by |-> Master, scopes |-> {}, key |-> "none",
         group |-> "none", name |-> "none", want |-> {}, held |-> {}, lowers |-> FALSE,
         changed |-> FALSE]

\* Tenants the master created with any scopes, and no group yet.
Init ==
    /\ keys = Keys
    /\ scopes \in [Keys -> SUBSET Scopes]
    /\ groups = {} /\ used = {}
    /\ name \in [Groups -> Names]
    /\ owner = [g \in Groups |-> "unowned"]
    /\ rows = {}
    /\ verbs = [p \in Keys \X Groups |-> {}]
    /\ task = [t \in Tasks |-> Idle]
    /\ requests = 0
    /\ conferred = [g \in Groups |-> {}]

\* The group of that name, if it exists.
Named(n) == {g \in groups : name[g] = n}

\* What creating a group gives its creator: every verb but can_manage.
Bug_UsageWithManage == Verbs

Usage == Verbs \ {"manage"}

\* The verbs a request may set: write and delete need read.
Wants == {w \in SUBSET Verbs : w \cap {"write", "delete"} # {} => "read" \in w}

\* caller_group_permission; the master has no rows.
Held(k, g) == IF k = Master THEN {} ELSE verbs[<<k, g>>]

Rights(k) == IF k = Master THEN Scopes ELSE scopes[k]
Exists(k) == k \in keys \cup {Master}

At(t, step) == task[t].step = step
By(t) == task[t].by
Ready(t) == At(t, "idle") \/ At(t, "abandoned")
Become(t, record) == task' = [task EXCEPT ![t] = record]
Goto(t, step) == Become(t, [task[t] EXCEPT !.step = step])
Answer(t) == Become(t, Idle)
Reading == UNCHANGED <<stored, requests, conferred>>

Admitted(t) == Ready(t) /\ requests < MaxRequests /\ requests' = requests + 1

\* The task as auth_middleware starts it, with its copy of the caller's scopes.
Caller(by, op) == [Idle EXCEPT !.op = op, !.by = by, !.scopes = Rights(by)]

\* What is left to do after a change: an audit row for op, by its caller.
Auditing(t) == [Idle EXCEPT !.step = "audit", !.op = task[t].op, !.by = By(t),
                            !.key = task[t].key, !.changed = TRUE]

\* A request of a caller that exists, and that passes the handler's first gate.
Request(t, by, scope) ==
    /\ Admitted(t) /\ Exists(by) /\ scope \in Rights(by)
    /\ UNCHANGED <<stored, conferred>>

\* The foreign keys of a permission row.
Referable(k, g) == k \in keys /\ g \in groups

SetRow(k, g, v) ==
    /\ rows' = rows \cup {<<k, g>>}
    /\ verbs' = [verbs EXCEPT ![<<k, g>>] = v]

\* A new group under a name not in use; ResourceOwner is resource_owner.
ResourceOwner(k) == IF k = Master THEN "unowned" ELSE k

NewGroup(t, g) ==
    /\ g \notin used
    /\ groups' = groups \cup {g} /\ used' = used \cup {g}
    /\ name' = [name EXCEPT ![g] = task[t].name]
    /\ owner' = [owner EXCEPT ![g] = ResourceOwner(By(t))]
    /\ UNCHANGED <<keys, scopes, rows, verbs>>

-----------------------------------------------------------------------------
(* POST /groups: create_ip_group *)

Bug_RequestGroupOtherScope(t) == \E by \in AllKeys, n \in Names :
    /\ Request(t, by, "can_manage_keys")
    /\ Become(t, [Caller(by, "create") EXCEPT !.step = "insertGroup", !.name = n])

RequestGroup(t) == \E by \in AllKeys, n \in Names :
    /\ Request(t, by, "can_create_groups")
    /\ Become(t, [Caller(by, "create") EXCEPT !.step = "insertGroup", !.name = n])

\* A name in use is a conflict.
InsertGroup(t) ==
    /\ At(t, "insertGroup")
    /\ \/ \E g \in Groups :
             /\ Named(task[t].name) = {} /\ NewGroup(t, g)
             /\ Become(t, IF By(t) = Master THEN Auditing(t)
                          ELSE [task[t] EXCEPT !.step = "provision", !.group = g, !.changed = TRUE])
       \/ Named(task[t].name) # {} /\ Answer(t) /\ UNCHANGED stored
    /\ UNCHANGED <<requests, conferred>>

\* The creator's row.  A row already there is an error to create_ip_group, and left
\* as it is by handle_ip_upsert.
Provision(t) ==
    LET k == By(t)  g == task[t].group
        next == IF task[t].op = "upsert" THEN [task[t] EXCEPT !.step = "record", !.scopes = {}]
                                         ELSE Auditing(t)
    IN
    /\ At(t, "provision")
    /\ \/ /\ Referable(k, g) /\ <<k, g>> \notin rows
          /\ SetRow(k, g, Usage)
          /\ conferred' = [conferred EXCEPT ![g] = @ \cup (Verbs \ {"manage"})]
          /\ Become(t, [next EXCEPT !.changed = TRUE])
          /\ UNCHANGED <<keys, scopes, groups, used, name, owner, requests>>
       \/ /\ <<k, g>> \in rows /\ task[t].op = "upsert"
          /\ Become(t, next)
          /\ Reading
       \/ /\ ~Referable(k, g) \/ (<<k, g>> \in rows /\ task[t].op = "create")
          /\ Answer(t)
          /\ Reading

-----------------------------------------------------------------------------
(* POST /ban, /white, /batch: handle_ip_upsert and batch_records, as far as they *)
(* create the group they name                                                    *)

RequestRecords(t) == \E by \in AllKeys, n \in Names, op \in {"upsert", "batch"} :
    /\ Admitted(t) /\ Exists(by)
    /\ Become(t, [Caller(by, op) EXCEPT !.step = "findGroup", !.name = n])
    /\ UNCHANGED <<stored, conferred>>

Bug_FindGroupUnasked(t) ==
    /\ At(t, "findGroup")
    /\ IF "can_create_groups" \in task[t].scopes THEN Goto(t, "getOrCreate") ELSE Answer(t)
    /\ Reading

FindGroup(t) ==
    /\ At(t, "findGroup")
    /\ IF Named(task[t].name) # {} THEN Goto(t, "record")
       ELSE IF "can_create_groups" \in task[t].scopes THEN Goto(t, "getOrCreate")
       ELSE Answer(t)
    /\ Reading

\* get_or_create_group: an insert that a name in use turns into nothing ...
GetOrCreate(t) ==
    /\ At(t, "getOrCreate")
    /\ \/ \E g \in Groups :
             /\ Named(task[t].name) = {} /\ NewGroup(t, g)
             /\ Become(t, [task[t] EXCEPT !.step = "readBack", !.changed = TRUE])
       \/ Named(task[t].name) # {} /\ Goto(t, "readBack") /\ UNCHANGED stored
    /\ UNCHANGED <<requests, conferred>>

\* ... and the row of that name read back, whoever made it.
AfterReadBack(t) ==
    IF task[t].op = "grant" THEN "readCaller"
    ELSE IF task[t].op = "upsert" /\ By(t) # Master THEN "provision" ELSE "record"

ReadBack(t) ==
    /\ At(t, "readBack")
    /\ \/ \E g \in Named(task[t].name) :
             Become(t, [task[t] EXCEPT !.step = AfterReadBack(t), !.group = g])
       \/ Named(task[t].name) = {} /\ Answer(t)
    /\ Reading

\* The transaction on records writes its own audit row, or is refused.
Record(t) ==
    /\ At(t, "record")
    /\ Answer(t)
    /\ Reading

-----------------------------------------------------------------------------
(* POST /keys/{id}/groups: update_key_group_permissions *)

\* The group is referred to by id or by name.
RequestGrant(t) ==
    \E by \in AllKeys, k \in Keys, want \in Wants, g \in Groups \cup {"none"},
       n \in Names \cup {"none"} :
          /\ Request(t, by, "can_manage_keys")
          /\ (g = "none") # (n = "none")
          /\ Become(t, [Caller(by, "grant") EXCEPT
                          !.step = IF by = Master THEN "resolve" ELSE "gate",
                          !.key = k, !.group = g, !.name = n, !.want = want])

\* holds_any_group_manage
Gate(t) ==
    /\ At(t, "gate")
    /\ IF \E g \in Groups : "manage" \in Held(By(t), g)
       THEN Goto(t, IF task[t].op = "grant" THEN "resolve" ELSE "findRow")
       ELSE Answer(t)
    /\ Reading

\* The target key and the group: two reads in one step, as neither a key nor a group
\* that has gone comes back.
Resolve(t) ==
    LET named == Named(task[t].name) IN
    /\ At(t, "resolve")
    /\ \/ task[t].key \in keys /\ task[t].group \in groups /\ Goto(t, "readCaller")
       \/ \E g \in named :
             /\ task[t].key \in keys
             /\ Become(t, [task[t] EXCEPT !.step = "readCaller", !.group = g])
       \/ /\ task[t].key \in keys /\ task[t].name # "none" /\ named = {}
          /\ "can_create_groups" \in task[t].scopes
          /\ Goto(t, "getOrCreate")
       \/ /\ \/ task[t].key \notin keys
             \/ task[t].name = "none" /\ task[t].group \notin groups
             \/ named = {} /\ "can_create_groups" \notin task[t].scopes /\ task[t].name # "none"
          /\ Answer(t)
    /\ Reading

ReadCaller(t) ==
    /\ At(t, "readCaller")
    /\ Become(t, [task[t] EXCEPT !.step = "judge", !.held = Held(By(t), task[t].group)])
    /\ Reading

\* widens_permissions, on the target's row as it is read now.
Widens(t) ==
    LET k == task[t].key  g == task[t].group IN
    <<k, g>> \notin rows \/ ~(task[t].want \subseteq verbs[<<k, g>>])

\* guard_group_manage (R2)
Bug_ManagesWithScopeAlone(t, held) == By(t) = Master \/ "can_manage_keys" \in task[t].scopes

Manages(t, held) ==
    \/ By(t) = Master
    \/ "can_manage_keys" \in task[t].scopes /\ "manage" \in held

\* guard_delegated_group_grant (R1 on top of R2)
Bug_MayGrantIfManager(t) == Manages(t, task[t].held)

MayGrant(t) ==
    /\ Manages(t, task[t].held)
    /\ By(t) = Master \/ task[t].want \subseteq task[t].held

Judge(t) ==
    /\ At(t, "judge")
    /\ IF IF Widens(t) THEN MayGrant(t) ELSE Manages(t, task[t].held)
       THEN Become(t, [task[t] EXCEPT !.step = "writeRow", !.lowers = ~Widens(t), !.held = {}])
       ELSE Answer(t)
    /\ Reading

\* The upsert: a row that has gone in the meantime is made again.
WriteRow(t) ==
    LET k == task[t].key  g == task[t].group IN
    /\ At(t, "writeRow")
    /\ \/ /\ Referable(k, g)
          /\ SetRow(k, g, task[t].want)
          /\ conferred' = IF By(t) = Master
                          THEN [conferred EXCEPT ![g] = @ \cup task[t].want] ELSE conferred
          /\ Become(t, Auditing(t))
          /\ UNCHANGED <<keys, scopes, groups, used, name, owner, requests>>
       \/ ~Referable(k, g) /\ Answer(t) /\ Reading

\* The audit row names the caller, by foreign key; a revocation also reads the target
\* again first, and is answered 404 if it has gone.
Recorded(t) == Exists(By(t)) /\ (task[t].op = "revoke" => task[t].key \in keys)

\* The last step, which succeeds and writes the audit row when Recorded.
Audit(t) ==
    /\ At(t, "audit")
    /\ Answer(t)
    /\ Reading

-----------------------------------------------------------------------------
(* DELETE /keys/{id}/permissions/{group}: revoke_key_group_permission *)

RequestRevoke(t) == \E by \in AllKeys, k \in Keys, g \in Groups :
    /\ Request(t, by, "can_manage_keys")
    /\ Become(t, [Caller(by, "revoke") EXCEPT !.step = IF by = Master THEN "findRow" ELSE "gate",
                                              !.key = k, !.group = g])

\* The group and the target's row: one step, as the row is gone when the group is.
FindRow(t) ==
    /\ At(t, "findRow")
    /\ IF <<task[t].key, task[t].group>> \in rows THEN Goto(t, "judgeRevoke")
                                                  ELSE Answer(t)
    /\ Reading

JudgeRevoke(t) ==
    /\ At(t, "judgeRevoke")
    /\ IF Manages(t, Held(By(t), task[t].group)) THEN Goto(t, "deleteRow")
                                                 ELSE Answer(t)
    /\ Reading

DeleteRow(t) ==
    LET k == task[t].key  g == task[t].group IN
    /\ At(t, "deleteRow")
    /\ \/ /\ <<k, g>> \in rows
          /\ rows' = rows \ {<<k, g>>}
          /\ verbs' = [verbs EXCEPT ![<<k, g>>] = {}]
          /\ Become(t, Auditing(t))
          /\ UNCHANGED <<keys, scopes, groups, used, name, owner, requests, conferred>>
       \/ <<k, g>> \notin rows /\ Answer(t) /\ Reading

-----------------------------------------------------------------------------
(* What other handlers write *)

\* The rows left when the others' keys or groups go: the foreign keys cascade.
Bug_CascadeNothing(kept) == UNCHANGED <<rows, verbs>>

Cascade(kept) ==
    /\ rows' = kept
    /\ verbs' = [p \in Keys \X Groups |-> IF p \in kept THEN verbs[p] ELSE {}]

\* DELETE /keys/{id}: a key and its subtree.
DeleteKeys(t) == \E doomed \in SUBSET keys \ {{}} :
    /\ Admitted(t)
    /\ keys' = keys \ doomed
    /\ Cascade({p \in rows : p[1] \notin doomed})
    /\ UNCHANGED <<scopes, groups, used, name, owner, task, conferred>>

\* PUT /keys/{id}: scopes given or taken.
Rescope(t) == \E k \in keys, s \in SUBSET Scopes :
    /\ Admitted(t) /\ s # scopes[k]
    /\ scopes' = [scopes EXCEPT ![k] = s]
    /\ UNCHANGED <<keys, groups, used, name, owner, rows, verbs, task, conferred>>

\* DELETE /groups/{id}
DeleteGroup(t) == \E g \in groups :
    /\ Admitted(t)
    /\ groups' = groups \ {g}
    /\ Cascade({p \in rows : p[2] # g})
    /\ UNCHANGED <<keys, scopes, used, name, owner, task, conferred>>

\* A task ends between two statements and nobody is answered.
Abandon(t) ==
    /\ ~Ready(t)
    /\ Become(t, [Idle EXCEPT !.step = "abandoned"])
    /\ Reading

Serve(t) ==
    \/ RequestGroup(t) \/ InsertGroup(t) \/ Provision(t)
    \/ RequestRecords(t) \/ FindGroup(t) \/ GetOrCreate(t) \/ ReadBack(t) \/ Record(t)
    \/ RequestGrant(t) \/ Gate(t) \/ Resolve(t) \/ ReadCaller(t) \/ Judge(t) \/ WriteRow(t)
    \/ RequestRevoke(t) \/ FindRow(t) \/ JudgeRevoke(t) \/ DeleteRow(t) \/ Audit(t)
    \/ DeleteKeys(t) \/ Rescope(t) \/ DeleteGroup(t)

Next == \E t \in Tasks : Serve(t) \/ Abandon(t)

Spec == Init /\ [][Next]_vars

-----------------------------------------------------------------------------
\* Every verb anyone holds on a group was granted on it by the master at some time,
\* or is one its creation gives: tenants pass verbs on, to each other and at any
\* pace, and never make one up; can_manage in particular exists on a group only once
\* the master has opened it ("Only a master can open a brand-new group up for
\* delegation", keys.rs).
VerbsTraceToMaster == \A k \in Keys, g \in Groups : verbs[<<k, g>>] \subseteq conferred[g]

Acts(t) == task'[t] # task[t]
Widened(k, g) == ~(verbs'[<<k, g>>] \subseteq verbs[<<k, g>>])
Narrowed(k, g) == ~(verbs[<<k, g>>] \subseteq verbs'[<<k, g>>])

\* R2, on the rights as they are when the row is written.
CurrentlyManages(b, g) ==
    \/ b = Master
    \/ b \in keys /\ "can_manage_keys" \in scopes[b] /\ "manage" \in verbs[<<b, g>>]

\* R1, R2, R7: a verb is only gained, outside the creation of a group, from the master
\* or from a key that then manages the group and holds the verb.
GrantsWithinOwnRights ==
    [][\A k \in Keys, g \in Groups : Widened(k, g) =>
          \E t \in Tasks :
             /\ Acts(t)
             /\ \/ At(t, "provision")
                \/ /\ CurrentlyManages(By(t), g)
                   /\ By(t) = Master \/ verbs'[<<k, g>>] \ verbs[<<k, g>>] \subseteq verbs[<<By(t), g>>]]_vars

\* R6: while key and group exist, a verb is only lost to the master or to a key that
\* then manages the group.
RevokedByManagers ==
    [][\A k \in keys', g \in groups' : Narrowed(k, g) =>
          \E t \in Tasks : Acts(t) /\ CurrentlyManages(By(t), g)]_vars

\* Only the key recorded as a group's owner is given verbs for creating it
\* (AGENT.MD 2; get_or_create_group: the loser of the race "did not").
OnlyCreatorsProvisioned ==
    [][\A k \in Keys, g \in Groups : Widened(k, g) =>
          \E t \in Tasks : Acts(t) /\ (At(t, "provision") => owner[g] = k)]_vars

\* R6, "Revocation is never escalation": an update judged as a reduction gives its
\* target nothing the target does not have.
ReductionsNeverWiden ==
    [][\A t \in Tasks : Acts(t) /\ At(t, "writeRow") /\ task[t].lowers =>
          ~Widened(task[t].key, task[t].group)]_vars

Answered(t) == Acts(t) /\ task'[t] = Idle

\* A request that changed a group or a row is answered only by the step that writes
\* its audit row (AGENT.MD 6).  This fails, see README 3.
ChangesAreAudited ==
    [][\A t \in Tasks : Answered(t) /\ task[t].changed =>
          At(t, "record") \/ (At(t, "audit") /\ Recorded(t))]_vars

\* A tenant whose records request makes a group, and comes through, may use the group:
\* it then has the row that creating a group gives (AGENT.MD 2).  This fails, see README 3.
CreatorsMayUse ==
    [][\A t \in Tasks :
          Answered(t) /\ At(t, "record") /\ task[t].changed /\ By(t) # Master
             => <<By(t), task[t].group>> \in rows]_vars

\* Every change of groups, scopes and verbs is, at the moment it is made, one that
\* AccessControl lets the caller of the request make: a group is created under the scope
\* for it, its owner and nobody else is provisioned, a verb is passed on by a manager that
\* holds it, and taken by a manager (RBAC_MODEL.md R1, R2, R6, R7).  It is AccessControl's
\* Spec with each act put down to whose request it is.
Access == INSTANCE AccessControl

RulesHoldThroughout ==
    /\ Access!Init
    /\ [][Access!Lose \/ \E t \in Tasks : Acts(t) /\ Access!Act(By(t))]_Access!access
=============================================================================
