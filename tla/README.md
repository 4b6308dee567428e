# A verification of simply_firewall

simply_firewall is a multi-tenant service (Rust: Axum, SeaORM, SQLite) that keeps lists of banned
and allowed addresses, grouped into IP groups, hands them to firewalls, and notifies webhooks of
changes. This directory holds TLA+ modules translated from its source, TLC configurations that
model-check them, and proofs checked by TLAPS. Paths below are relative to the repository.

## 1. The system

| Component | State | Operations | Interacts with |
| :-- | :-- | :-- | :-- |
| **Request authentication** `middleware.rs`, `replay.rs` | the replay guard's map of signatures and its sweep schedule, in memory | `auth_middleware`, `check_and_record`, `prune_if_due` | every handler gets the caller's row as copied here |
| **Key lifecycle** `api/keys.rs`, `api/guards.rs` | `api_keys`: parent, global scopes, credentials | create, update, delete a subtree with a resolution map, rotate | owns groups and webhooks by `owner_key_id`, which has no foreign key |
| **Group permissions** `api/keys.rs`, `api/guards.rs` | `api_key_group_permissions`: four verbs per key and group | grant, reduce, revoke; provisioned by whoever creates a group | rows cascade with keys and groups; judged by every record handler |
| **IP groups** `api/groups.rs`, `api/support.rs` | `ip_groups`: unique name, type, owner | create, auto-create, delete, reassign owner | memberships, permission rows, webhooks cascade with it |
| **IP records** `api/records.rs` | `ip_records` (lock and soft-delete flags, timestamps), memberships | ban, white, batch, soft delete, restore, purge, delta listing | creates groups on the way; enqueues webhook events after commit |
| **Webhook configuration** `api/webhooks.rs` | `webhook_configs`: target, auth mode, events, retries | create, update, clone, delete, test, reassign | read by the dispatcher at delivery time |
| **Webhook dispatch** `dispatch.rs`, `state.rs` | a bounded channel, workers, deliveries in flight, `webhook_executions` | enqueue (drops when full), deliver with retries, drain at shutdown | fed by record handlers, reads configurations |
| **Retention** `retention.rs` | none of its own | purge of old soft-deleted records and executions | races record handlers on the same rows; shutdown waits for it |
| **Master pin and boot** `master.rs`, `main.rs`, `db.rs` | the pinned master id, set once | migrate, bootstrap, canary, pin, serve, shut down | authentication demotes any other row flagged master |
| **Configuration, client address** `config.rs`, `extract.rs` | parsed settings; the cache of resolved proxy names behind a readers-writer lock | prime, refresh, resolve a client's address | the address the `bound_ips` check judges |
| **Cryptography** `crypto.rs` | the cipher | XChaCha20-Poly1305, HMAC-SHA256 | authentication, webhook signing |
| **Audit, health, routing** `api/audit.rs`, `api/health.rs`, `api/mod.rs`, `api/support.rs` | `audit_logs` | append, list, probe | last statement of each mutating handler |

### What is hard about it

*Almost no handler runs in a transaction.* Outside records' upsert, batch and hard delete, a handler is a
sequence of autocommitted statements under the copy of the caller's row taken at authentication.
Handlers interleave at every `await`, and a client that hangs up drops the handler between two of
them. So every decision may be stale when it is acted on, and every multi-statement change may
stop half-way: the lineage walk and the later `DELETE`, the inventory and the resolutions, the
judgement of a grant and its upsert, the creation of a group and the row that lets its creator
use it, a change and its audit row.

*The replay guard* is one map behind several lock sections with one clock reading kept across
them, while the freshness check uses a different clock and a window that is symmetric in time.

*Records* are rows found by address, shared by the groups that hold them. Some handlers write them
in a transaction with a stamp taken before it; others judge a copy and write it later. Two kinds of
consumer follow them: one polls by stamp, the other gets events sent after the commit.

*Dispatch* is best effort with a bounded queue, workers that share one receiver behind a lock,
retries, and a drain at shutdown.

*Starting* may happen twice at once on one database, be killed between any two statements, and
meet rows and a schema that an operator has edited. *Proxy names* are looked up under a write lock
every request needs, and the client that pays for a lookup may hang up in the middle of it.

What makes each component correct, in one line each:

* authentication: no signature is accepted twice within a window, no first use is refused as a
  replay, nothing is told to a caller without the secret, and the map neither grows for ever nor
  forgets early;
* keys: lineage is a forest, only the master elevates, deletion takes the whole subtree and
  leaves no dangling owner, entities end only by their owner, the master, or an explicit resolution;
* permissions: nobody grants what it does not hold (R1), managing takes both halves (R2), revoking
  never escalates (R6), every verb traces to the master or to the group's creation, changes are audited;
* records: a lock holds against every registration, only the entitled put a record in the trash, a
  client that polls `since` its last poll misses no change, an event tells what is so;
* webhooks: one that signs has a secret, shared with another only where a client supplied it, neither
  a secret nor an api_key ends up at a destination that nobody who may chose for it, and whoever has
  a webhook cannot turn it to a group it may not read;
* dispatch: each event is dropped at once or tried on every webhook that wants it, each given one
  result after a bounded number of attempts, and nothing accepted is left undone at shutdown;
* boot: one master in a database, one identity with master rights in a process whatever is written
  to the table, and no serving with a key other than the one secrets were sealed with;
* client address: forged headers move nothing, trust follows the names, and the lock that lookups
  are made under starves nobody.

`PROJECT.json` lists the hazards behind these, each at its line, with the properties that cover it.

## 2. The modules

| Module | Models | Proofs | TLC instance |
| :-- | :-- | :-- | :-- |
| `RequestAuth` | `auth_middleware` around `ReplayGuard` | `RequestAuthProofs` | `MCRequestAuth` |
| `KeyLifecycle` | creating, re-scoping and deleting keys; creating, deleting, reassigning what they own | `KeyLifecycleProofs` | `MCKeyLifecycle` |
| `AccessControl` | abstract: who may change which group and which verbs | | |
| `GroupGrants` | permission rows: granting, revoking, provisioning, cascades; keeps to `AccessControl` | `GroupGrantsProofs` | `MCGroupGrants` |
| `Records` | records, their groups, the purge, and the two ways to follow them | `RecordsProofs` | `MCRecords` |
| `WebhookStream` | abstract: what the webhook stream promises | | |
| `Dispatch` | queue, workers, deliveries, shutdown; implements `WebhookStream` | `DispatchProofs` | `MCDispatch` |
| `Boot` | migration, bootstrap, canary, pin, serving of several instances | `BootProofs` | `MCBoot` |
| `Webhooks` | the rows of `webhook_configs` and their handlers | `WebhooksProofs` | `MCWebhooks` |
| `ClientAddress` | `TrustedProxies` and `resolve_client_ip` | `ClientAddressProofs` | `MCClientAddress` |

Operators named `Bug_...` are deliberately wrong variants of the definition they precede; no
specification uses them. Each shows that some property would notice the mistake.

Where handlers are modelled, a handler is a *task* and its steps are its database statements, each
with the decisions that follow it. A request refused before its first write changes nothing: it
stutters or is left out. Ids are used once (`Uuid::new_v4` is taken never to repeat). Variables
called history record what was so; no guard reads them.

### RequestAuth

One API key's requests. A task (`req[r]`) goes through the phases of `auth_middleware`:
`Arrive` (freshness, before any database work), `Verify` (key row and body awaited, HMAC),
the guard's lock sections `ReadSize`, `Decide`, `Sweep`, `CheckAndRecord`, and `Authorize`
(`bound_ips`, last). `seen` is the guard's map from signature to the instant it is forgotten,
`schedule` its `PruneSchedule`. The clock reading `check_and_record` takes once and keeps is
`req[r].now`. Time is the monotonic `clock` in seconds and `offset`, by which the wall clock
differs; `StepWallClock` sets it, `Restart` empties the guard and drops every task. A signature is
its digest and timestamp; whether a request is authentic and inside the key's networks is chosen
when it arrives. `uses` and `lastUse` are history.

### KeyLifecycle

`rows` holds the ids of keys, groups and webhooks that exist, `used` those ever handed
out, `parent`, `scopes`, `owner`, `group` the columns.
Deleting a key is `FindDoomed` (target and authority), `Walk` (one query per level),
`Plan` (inventory, and the client's resolution map checked against it), `Resolve` (one write per
entity, groups before webhooks, as the handler does it), `Purge` (one `DELETE`). `Abandon` ends a
task between two statements. `granted` is history: what the master ever gave each key.

Three groups of reads are one step each: the walk that establishes authority over a target
(parents are never rewritten and deletions can only make it fail), the two inventory queries, and
the two reads of a reassignment. Permission and audit rows are not in this module. Webhook
creation also needs `can_read` on the group, which `Webhooks` carries; here any group may pass,
which only adds behaviours. Rows older than the lineage columns, whose parent is `NULL`, are not
modelled.

### AccessControl and GroupGrants

`AccessControl` is the rules of `RBAC_MODEL.md` on groups and verbs with everything that makes the code
hard left out: no requests, no copies, no rows; a change is one step and its author has the right to
it at that step (`Found`, `Provision`, `Grant`, `Revoke`, collected in `Act(b)`). What handlers outside
`GroupGrants` take away is `Lose`, whose authors `KeyLifecycle` has. `GroupGrants` is the code, and
`RulesHoldThroughout` compares the two under the identity mapping: every step is a `Lose`, an `Act` of
*the caller of the request that took the step*, or changes nothing there. It is stronger than the
abstract `Spec`, which would let any key at all be the author.

`rows` are the key-group pairs with a row and `verbs` what
each row sets; `conferred` is history: the verbs of each group the master ever granted, or that came
with its creation. A grant is `Gate`, `Resolve`, (`GetOrCreate`, `ReadBack`), `ReadCaller`, `Judge`,
`WriteRow`, `Audit`; a revocation `Gate`, `FindRow`, `JudgeRevoke`, `DeleteRow`, `Audit`. `ReadCaller`
and `Judge` are two steps because the code reads the caller's row and the target's in two statements.
`InsertGroup`, `Provision` are `create_ip_group`; `FindGroup`, `GetOrCreate`, `ReadBack`, `Provision`
are the first half of `handle_ip_upsert` and `batch_records`, whose record transaction is the single
step `Record` here. Deleting keys and groups and editing scopes are one step each: `KeyLifecycle`
has their statements. Merged reads: a target key and a group, or a group and a row, when neither
can come back once gone. A group is named by id or by name, exactly one of them; the fallback of a
name written into `group_id` reads the same row and is not modelled apart. `step = "idle"` is a task
that has answered, `"abandoned"` one that ended unanswered, so that properties about answers do not
speak of requests that were cut off.

### Records

`row` is `ip_records` by address, `id` telling a row from the one that took its address after it;
`members` the memberships; `rights` the permission rows, given at first, added to by whoever creates
a group, gone with the group. `POST /ban` and `/white` (`RequestUpsert`, `Upsert`), the batch in both
modes (`RequestBatch`, `Batch`) and `DELETE /ips` (`RequestUnlink`, `Unlink`) read the group and the
caller's rights and take the time in one step, and are one immediate transaction in the next;
`Announce` hands over their events after the commit. `DELETE /ips/{id}` (`RequestDelete`, `Judge`,
`Write`) and the restore (`RequestRestore`, `Restore`) have no transaction. `Purge` is the worker's or
the endpoint's, `OperatorLocks` an edit of `is_locked`, which no endpoint sets.

Two consumers follow the group `Watched`. One polls: `Poll` applies what `list_ips` answers to `since`
with deleted records, to `mirror`. The other receives events: `news[a]` is what the last event said
of an address if that event was sent for the last change of its row, or the task that has yet to
send it, or `"none"` when no event is to come. `silent` is history: rows whose last change a poll
cannot see by the code's design (a restore does not touch `last_seen_at`; a batch stamps rows with
the client's times; a stamp taken before a poll is committed after it). `held` and `founded` are
history.

### WebhookStream and Dispatch

`WebhookStream` is the promise: an event is dropped or accepted at once; an accepted one is tried on
webhooks, each given at most one result; it is settled; the service stops once every accepted event
is. `Dispatch` is the code: `Enqueue` (`try_send`), the workers' `TakeLock`, `Recv`, `Fetch` (which
webhooks), `Join` and `Spawn` (room in the join set, then a delivery task), `Reap`, `Leave` (drain and
end), a delivery's `Screen` (destination and template), `Attempt`, `Retry`, the retention workers'
`Sweep` and `StopSweeping`, and `Close` and `Stop` of `main`. `KeepsItsPromise` is
`WebhookStream`'s `Spec` under a refinement mapping: `Fate` is read off who still has work to do for an
event, `Result` off its delivery.

### Boot

`schema` is the marker column (assigned by the application, or derived by the database), the unique
index on it and the row of `seaql_migrations`; `masters` the rows with `is_master`; `sealing[k]` the key the
secret of `k` was sealed with; `instance` what each process is doing. A start is `Start`, `Plan`, the
migration (`Check`, `DropIndex`, `DropColumn`, `AddColumn`, `AddIndex`, `Record`: statements of their
own, as `sea-orm-migration` runs them on SQLite and MySQL), `Find`, `Mint`, `Canary`,
`Pin`, `Verify`, then serving: `Act` is a request that needs the Master, `Issue`, `Rotate`, `Delete` what
happens to keys and their seals. `Exit` kills an instance anywhere. `Tamper` is an operator's SQL.
`tampered`, `overlap` and `sealedWith` are history; `overlap` says that two instances ran the
migration's statements together, or one ran them after it had been recorded.

### Webhooks

`hook` has the columns guards look at: `aim` (target and `hmac_template`, which the code treats
alike), `mode`, `secret`, `apikey`, `group`, `owner`. A secret is a number: 0 the empty one, up to
`Coined` one that clients come up with, above that one `generate_signing_secret` made (`Made`, the next
after `minted`). What a client sends is stored as it is (`webhooks.rs:182`, `:577-582`), so it may be any
that exists (`Sent`), one another webhook has included. `Find` copies the row; `Update` judges the merge
of payload and copy (`MayUpdate`, `MustRotate`), and `Write` is the one `UPDATE` of the columns named.
`Create` and `Clone` end in `Insert`; `Reassign`, `Delete`, `Test`, `FindExecution` and `Forget` are the
other handlers. `Regrant` and `RemoveGroup` happen in between, and so does `Resolve`, what
`delete_api_key` does to a webhook of a key that goes: hand it to any key but the Master, or drop it.
Which webhooks a deletion finds is `KeyLifecycle`'s matter; its inventory may be out of date when it
writes, so here it is any webhook, at any time, each resolution a request of its own. History:
`chosen`, which credential was asked for at which aim, for which webhook; `given`, which secret a
client supplied for which webhook; `vouched`, on which group a key was given a webhook, by the Master
or by whoever deleted a key; `stale`, that an update was written over a row other than its copy.

### ClientAddress

`hosts`, `snapshot` and `built` are `ResolutionCache`, `lock` its writer, `lookup` the query its holder
awaits. `Read` takes the snapshot if it is fresh; `Acquire` takes the write lock and looks up the first
name that is due; `Record` writes an answer and goes to the next, or merges and hands out. `Boot` is
the task of `prime_with_grace`. `HangUp` drops a request at any await, `Move` changes what a name
resolves to, `Tick` lets a second pass. `ResolveClientIp` is the walk, over sequences of addresses;
`Normal` undoes an IPv4-mapped spelling. Ages are counted up to the value past which nothing tells
them apart. `since` and `quiet` are history.

## 3. What TLC checks

| Run | Instance | States | Shows |
| :-- | :-- | --: | :-- |
| `guard` | 2 tasks, 1 request body signed 3 s before the start and 1 s after it, map full at 1, wall clock stepped back, holds and stalls of 1 s, 8 s, restart at any time | 0.61 M | the guard's promises, per boot, under every interleaving of its lock sections |
| `key_life` | 1 task, 3 keys, a group, a webhook, `can_manage_keys` and `can_create_groups`, 6 requests | 0.37 M | the rules of `RBAC_MODEL.md` 2, 3 and 6 with requests one at a time, each cut off anywhere |
| `grants` | 1 task, 2 keys, 2 groups, 2 names, read/manage, 3 requests | 0.45 M | creation, R1, R2, R6, R7 as `AccessControl` states them, with requests one at a time, each cut off anywhere |
| `records` | 2 tasks, a writer, a deleter and the Master, 1 address, 2 groups, 3 seconds, 2 requests | 1.74 M | locks, entitlement, polling and events under every interleaving of two handlers, the purge and an operator |
| `dispatch` | 2 events, 2 webhooks, 2 workers, 1 retention worker, capacity 1, 1 in flight, 1 retry | 75 k | the refinement with its fairness, the bound in flight, and that shutdown ends |
| `boot` | 2 instances, 3 keys, 1 cipher or none, 4 starts | 0.35 M | one master under concurrent, killed and repeated starts and an operator's edits |
| `webhooks` | 2 tasks, 2 tenants and the Master, 2 groups, 2 webhooks, 2 aims, 3 modes, 1 secret of the clients', 2 requests | 3.71 M | where secrets and keys may end up, and what a webhook may watch, whatever interleaves |
| `client` | 2 requests and the priming task, 2 names and a literal, TTLs 2 and 1, lookups up to 1 s, grace 1 s | 0.16 M | trust, spacing of lookups, the walk on every route up to 3 hops, and no starvation |

The remaining runs are disagreements between the code and what the repository says of it. Each
checks one property and TLC finds it violated; `PROJECT.json` "findings" quotes the sentence.

| Run | Property | What happens |
| :-- | :-- | :-- |
| `single_use` | `SingleUse` | a signature stamped 300 s ahead is forgotten after 300 s and stays fresh for 600 |
| `rescued` | `RescuedSurvive` | a reassigned webhook goes with the group the same map deletes; no concurrency needed |
| `reduction` | `ReductionsNeverWiden` | an update judged a reduction re-creates a row revoked meanwhile |
| `writes_delete` | `WriteDoesNotDelete` | a batch with `is_deleted: true` trashes a record for a key without the delete verb; no concurrency needed |

### Properties that hold only one request at a time

Eight properties hold with one task and fail with two (set `Tasks` to two in the configuration, and
the other bounds down, to see each; those of `grants` sooner from a state with a group and its rows). The guards are right; they are applied to stale reads. Each
property fails by one kind of overlap, which a formula of the proof module names, and section 4
proves it for any number of tasks when that overlap does not happen. All but
`OnlyCreatorsProvisioned` are checked with one task, in `key_life` and `grants`; that one follows from
`RulesHoldThroughout`.

| Property | What breaks it | Proved when |
| :-- | :-- | :-- |
| `DaughtersHaveParents` | a daughter created between the walk and the `DELETE` outlives its parent (`keys.rs:906`) | `DeletionsApart` |
| `OwnersExist` | `create_ip_group` inserts a group for a key deleted since authentication (`groups.rs:69`), after the deletion took its inventory | `DeletionsApart` |
| `OnlyMasterElevates` | a manager re-submitting a scope the target held when it was read gives it back after the master took it away (`keys.rs:1000`) | `ScopeWritesApart` |
| `LifecycleByOwner` | an owner's `DELETE` goes through after the group was handed to another key | `HandoversApart` |
| `RevokedByManagers` | a manager's revocation is judged, and it stops being a manager before the row goes | `CallersStand` |
| `GrantsWithinOwnRights` | a right lost between judgement and write is still passed on (`keys.rs:1229`), or a row reduced meanwhile is put back | `CallersStand`, `TargetsStand` |
| `OnlyCreatorsProvisioned` | the loser of a race to create a group is given read, write and delete on the winner's (`records.rs:201`), although `support.rs:218` says of it that it did not create it | `NamesApart` |
| `RulesHoldThroughout` | any of the last three, or a key creating a group after its scope or the key itself was taken away | those, and `FoundersStand` |

`VerbsTraceToMaster` and `ScopesTraceToMaster` are what remains true under every race, and they are
proved without a hypothesis.

### Stated, and false of the code

Four properties are stated in a module, are checked by no run, and fail. Adding one to the
module's configuration shows the behaviour.

* `GroupGrants.ChangesAreAudited`: a refused grant leaves the group it created, without an audit row
  (`keys.rs:1214`); no concurrency needed.
* `GroupGrants.CreatorsMayUse`: a batch creates a group its creator has no right to use
  (`records.rs:1474`), while `AGENT.MD:184` wants permissions generated for it; no concurrency needed.
* `Boot.CanaryProvesTheKey`: `verify_encryption_key` tries one row, whichever the query returns
  (`main.rs:198`), and says it proves the key (`main.rs:178`). Once secrets sealed with two keys are
  in the table, or plain ones beside sealed ones, a start may pass with a key that opens the one
  and not the others. What holds, `ServesWithTheKey`, is for tables sealed with one key.
* `Webhooks.SecretKeepsItsDestination`: two updates that cross, one of the target and one of the
  secret, leave a secret used against a destination it was not configured for, which
  `webhooks.rs:400-401` excludes. Each was judged on the row it copied and writes the columns it names
  (`webhooks.rs:644`). In the same way two updates may leave `API_KEY_ONLY` without an api_key, and an
  owner's update judged before the Master set an api_key repoints the webhook after
  (`webhooks.rs:411`, `:560`). That is why `CredentialsStayPut` says `~stale`.

### What the exceptions in the properties stand for

An exception is a behaviour the code has and the property would otherwise forbid.

* *Authentication.* A restart forgets every signature (`replay.rs:149`): `AcceptedOncePerWindow` is per
  boot.
* *Groups.* A group whose creation is cut off before its creator's row is written stays without one
  (`groups.rs:92`).
* *Polling* (`PollMissesNothing`, `silent`). Restores, client stamps and late commits may be missed
  by a poll. What leaves the group altogether (an unlinking, a purge, the removal of the group)
  never appears in one: the property speaks of records still in it.
* *Events* (`EventsTellTheTruth`). A record a batch trashes itself (`is_deleted: true`) is announced as
  added or updated; such news counts as none. A soft delete by id, a restore and a purge send no
  event.
* *Locks* (`LockHolds`). `entities/ip_record.rs:22-25` says a locked record cannot be updated or
  deleted through the API. Restores and purges do not look at the lock, the removal of a group
  takes its memberships, and a delete by id judges a copy read before the lock.
* *Times.* A batch may give `deleted_at` a time in the past, and the record is purged early; two
  racing deletions move `deleted_at` and `deleted_by` to the second.
* *Boot* (`~tampered`, `~overlap`). Two instances that migrate together interleave the statements of
  `m20260808_000009`, one dropping what the other has made, after both passed the check for several
  masters (`:110`). A crash inside the migration leaves a schema on which its first statement fails,
  so that no later start gets further; none serves either, which is the safe side. `db.rs:17-19`
  ("there is no DDL left to run against it") is so per process only. The retention workers start
  before the pin is taken, in a process that may yet refuse to serve.
* *Webhooks* (`ReachWasGranted`, `vouched`). `can_read` is judged when a webhook is created or moved
  (`webhooks.rs:134-135`); one whose owner loses the right afterwards keeps sending. Nobody asks what
  a new owner can read: not when the Master reassigns a webhook, and not when whoever may delete a
  key, a tenant with `can_manage_keys` included, resolves its webhooks (`keys.rs:885-893`;
  `guards.rs:114` asks only that the heir exists and is not the Master). The heir then has a webhook on a
  group that it may never have read and that the Master never gave it, and may change its target.
  What holds is that no owner gets to such a group by its own requests.
* *Secrets* (`SecretsApart`, `given`). A client may supply one secret for several webhooks, and nothing
  compares them (`webhooks.rs:182`, `:577-582`). What holds is that the code itself never spreads one.
* *Client address.* `TrustFollowsTheNames` allows an address to outlive its name by the positive
  TTL and the time of lookups under way. A lookup cut off by a hang-up records nothing, so "one query
  per name per interval" (`config.rs:451-452`) holds for lookups that finish. Of several
  `X-Forwarded-For` lines the first is read (`config.rs:1009`): `LastStrangerIsTheClient` is for
  proxies that append to the one line. A configured literal written IPv4-mapped never matches.

### Bounds, and why they are enough

* `MaxRequests` bounds how many requests are served in all. Three are enough for a grant judged,
  a right taken away, and the grant written; deleting a two-level subtree with a resolved entity
  takes five. In `records` and `webhooks` two requests are two handlers that overlap or follow
  each other, and the initial states supply what earlier requests would have made: a record in
  the group or none, a webhook without a secret or with one that was made, in any mode that suits.
  In `webhooks` a resolution of a deleted key counts as a request, and an update names one column
  beside the secret, or two when neither is the group, whose guard looks at nothing else. The purge, the operator, the poll and the
  clock are not bounded by it.
* The number of ids bounds creations: ids are used once, as the code's random UUIDs are.
* `records` has one address: rows are independent but for the sets a batch writes, which the proofs
  cover for any number. Two groups are needed for a record that is deleted by a right on the
  other one. A clock of 0 to 2 with `Retention` 1 lets a record be deleted, kept and purged, and a
  stamp be older than a poll. `ClientTimes` of {0} is a stamp in the past.
* `MaxClock`, `MaxHold`, `MaxStall` of `guard` bound the clock and how long a request is held before, and
  inside, the guard. A signature may be a window old when the process starts, which is when it is
  last fresh; the clock of 8 goes past the time the map then forgets it, with steps of the wall clock
  after that (`AgedSignatureIsSpent`). The windows are scaled down with the ratios that matter kept: a
  sweep interval shorter than the window, capacity sweeps more often than routine ones.
* `dispatch`: capacity 1 fills and drops with two events; one in flight with two webhooks makes a
  worker wait for room; one retry separates a first from a last attempt; two workers contend for
  the receiver. The second webhook wants one of the events only.
* `boot`: two instances are the race; four starts let both crash and start again; three keys are a
  master, another instance's, and a tenant's. "plain" and one cipher are the two seals a table can
  mix.
* `client`: TTLs of 2 and 1 and lookups of up to 1 keep the order NEGATIVE < POSITIVE and let an
  entry expire while another is looked up. Routes are every sequence of up to two of a stranger, a
  named proxy and a literal one, and those of three that start at a stranger, the last hop spelt
  either way; a client claims nothing, junk or an address.
* Requests end at the bound and ids, starts and events run out, so the runs stop and have
  `CHECK_DEADLOCK FALSE`, all but `guard`, `single_use` and `client`, whose tasks can always go on.
* Symmetry is over ids and tasks no definition tells apart, in runs without liveness only:
  `dispatch` and `client` have none.

### Fairness

Handlers may be abandoned at any statement, so no handler is obliged to finish, and six modules
assume no fairness. The other two:

* `Dispatch`: weak fairness of each worker, each delivery, each retention worker and of `Stop`, since
  tokio polls every task that is ready and an attempt ends at the HTTP client's timeout. A retention
  worker chooses between its next tick and the closed channel; ticks come a second or more
  apart, so the closed channel is seen in between: strong fairness of `StopSweeping`. Nothing is assumed of
  `Enqueue` and `Close`. Under this TLC checks `ShutdownEnds` and the liveness half of the refinement:
  every accepted event is settled.
* `ClientAddress`: tokio's `RwLock` is fair to its waiters in order of arrival, hence strong fairness
  of each request's `Read` and `Acquire`; the resolver answers or fails, hence weak fairness of
  recording, whoever holds the lock. Nothing is assumed of clients, names or the clock. Under this
  `EveryRequestGoesOn`.

## 4. What is proved

TLAPS proves these for every value of the constants that satisfies the `ASSUME`s of the module
(distinctness of ids, ranges of numbers, finiteness where something is counted; nothing about
sizes). Every module has its `TypeOK` proved. Each proof follows one plan: an invariant `IInv`,
`TypeOK` with the strengthenings named below, shown to hold at first and to be kept by every
action, one lemma or step per action; the theorem is then a temporal step. `PROJECT.json`
"theorems" lists them.

**RequestAuthProofs.** `OncePerWindow`, `VerdictJustified`, and `NetworkJudgedLast`, which proves
`ForbiddenOnlyAfterProof` (no run has it). The invariant ties the map to the history: an entry is
exactly the last acceptance of its signature plus a window (`EntryIsLastUse`), and is there while
the window lasts (`LiveIsRemembered`). The types carry the fact that makes it inductive: a task's
clock reading is never in the future, so a slow task's sweep cannot remove what a faster one still
needs.

Three more results rest on how long a request is held. `HeldRequestsWereFresh` (`HInv`) bounds the age
of a reading by `MaxHold` and `MaxStall`, and ties it to the freshness check it passed, on a wall clock
that showed it then. `SweepsRelease` proves `ExpiredAreReleased` when `MaxStall < Window`: between a
claim of the schedule and its sweep somebody owes that sweep (`SweepIsOwed`), and no entry made with
an older reading has expired by then. TLC finds the property false at `MaxStall = Window`, so the
hypothesis is as weak as it can be; a task stalled 300 s between two locks is not one the service
has. `LateIsSpent` proves `AgedSignatureIsSpent`. `ThreeUsesAtMost` says how far the documented single
use, which `single_use` refutes, can fail: three acceptances per boot when holds, three stalls and the
spread of the wall clock together stay below the window. Every acceptance moves the earliest wall
clock the next can have by a window less a stall (`UsesAdvance`), and freshness spans two windows.

**KeyLifecycleProofs.** Without a hypothesis, for any number of tasks: `AncestorsDelete`
(`OnlyAncestorsDelete`), and `LineageAcyclic` (`LineageIsForest`) and `ScopesFromMaster`
(`ScopesTraceToMaster`), which no run has. A lineage stays a forest because a fresh id has no
daughters, which needs every recorded parent to be a used id (`ParentsUsed`); scopes trace to the
master because what a task is about to write does (`ScopesWarranted`), established when it was judged
and never invalidated, as `granted` only grows; deletion stays below the caller because what a walk
has collected does (`DoomedDescend`).

With the overlap that breaks them excluded, still for any number of tasks: `OwnersKept`, `ParentsKept`
(`DeletionsApart`: no deletion of keys overlaps a request about to create or hand over a row, nor
another deletion), `ElevationIsMasters` (`ScopeWritesApart`: no two requests are about to write the
scopes of one key), `LifecycleIsOwners` (`HandoversApart`: nobody is about to hand over what another is
about to delete). The first two need a deletion's progress in the invariant (`Sound`): the daughters
of the keys the walk is done with are among the doomed, and what the doomed own is on the list with
an heir that is alive and stays so. `ServedOneByOne` shows that one task meets all three hypotheses, so
what `key_life` checks on three keys holds of any number.

**GroupGrantsProofs.** `TypeCorrect` includes that no permission row outlives its key or group.
`VerbsFromMaster` follows a grant through its steps: what a
task read of its caller's row, and what a tenant is about to write, was conferred on that group
(`Warranted`). Rights read long ago may be gone from the table, but not from the history, and that
is exactly why the theorem holds where `GrantsWithinOwnRights` fails.

The rest is for any number of tasks under hypotheses on the *other* tasks' steps: `CallersStand` (they
leave the key, the scopes and, once it has been read, the row of whoever is granting or revoking, or
grow them), `TargetsStand` (they take nothing from a row whose reduction has been decided),
`FoundersStand` (as the first, for whoever may yet create a group), `NamesApart` (nobody creates a
group of the name a record request is creating). `RevocationsAreManagers` needs the first,
`GrantsAreWithinRights` the first two, `FoundersAreProvisioned` the last. `ReductionsReduce` needs
`TargetsStand` alone: the disagreement `reduction` shows has no other cause. `RulesKept` needs all four and
proves `RulesHoldThroughout`: that the statements of concurrent handlers, each judged on copies,
implement `AccessControl`, judged on the rights as they are. TLC finds a counterexample as soon as any
one of the four is dropped. The invariants say that every copy a task leans on still holds:
`Entitled` (its caller manages the group, and has at least the verbs that were read), `Within` (what it
will write is its caller's or already the target's), `Lowers`, `Founds`, `Chartered`. `ServedOneByOne`
shows that one task meets all four hypotheses.

**RecordsProofs.** `EntitledTrash`, `PollsMissNothing`, `EventsTrue`, `LocksHold`. A right is one given or
one that came with a group the key founded (`RightsTraced`); a member's group has held its row
(`HeldTraced`); a task carries what it was judged to be entitled to, on copies (`Carries`); a change
whose event is to come is known to the task that will send it, with what it will say
(`NewsTraced`). Writers share one lemma: rows outside the set they change keep everything
(`Kept`), and those inside come out renewed.

**DispatchProofs.** `InflightHeld`, `NothingIsLeft`, and `PromiseKept`: every step of `Dispatch` is one of
`WebhookStream` or changes nothing there. An event is in one place: in the queue once
(`QueuedOnce`), or with one worker (`OwnedOnce`), or in its deliveries, which belong to one join set
(`WorkersFit`, `DeliveriesFit`); so an event is settled by the step that ends the last of these.

**BootProofs.** `OneMaster`, `PinnedAlone`, `KeyProved`. An instance's step says what it has seen (`Fits`,
`RowsFit`): in a database left alone, nobody is past the migration before it is recorded, and from
then on the index is enforced, so the master an instance has pinned stays the only one
(`BehindTheMigration`); past the canary there is a master's row to have tried, and what it was
sealed with is remembered (`HoldsTheKey`, `SealsRemembered`).

**WebhooksProofs.** `SigningNeedsSecret`, `SecretsStayApart`, `CredentialsStay`, `ReachGranted`. A secret
that was made is held by one row or is on its way to one, in a task that no other task shares it
with; any other row that has it was given it by a client (`SecretsHeldOnce`, `Fresh`), and what is made
next is above all there are. What a task is about to write was judged sound on its copy (`WriteFits`,
`InsertFits`), and while nothing is stale an update is written over its copy. `SigningHasSecret` needs
no such exception, because no update ever empties a secret and every update into a signing mode
stores one, the client's or a new one. `Resolve` changes the owner and nothing else, and is remembered
in `vouched`.

**ClientAddressProofs.** `TrustFollows`, `SpacedLookups`, `LastStranger`, and `ServedIsCurrent`
(`SnapshotCurrent`, without a run). Where what is known of a name is wrong, the names last moved no
longer ago than the age of that entry and one lookup, or, for names the refresh under way has
passed, than the TTL and the lookups since (`WrongNotForLong`); what is looked up is due
(`LookedUpIsDue`); a name looked up more recently than its entry tells is being looked up again, or is
about to be (`Spaced`).

Only model-checked: liveness, which is out of the prover's reach (`ShutdownEnds`,
`EveryRequestGoesOn`, the liveness half of `KeepsItsPromise`, whose safety half is `PromiseKept`). Every
other property of a passing run is proved. The hypotheses of `KeyLifecycleProofs` and
`GroupGrantsProofs` speak of what clients and handlers do at once, which nothing in the code prevents:
they are there to say which overlap each rule depends on, not to say it cannot happen. No module declares a
`RECURSIVE` operator; the subtree of a key is defined as a least closed set instead.

## 5. Not modelled

* Cryptography (XChaCha20-Poly1305, HMAC-SHA256, the SHA-256 of an API key), parsing, formatting, logging: other modules take their
  outcomes. `rotate_api_key` replaces a hash no modelled state holds.
* Reading the environment, and the JSON, path and query extractors of `extract.rs`: stateless.
* Listings, pagination, statistics, health probes, the audit listing, the web interface: they read.
* The rows of `webhook_executions` in `Dispatch`, and their purge: no decision reads them. `Webhooks` has
  which webhooks have any, for their cascade and their deletion.
* Templates, custom headers and the signatures of deliveries: outcomes of an attempt.
* Migrations other than the one that derives `master_marker`: they add columns and indexes, once
  and in sequence; the constraints they leave are in the actions.
* Databases other than SQLite and MySQL, which differ in how the migration's statements group.
* SQLite's own locking: statements and immediate transactions are atomic, and fail or succeed; a
  failed one is `Abandon` or an answer. `OnceLock`'s lazy path in `MasterPin::resolve` is not reached
  by a process that pinned at the start.

## 6. What is left

1. The composition of `Records` with `Dispatch`: events of one address carried through the queue, where
   several workers may reorder what `EventsTellTheTruth` shows in order of hand-over.
2. Pure operators against reference definitions: address normalisation and covering, template
   substitution.
3. Larger instances of `records` (two addresses) and `webhooks` (three requests), which exceed what can be
   checked in minutes.
