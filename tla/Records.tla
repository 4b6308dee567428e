-------------------------------- MODULE Records --------------------------------
(***************************************************************************)
(* The IP records and the groups that hold them: src/src/api/records.rs,   *)
(* the purge of src/src/retention.rs, and the two ways a consumer follows  *)
(* them, polling GET /api/ips with `since` and receiving webhook events.   *)
(*                                                                         *)
(* A handler is a task.  POST /ban and /white, POST /records/batch and     *)
(* DELETE /ips read the group and the caller's row, take the time, then do *)
(* the rest in one immediate transaction, and hand over their events after *)
(* the commit.  DELETE /ips/{id} and the restore have no transaction: they *)
(* judge a copy of the row read statements before they write it.  Time is  *)
(* in seconds.  GroupGrants has the statements that create a group, and    *)
(* the changes of rights.  A request refused before it reads a record      *)
(* changes nothing and is left out.                                        *)
(***************************************************************************)
EXTENDS Naturals

CONSTANTS
    Master,       \* the one is_master key
    Keys,         \* tenant keys
    Creators,     \* those with can_create_groups
    Addresses,    \* addresses as normalize_ip_or_cidr writes them, all bannable
    Groups,       \* ids of groups of one type
    Given,        \* the groups that exist from the start
    GivenRights,  \* the verbs keys hold on them from the start
    Watched,      \* the group the two consumers follow
    Tasks,        \* handler tasks in flight at once
    ClientTimes,  \* the times, other than now, a batch may stamp its records with
    Retention,    \* seconds a deleted record is kept
    MaxClock,     \* bound: the last second
    MaxRequests   \* bound: requests served in all

Verbs == {"read", "write", "delete"}
AllKeys == Keys \cup {Master}

News == {"none", "live", "gone"}

ASSUME KeysAssumption == Master \notin Keys /\ Creators \subseteq Keys
ASSUME GroupsAssumption ==
    /\ Given \subseteq Groups /\ Watched \in Given
    /\ GivenRights \subseteq Keys \X Given \X Verbs
ASSUME TasksAssumption == News \cap Tasks = {}
ASSUME NumbersAssumption == Retention \in Nat \ {0} /\ MaxClock \in Nat
                            /\ ClientTimes \subseteq 0 .. MaxClock /\ MaxRequests \in Nat

VARIABLES
    rows,      \* addresses with a row in ip_records
    row,       \* the row of each
    members,   \* ip_record_group_memberships, as <<address, group>>
    groups,    \* groups whose row exists
    used,      \* group ids handed out so far
    rights,    \* <<key, group, verb>> of the permission rows
    task,      \* what each handler task is doing
    clock,     \* Utc::now
    requests,  \* requests served so far
    mirror,    \* addresses a polling consumer believes live in Watched
    since,     \* the time of its last poll
    news,      \* what the last event for Watched said of an address, if it was sent for
               \* the last change of its row; or the task that has yet to send that event
    silent,    \* history: addresses whose row last changed in a way polls do not see
    held,      \* history: groups that ever held the row of an address
    founded    \* history: <<key, group>>, who created which group

grouping == <<groups, used, rights, founded>>
stored == <<rows, row, members, held, grouping>>
following == <<mirror, since, news, silent>>
vars == <<stored, task, clock, requests, following>>

-----------------------------------------------------------------------------
Times == 0 .. MaxClock

Row == [id : Nat, locked : BOOLEAN, deleted : BOOLEAN, deletedAt : Times, seenAt : Times,
        deletedBy : AllKeys \cup {"none"}]

Steps == {"idle", "upsert", "batch", "unlink", "judge", "write", "restore", "announce"}

Task == [step : Steps, by : AllKeys, group : Groups, address : Addresses \cup {"none"}, id : Nat,
         now : Times, flag : BOOLEAN, adds : SUBSET Addresses, dels : SUBSET Addresses]

NoRow == [id |-> 0, locked |-> FALSE, deleted |-> FALSE, deletedAt |-> 0, seenAt |-> 0,
          deletedBy |-> "none"]

\* flag is the request's hard or full_replace; id that of the row read.
Idle == [step |-> "idle", by |-> Master, group |-> Watched, address |-> "none", id |-> 0,
         now |-> 0, flag |-> FALSE, adds |-> {}, dels |-> {}]

TypeOK ==
    /\ rows \subseteq Addresses
    /\ row \in [Addresses -> Row]
    /\ members \subseteq rows \X groups
    /\ groups \subseteq used /\ used \subseteq Groups
    /\ rights \subseteq Keys \X groups \X Verbs
    /\ task \in [Tasks -> Task]
    /\ clock \in Times /\ requests \in Nat
    /\ mirror \subseteq Addresses /\ since \in Times /\ silent \subseteq Addresses
    /\ news \in [Addresses -> Tasks \cup News]
    /\ held \in [Addresses -> SUBSET Groups]
    /\ founded \subseteq AllKeys \X Groups

\* Some addresses were registered in the watched group before.
Init ==
    /\ rows \in SUBSET Addresses /\ row = [a \in Addresses |-> NoRow]
    /\ members = rows \X {Watched}
    /\ held = [a \in Addresses |-> IF a \in rows THEN {Watched} ELSE {}]
    /\ groups = Given /\ used = Given /\ rights = GivenRights
    /\ task = [t \in Tasks |-> Idle]
    /\ clock = 0 /\ requests = 0
    /\ mirror = {} /\ since = 0 /\ silent = {}
    /\ news = [a \in Addresses |-> "none"]
    /\ founded = {}

At(t, step) == task[t].step = step
By(t) == task[t].by
Group(t) == task[t].group
Become(t, record) == task' = [task EXCEPT ![t] = record]
Answer(t) == Become(t, Idle)
Holds(k, g, verb) == k = Master \/ <<k, g, verb>> \in rights
In(g) == {a \in rows : <<a, g>> \in members}
Untimed == UNCHANGED <<clock, requests>>
Refused(t) == Answer(t) /\ UNCHANGED <<stored, following>> /\ Untimed

Admitted(t) ==
    /\ At(t, "idle") /\ requests < MaxRequests /\ requests' = requests + 1
    /\ UNCHANGED <<rows, row, members, held, clock, following>>

-----------------------------------------------------------------------------
(* What a write leaves behind, and what it means to the two consumers *)

\* A row seen now and live: inserted, re-registered, or out of the trash.
Bug_RegisteredInTrash(a, seen) ==
    IF a \in rows THEN [row[a] EXCEPT !.seenAt = seen]
    ELSE [NoRow EXCEPT !.id = row[a].id + 1, !.seenAt = seen]

Registered(a, seen) ==
    IF a \in rows
    THEN [row[a] EXCEPT !.seenAt = seen, !.deleted = FALSE, !.deletedAt = 0, !.deletedBy = "none"]
    ELSE [NoRow EXCEPT !.id = row[a].id + 1, !.seenAt = seen]

Trashed(r, k, time) == [r EXCEPT !.deleted = TRUE, !.deletedAt = time, !.deletedBy = k]

\* The rows in A changed: those in stale with a stamp behind the last poll, and with an
\* event for Watched to come from who[a], if any.
Changed(A, stale, who) ==
    /\ silent' = (silent \ A) \cup stale
    /\ news' = [a \in Addresses |-> IF a \in A THEN who[a] ELSE news[a]]
    /\ UNCHANGED <<mirror, since>>

Nobody == [a \in Addresses |-> "none"]
Stale(A, stamp) == IF stamp < since THEN A ELSE {}
Sender(t) == IF Group(t) = Watched THEN [a \in Addresses |-> t] ELSE Nobody

\* The rows in A, written by t, are linked into its group.
Linked(t, A) ==
    /\ members' = members \cup (A \X {Group(t)})
    /\ held' = [a \in Addresses |->
                  IF a \in A THEN (IF a \in rows THEN held[a] ELSE {}) \cup {Group(t)} ELSE held[a]]

-----------------------------------------------------------------------------
(* The group a write names: found, with a verb on it; or created, which gives *)
(* a tenant its own verbs on it when it came with a single record.            *)

Found(by, g, needs) ==
    /\ g \in groups /\ \A verb \in needs : Holds(by, g, verb)
    /\ UNCHANGED grouping

Founded(by, g, verbs) ==
    /\ g \notin used /\ by \in Creators \cup {Master}
    /\ groups' = groups \cup {g} /\ used' = used \cup {g}
    /\ rights' = rights \cup (({by} \ {Master}) \X {g} \X verbs)
    /\ founded' = founded \cup {<<by, g>>}

-----------------------------------------------------------------------------
(* POST /ban, /white: handle_ip_upsert *)

RequestUpsert(t) == \E by \in AllKeys, g \in Groups, a \in Addresses :
    /\ Admitted(t)
    /\ Found(by, g, {"write"}) \/ Founded(by, g, Verbs)
    /\ Become(t, [Idle EXCEPT !.step = "upsert", !.by = by, !.group = g, !.address = a,
                              !.now = clock])

\* The transaction.  Against a group that has gone the membership's foreign key fails.
MayUpsert(a, g) == g \in groups /\ (a \in rows => ~row[a].locked)

Upsert(t) ==
    LET a == task[t].address IN
    /\ At(t, "upsert")
    /\ \/ /\ MayUpsert(a, Group(t))
          /\ rows' = rows \cup {a}
          /\ row' = [row EXCEPT ![a] = Registered(a, task[t].now)]
          /\ Linked(t, {a})
          /\ Changed({a}, Stale({a}, task[t].now), Sender(t))
          /\ Become(t, [task[t] EXCEPT !.step = "announce", !.adds = {a}])
          /\ UNCHANGED grouping /\ Untimed
       \/ ~MayUpsert(a, Group(t)) /\ Refused(t)

-----------------------------------------------------------------------------
(* POST /records/batch: batch_records *)

BatchNeeds(replace) == IF replace THEN {"write", "delete"} ELSE {"write"}

RequestBatch(t) == \E by \in AllKeys, g \in Groups, replace \in BOOLEAN :
    /\ Admitted(t)
    /\ Found(by, g, BatchNeeds(replace)) \/ Founded(by, g, {})
    /\ Become(t, [Idle EXCEPT !.step = "batch", !.by = by, !.group = g, !.now = clock,
                              !.flag = replace])

Applied(listed) == {a \in listed : a \in rows => ~row[a].locked}

Bug_SweptThoughLocked(t, listed) ==
    IF task[t].flag THEN {a \in In(Group(t)) : ~row[a].deleted} \ listed ELSE {}

Swept(t, listed) ==
    IF task[t].flag THEN {a \in In(Group(t)) : ~row[a].deleted /\ ~row[a].locked} \ listed ELSE {}

BatchRow(t, a, at, trash) ==
    LET live == Registered(a, at) IN IF trash THEN Trashed(live, By(t), at) ELSE live

\* One is_deleted for the records the payload lists, and one time, now or the client's,
\* that their last_seen_at and deleted_at come to.  A record the batch itself puts in the
\* trash is announced as added or updated, so news of it is not held to be true.
BatchWrites(t, listed, at, trash, quiet) ==
    LET applied == Applied(listed)  swept == Swept(t, listed) IN
    /\ rows' = rows \cup applied
    /\ row' = [a \in Addresses |-> IF a \in applied THEN BatchRow(t, a, at, trash)
                                   ELSE IF a \in swept THEN Trashed(row[a], By(t), task[t].now)
                                   ELSE row[a]]
    /\ Linked(t, applied)
    /\ Changed(applied \cup swept, Stale(applied, at) \cup Stale(swept, task[t].now),
               [a \in Addresses |->
                  IF quiet \/ (trash /\ a \in applied) THEN "none" ELSE Sender(t)[a]])
    /\ Become(t, IF quiet THEN Idle
                 ELSE [task[t] EXCEPT !.step = "announce", !.adds = applied, !.dels = swept])
    /\ UNCHANGED grouping /\ Untimed

\* The payload is chosen where it is used.
Batch(t) ==
    /\ At(t, "batch")
    /\ \/ Group(t) \in groups /\ \E listed \in SUBSET Addresses,
              at \in {task[t].now} \cup ClientTimes, trash, quiet \in BOOLEAN :
                 BatchWrites(t, listed, at, trash, quiet)
       \/ Group(t) \notin groups /\ Refused(t)

-----------------------------------------------------------------------------
(* DELETE /ips: delete_ip takes an address out of one group *)

RequestUnlink(t) == \E by \in AllKeys, g \in Groups, a \in Addresses :
    /\ Admitted(t) /\ Found(by, g, {"delete"})
    /\ Become(t, [Idle EXCEPT !.step = "unlink", !.by = by, !.group = g, !.address = a])

MayUnlink(a, g) == a \in In(g) /\ ~row[a].locked

Unlink(t) ==
    LET a == task[t].address IN
    /\ At(t, "unlink")
    /\ \/ /\ MayUnlink(a, Group(t))
          /\ members' = members \ {<<a, Group(t)>>}
          /\ Changed({a}, {a} \cap silent, Sender(t))
          /\ Become(t, [task[t] EXCEPT !.step = "announce", !.dels = {a}])
          /\ UNCHANGED <<rows, row, held, grouping>> /\ Untimed
       \/ ~MayUnlink(a, Group(t)) /\ Refused(t)

-----------------------------------------------------------------------------
(* DELETE /ips/{id}: delete_ip_record *)

\* The row is found and copied.  What the copy says is judged after the caller is, but
\* neither changes anything: a locked row is refused, one in the trash is left alone.
RequestDelete(t) == \E by \in AllKeys, a \in rows, hard \in BOOLEAN :
    /\ Admitted(t)
    /\ ~row[a].locked
    /\ IF hard THEN by = Master ELSE ~row[a].deleted
    /\ Become(t, [Idle EXCEPT !.step = "judge", !.by = by, !.address = a, !.id = row[a].id,
                              !.flag = hard])
    /\ UNCHANGED grouping

Bug_MayDeleteByAnyGroup(k, a) == k = Master \/ \E g \in groups : Holds(k, g, "delete")

\* caller_may_delete_record
CallerMayDelete(k, a) == k = Master \/ \E g \in groups : a \in In(g) /\ Holds(k, g, "delete")

Judge(t) ==
    /\ At(t, "judge")
    /\ IF CallerMayDelete(By(t), task[t].address)
       THEN Become(t, [task[t] EXCEPT !.step = "write", !.now = clock])
       ELSE Answer(t)
    /\ UNCHANGED <<stored, following>> /\ Untimed

Bug_GoneWithoutCascade(A) ==
    /\ rows' = rows \ A
    /\ Changed(A, silent \cap A, Nobody)
    /\ UNCHANGED <<row, members, held, grouping>>

\* The rows go, with their memberships.
Gone(A) ==
    /\ rows' = rows \ A
    /\ members' = {m \in members : m[1] \notin A}
    /\ Changed(A, silent \cap A, Nobody)
    /\ UNCHANGED <<row, held, grouping>>

\* By its id: a row that has gone is not found, whatever has taken its address.
SameRow(t) == task[t].address \in rows /\ row[task[t].address].id = task[t].id

Write(t) ==
    LET a == task[t].address IN
    /\ At(t, "write")
    /\ Answer(t)
    /\ Untimed
    /\ \/ /\ SameRow(t) /\ ~task[t].flag
          /\ row' = [row EXCEPT ![a] = Trashed(row[a], By(t), task[t].now)]
          /\ Changed({a}, Stale({a}, task[t].now), Nobody)
          /\ UNCHANGED <<rows, members, held, grouping>>
       \/ SameRow(t) /\ task[t].flag /\ Gone({a})
       \/ ~SameRow(t) /\ UNCHANGED <<stored, following>>

-----------------------------------------------------------------------------
(* POST /ips/{id}/restore: restore_ip_record, which does not look at is_locked, nor     *)
(* touch last_seen_at                                                                   *)

RequestRestore(t) == \E a \in rows :
    /\ Admitted(t) /\ row[a].deleted
    /\ Become(t, [Idle EXCEPT !.step = "restore", !.address = a, !.id = row[a].id])
    /\ UNCHANGED grouping

Restore(t) ==
    LET a == task[t].address IN
    /\ At(t, "restore")
    /\ Answer(t)
    /\ Untimed
    /\ \/ /\ SameRow(t)
          /\ row' = [row EXCEPT ![a] = Registered(a, row[a].seenAt)]
          /\ Changed({a}, {a}, Nobody)
          /\ UNCHANGED <<rows, members, held, grouping>>
       \/ ~SameRow(t) /\ UNCHANGED <<stored, following>>

-----------------------------------------------------------------------------
(* enqueue_webhook after the commit: what a full queue does not take is dropped *)

Announce(t) ==
    LET events == task[t].adds \cup task[t].dels IN
    /\ At(t, "announce")
    /\ \E taken \in SUBSET events :
          news' = [a \in Addresses |->
                     IF a \in taken /\ news[a] = t
                     THEN (IF a \in task[t].adds THEN "live" ELSE "gone")
                     ELSE IF news[a] = t \/ (a \in taken /\ Group(t) = Watched) THEN "none"
                     ELSE news[a]]
    /\ Answer(t)
    /\ UNCHANGED <<stored, mirror, since, silent>> /\ Untimed

-----------------------------------------------------------------------------
(* purge_expired_ip_records, from the worker or POST /system/purge-ips; the    *)
(* operator's edits of is_locked, which no endpoint sets; DELETE /groups/{id}. *)

Expired(days) == {a \in rows : row[a].deleted /\ row[a].deletedAt + days < clock}

Purge == \E days \in 1 .. Retention :
    /\ Expired(days) # {}
    /\ Gone(Expired(days))
    /\ UNCHANGED task /\ Untimed

OperatorLocks == \E a \in rows, locked \in BOOLEAN :
    /\ row' = [row EXCEPT ![a].locked = locked]
    /\ UNCHANGED <<rows, members, held, grouping, task, following>> /\ Untimed

RemoveGroup == \E g \in groups :
    /\ groups' = groups \ {g}
    /\ members' = {m \in members : m[2] # g}
    /\ rights' = {r \in rights : r[2] # g}
    /\ IF g = Watched THEN Changed(In(g), silent \cap In(g), Nobody) ELSE UNCHANGED following
    /\ UNCHANGED <<rows, row, held, used, founded, task>> /\ Untimed

-----------------------------------------------------------------------------
(* GET /ips: list_ips, as a consumer polls it *)

Bug_WindowBySeenAlone(r, from) == r.seenAt >= from

\* The window of `since`: seen since then, or put in the trash since then.
Window(r, from) == r.seenAt >= from \/ (r.deleted /\ r.deletedAt >= from)

\* The rows of a group, with include_deleted.
Response(g, from) == {a \in In(g) : Window(row[a], from)}

Poll ==
    LET answer == Response(Watched, since) IN
    /\ mirror' = {a \in mirror \cup answer : a \in answer => ~row[a].deleted}
    /\ since' = clock
    /\ silent' = silent \ answer
    /\ UNCHANGED <<stored, task, news>> /\ Untimed

Tick ==
    /\ clock < MaxClock /\ clock' = clock + 1
    /\ UNCHANGED <<stored, task, requests, following>>

-----------------------------------------------------------------------------
Handle(t) ==
    \/ RequestUpsert(t) \/ Upsert(t)
    \/ RequestBatch(t) \/ Batch(t)
    \/ RequestUnlink(t) \/ Unlink(t)
    \/ RequestDelete(t) \/ Judge(t) \/ Write(t)
    \/ RequestRestore(t) \/ Restore(t)
    \/ Announce(t)

Next == (\E t \in Tasks : Handle(t)) \/ Purge \/ OperatorLocks \/ RemoveGroup \/ Poll \/ Tick

Spec == Init /\ [][Next]_vars

-----------------------------------------------------------------------------
(* Properties *)

\* A consumer that polls `since` its last poll, with deleted records, misses no record
\* of the group: one that is live and it does not have, or deleted and it still has, is
\* in the window of the next poll.  Unless the row was restored, stamped by the client,
\* or committed after a poll later than its stamp (records.rs, list_ips).
PollMissesNothing ==
    \A a \in In(Watched) \ silent :
        (a \in mirror) # ~row[a].deleted => Window(row[a], since)

\* What the last event of an address said of it is so, when it was sent for the last
\* change of the row: an address announced as added is live in the group, one announced
\* as deleted is not (events are sent after the commit, in no common order).
EventsTellTheTruth ==
    \A a \in Addresses :
        news[a] \in {"live", "gone"} =>
            (news[a] = "live" <=> (a \in In(Watched) /\ ~row[a].deleted))

\* The key that put a record in the trash could delete in a group that held it, or wrote
\* a batch into one, by a right or because it created it.
Entitled(k, a, verbs) ==
    k = Master \/ \E g \in held[a] : \/ <<k, g>> \in founded
                                     \/ \E verb \in verbs : <<k, g, verb>> \in GivenRights

TrashedByEntitled ==
    \A a \in rows : row[a].deleted => Entitled(row[a].deletedBy, a, {"delete", "write"})

\* records.rs: "a write verb must not confer deletion".
WriteDoesNotDelete ==
    \A a \in rows : row[a].deleted => Entitled(row[a].deletedBy, a, {"delete"})

\* A locked record is touched by the operator, a restore, a purge, the removal of a group
\* or a deletion that read it before it was locked; never by a registration, a batch or
\* an unlinking.
Touched(a) ==
    \/ a \notin rows' \/ row'[a] # row[a]
    \/ {m \in members : m[1] = a} # {m \in members' : m[1] = a}

LockHolds ==
    [][\A a \in rows : row[a].locked /\ Touched(a) =>
          \/ row'[a] = [row[a] EXCEPT !.locked = FALSE]
          \/ row[a].deleted /\ a \notin rows'
          \/ groups' # groups
          \/ \E t \in Tasks : task[t].step \in {"write", "restore"} /\ task'[t] # task[t]]_vars

=============================================================================
