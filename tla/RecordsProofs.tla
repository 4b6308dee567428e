----------------------------- MODULE RecordsProofs -----------------------------
(***************************************************************************)
(* What holds of Records for any number of keys, addresses, groups and     *)
(* handlers in flight, with the purge, the operator and the two consumers  *)
(* in between.                                                             *)
(***************************************************************************)
EXTENDS Records, TLAPS

\* Whoever writes a batch may; a record about to be deleted by its id, if it is still the
\* one that was read, is in the hands of a key that could delete it.
Carries(r) ==
    /\ r.step \in {"upsert", "judge", "write", "restore"} => r.address \in Addresses
    /\ r.step \in {"upsert", "unlink", "batch"} => r.adds = {} /\ r.dels = {}
    /\ r.step = "batch" => \/ r.by = Master \/ <<r.by, r.group>> \in founded
                           \/ <<r.by, r.group, "write">> \in GivenRights
    /\ r.step \in {"judge", "write"} => r.id <= row[r.address].id
    /\ r.step = "write" /\ r.address \in rows /\ row[r.address].id = r.id =>
          Entitled(r.by, r.address, {"delete"})

\* Rights come from the start or from having created the group.
RightsTraced == \A r \in rights : <<r[1], r[2]>> \in founded \/ r \in GivenRights

HeldTraced == \A m \in members : m[2] \in held[m[1]]

\* The event a task has yet to send is true of the row as it is.
Tells(r, a) ==
    /\ r.step = "announce" /\ a \in r.adds \cup r.dels
    /\ a \in r.adds <=> (a \in In(Watched) /\ ~row[a].deleted)

NewsTraced == \A a \in Addresses, t \in Tasks : news[a] = t => Tells(task[t], a)

IInv ==
    /\ TypeOK /\ (\A t \in Tasks : Carries(task[t]))
    /\ RightsTraced /\ HeldTraced /\ NewsTraced
    /\ TrashedByEntitled /\ PollMissesNothing /\ EventsTellTheTruth

-----------------------------------------------------------------------------
(* What a step does to one address *)

\* Nothing, but for a lock and groups other than the one that is watched.
Kept(a) ==
    /\ a \in rows' <=> a \in rows
    /\ row'[a].id = row[a].id /\ row'[a].deletedBy = row[a].deletedBy
    /\ row'[a].deleted = row[a].deleted /\ row'[a].deletedAt = row[a].deletedAt
    /\ row'[a].seenAt = row[a].seenAt
    /\ held[a] \subseteq held'[a]
    /\ <<a, Watched>> \in members' <=> <<a, Watched>> \in members
    /\ news'[a] = news[a]
    /\ a \in silent' <=> a \in silent

\* It gives it another row, or lets another key write it, with or without an event of t's.
Renewed(a, t) ==
    /\ row[a].id <= row'[a].id
    /\ a \in rows' /\ row'[a].id = row[a].id => a \in rows /\ held[a] \subseteq held'[a]
    /\ a \in rows' /\ row'[a].deleted => Entitled(row[a].deletedBy, a, {"delete", "write"})'
    /\ a \in In(Watched)' /\ (a \in mirror) # ~row'[a].deleted =>
          a \in silent' \/ Window(row'[a], since)
    /\ news'[a] = "none" \/ (news'[a] = t /\ t \in Tasks /\ Tells(task[t], a)')

LEMMA TypesAre ==
    ASSUME TypeOK
    PROVE  /\ \A a \in Addresses : /\ row[a] \in Row /\ row[a].id \in Nat
                                   /\ row[a].deleted \in BOOLEAN /\ row[a].seenAt \in Times
                                   /\ row[a].deletedAt \in Times
                                   /\ held[a] \subseteq Groups /\ news[a] \in Tasks \cup News
           /\ \A t \in Tasks : /\ task[t] \in Task /\ task[t].by \in AllKeys
                               /\ task[t].now \in Times /\ task[t].group \in Groups
                               /\ task[t].id \in Nat /\ task[t].flag \in BOOLEAN
           /\ Times \subseteq Nat /\ clock \in Times /\ since \in Times
           /\ Watched \in Groups /\ Master \in AllKeys
BY NumbersAssumption, GroupsAssumption DEF TypeOK, Row, Task, Times, AllKeys

LEMMA IdleIs == Idle \in Task /\ Idle.step = "idle" /\ Carries(Idle) /\ Carries(Idle)'
<1>1. Idle \in Task
  BY GroupsAssumption, NumbersAssumption DEF Idle, Task, Times, Steps, AllKeys
<1>2. Idle.step = "idle"
  BY DEF Idle
<1> QED BY <1>1, <1>2 DEF Carries

LEMMA EntitledLater ==
    ASSUME NEW a, NEW k, NEW verbs, Entitled(k, a, verbs),
           held[a] \subseteq held'[a], founded \subseteq founded'
    PROVE  Entitled(k, a, verbs)'
BY DEF Entitled

LEMMA EntitledMore ==
    ASSUME NEW a, NEW k, Entitled(k, a, {"delete"}) \/ Entitled(k, a, {"write"})
    PROVE  Entitled(k, a, {"delete", "write"})
BY DEF Entitled

\* What one address is owed.
LEMMA AddressStep ==
    ASSUME IInv, TypeOK', NEW a \in Addresses, NEW t, Kept(a) \/ Renewed(a, t),
           founded \subseteq founded', since' = since, mirror' = mirror
    PROVE  /\ row[a].id <= row'[a].id
           /\ a \in rows' /\ row'[a].id = row[a].id => a \in rows /\ held[a] \subseteq held'[a]
           /\ a \in rows' /\ row'[a].deleted =>
                 Entitled(row[a].deletedBy, a, {"delete", "write"})'
           /\ a \in In(Watched)' /\ a \notin silent' /\ (a \in mirror') # ~row'[a].deleted =>
                 Window(row'[a], since)
<1>0. row[a].id \in Nat
  BY TypesAre DEF IInv
<1>1. CASE Renewed(a, t)
  BY <1>1 DEF Renewed
<1>2. CASE Kept(a)
  <2>1. row[a].id <= row'[a].id
    BY <1>0, <1>2 DEF Kept
  <2>2. a \in rows' /\ row'[a].deleted => Entitled(row[a].deletedBy, a, {"delete", "write"})'
    <3> SUFFICES ASSUME a \in rows', row'[a].deleted
                 PROVE  Entitled(row[a].deletedBy, a, {"delete", "write"})'
      OBVIOUS
    <3>1. PICK k : k = row[a].deletedBy
      OBVIOUS
    <3>2. a \in rows /\ row[a].deleted /\ row'[a].deletedBy = k
      BY <1>2, <3>1 DEF Kept
    <3>3. Entitled(k, a, {"delete", "write"})
      BY <3>1, <3>2 DEF IInv, TrashedByEntitled
    <3>4. Entitled(k, a, {"delete", "write"})'
      BY <1>2, <3>3, EntitledLater DEF Kept
    <3> QED BY <3>2, <3>4
  <2>3. a \in In(Watched)' /\ a \notin silent' /\ (a \in mirror') # ~row'[a].deleted =>
           Window(row'[a], since)
    BY <1>2 DEF Kept, In, IInv, PollMissesNothing, Window
  <2> QED BY <1>2, <2>1, <2>2, <2>3 DEF Kept
<1> QED BY <1>1, <1>2

\* The other tasks' business is as it was.
LEMMA CarriesLater ==
    ASSUME IInv, TypeOK', NEW r \in Task, Carries(r), founded \subseteq founded',
           \A a \in Addresses :
              /\ row[a].id <= row'[a].id
              /\ a \in rows' /\ row'[a].id = row[a].id => a \in rows /\ held[a] \subseteq held'[a]
    PROVE  Carries(r)'
<1>1. r.id \in Nat
  BY DEF Task
<1>2. r.step = "batch" => \/ r.by = Master \/ <<r.by, r.group>> \in founded'
                          \/ <<r.by, r.group, "write">> \in GivenRights
  BY DEF Carries
<1>3. ASSUME r.step \in {"judge", "write"} PROVE r.id <= row'[r.address].id
  <2>1. r.address \in Addresses /\ r.id <= row[r.address].id
    BY <1>3 DEF Carries
  <2>2. row[r.address].id \in Nat /\ row'[r.address].id \in Nat
    BY <2>1 DEF IInv, TypeOK, Row
  <2>3. row[r.address].id <= row'[r.address].id
    BY <2>1
  <2> QED BY <1>1, <2>1, <2>2, <2>3
<1>4. ASSUME r.step = "write", r.address \in rows', row'[r.address].id = r.id
      PROVE  Entitled(r.by, r.address, {"delete"})'
  <2>1. r.address \in Addresses /\ r.id <= row[r.address].id
    BY <1>4 DEF Carries
  <2>2. row[r.address].id \in Nat /\ row[r.address].id <= row'[r.address].id
    BY <2>1 DEF IInv, TypeOK, Row
  <2>3. row[r.address].id = r.id
    BY <1>1, <1>4, <2>1, <2>2
  <2>4. r.address \in rows /\ held[r.address] \subseteq held'[r.address]
    BY <1>4, <2>1, <2>3
  <2>5. Entitled(r.by, r.address, {"delete"})
    BY <1>4, <2>3, <2>4 DEF Carries
  <2> QED BY <2>4, <2>5, EntitledLater
<1> QED BY <1>2, <1>3, <1>4 DEF Carries

\* A step, of task t or of none, that leaves each address as it was or renews it.
LEMMA Renews ==
    ASSUME IInv, TypeOK', NEW t, \A a \in Addresses : Kept(a) \/ Renewed(a, t),
           founded \subseteq founded', since' = since, mirror' = mirror,
           RightsTraced', HeldTraced',
           \A u \in Tasks : task'[u] = task[u]
                            \/ (u = t /\ task[u].step # "announce" /\ Carries(task[u])')
    PROVE  IInv'
<1>0. TypeOK
  BY DEF IInv
<1>1. ASSUME NEW a \in Addresses
      PROVE  /\ row[a].id <= row'[a].id
             /\ a \in rows' /\ row'[a].id = row[a].id => a \in rows /\ held[a] \subseteq held'[a]
             /\ a \in rows' /\ row'[a].deleted =>
                   Entitled(row[a].deletedBy, a, {"delete", "write"})'
             /\ a \in In(Watched)' /\ a \notin silent' /\ (a \in mirror') # ~row'[a].deleted =>
                   Window(row'[a], since)
  BY AddressStep
<1>2. ASSUME NEW u \in Tasks PROVE Carries(task[u])'
  <2>1. CASE task'[u] = task[u]
    <3>1. PICK r \in Task : r = task[u]
      BY <1>0 DEF TypeOK
    <3>2. Carries(r)
      BY <3>1 DEF IInv
    <3>3. Carries(r)'
      BY <1>1, <3>2, CarriesLater
    <3> QED BY <2>1, <3>1, <3>3
  <2> QED BY <2>1
<1>3. NewsTraced'
  <2> SUFFICES ASSUME NEW a \in Addresses, NEW u \in Tasks, news'[a] = u
               PROVE  Tells(task[u], a)'
    BY DEF NewsTraced
  <2>1. "none" \notin Tasks
    BY TasksAssumption DEF News
  <2>2. CASE Renewed(a, t)
    BY <2>1, <2>2 DEF Renewed
  <2>3. CASE Kept(a)
    <3>1. Tells(task[u], a)
      BY <2>3 DEF Kept, IInv, NewsTraced
    <3>2. task'[u] = task[u]
      BY <3>1 DEF Tells
    <3> QED BY <2>3, <3>1, <3>2 DEF Kept, Tells, In
  <2> QED BY <2>2, <2>3
<1>4. TrashedByEntitled'
  <2>1. rows' \subseteq Addresses
    BY DEF TypeOK
  <2> QED BY <1>1, <2>1 DEF TrashedByEntitled
<1>5. PollMissesNothing'
  <2>1. In(Watched)' \subseteq Addresses
    BY DEF In, TypeOK
  <2>2. ASSUME NEW a \in In(Watched)' \ silent', (a \in mirror') # ~row'[a].deleted
        PROVE  Window(row[a], since)'
    <3>1. Window(row'[a], since)
      BY <1>1, <2>1, <2>2
    <3> QED BY <3>1 DEF Window
  <2> QED BY <2>2 DEF PollMissesNothing
<1>6. EventsTellTheTruth'
  <2> SUFFICES ASSUME NEW a \in Addresses, news'[a] \in {"live", "gone"}
               PROVE  news'[a] = "live" <=> (a \in In(Watched)' /\ ~row'[a].deleted)
    BY DEF EventsTellTheTruth
  <2>1. "live" \notin Tasks /\ "gone" \notin Tasks
    BY TasksAssumption DEF News
  <2>2. Kept(a)
    BY <2>1 DEF Renewed
  <2> QED BY <2>2 DEF Kept, In, IInv, EventsTellTheTruth
<1> QED BY <1>2, <1>3, <1>4, <1>5, <1>6 DEF IInv

-----------------------------------------------------------------------------
(* Requests: they change groups and rights at most *)

LEMMA KeepsAll ==
    ASSUME UNCHANGED <<rows, row, held, news, silent>>,
           \A a \in Addresses : <<a, Watched>> \in members' <=> <<a, Watched>> \in members
    PROVE  \A a \in Addresses : Kept(a)
BY DEF Kept

\* Task t takes up r.
LEMMA Takes ==
    ASSUME IInv, NEW t \in Tasks, NEW r \in Task, Become(t, r)
    PROVE  /\ task' \in [Tasks -> Task] /\ task'[t] = r
           /\ \A u \in Tasks \ {t} : task'[u] = task[u]
BY DEF IInv, TypeOK, Become

\* A request finds a group, or creates one.
LEMMA Grouped ==
    ASSUME IInv, NEW by \in AllKeys, NEW g \in Groups, NEW needs, NEW verbs \in SUBSET Verbs,
           Found(by, g, needs) \/ Founded(by, g, verbs)
    PROVE  /\ groups \subseteq groups' /\ groups' \subseteq used' /\ used' \subseteq Groups
           /\ rights' \subseteq Keys \X groups' \X Verbs
           /\ founded \subseteq founded' /\ founded' \subseteq AllKeys \X Groups
           /\ RightsTraced'
           /\ "write" \in needs => \/ by = Master \/ <<by, g>> \in founded'
                                   \/ <<by, g, "write">> \in GivenRights
<1>0. TypeOK /\ RightsTraced
  BY DEF IInv
<1>1. CASE Found(by, g, needs)
  <2>1. UNCHANGED <<groups, used, rights, founded>>
    BY <1>1 DEF Found, grouping
  <2>2. \A verb \in needs : by = Master \/ <<by, g, verb>> \in rights
    BY <1>1 DEF Found, Holds
  <2>3. "write" \in needs => \/ by = Master \/ <<by, g>> \in founded'
                             \/ <<by, g, "write">> \in GivenRights
    BY <1>0, <2>1, <2>2 DEF RightsTraced
  <2> QED BY <1>0, <2>1, <2>3 DEF TypeOK, RightsTraced
<1>2. CASE Founded(by, g, verbs)
  <2>1. /\ groups' = groups \cup {g} /\ used' = used \cup {g}
        /\ rights' = rights \cup (({by} \ {Master}) \X {g} \X verbs)
        /\ founded' = founded \cup {<<by, g>>}
    BY <1>2 DEF Founded
  <2>2. rights' \subseteq Keys \X groups' \X Verbs
    BY <1>0, <2>1 DEF TypeOK, AllKeys
  <2>3. RightsTraced'
    BY <1>0, <2>1 DEF RightsTraced
  <2> QED BY <1>0, <2>1, <2>2, <2>3 DEF TypeOK
<1> QED BY <1>1, <1>2

\* What is the same for every request.
LEMMA RequestStep ==
    ASSUME IInv, NEW t \in Tasks, Admitted(t), NEW r \in Task, Become(t, r), Carries(r)',
           UNCHANGED members,
           groups \subseteq groups', groups' \subseteq used', used' \subseteq Groups,
           rights' \subseteq Keys \X groups' \X Verbs,
           founded \subseteq founded', founded' \subseteq AllKeys \X Groups, RightsTraced'
    PROVE  IInv'
<1>0. TypeOK /\ task[t].step # "announce"
  BY DEF IInv, Admitted, At
<1>1. /\ UNCHANGED <<rows, row, held, clock, mirror, since, news, silent>>
      /\ requests' = requests + 1
  BY DEF Admitted, following
<1>2. /\ task' \in [Tasks -> Task] /\ task'[t] = r
      /\ \A u \in Tasks \ {t} : task'[u] = task[u]
  BY Takes
<1>3. TypeOK'
  BY <1>0, <1>1, <1>2 DEF TypeOK
<1>4. HeldTraced'
  BY <1>1 DEF IInv, HeldTraced
<1>5. \A a \in Addresses : Kept(a)
  BY <1>1, KeepsAll
<1>6. Carries(task[t])'
  BY <1>2 DEF Carries
<1> QED BY <1>0, <1>1, <1>2, <1>3, <1>4, <1>5, <1>6, Renews

LEMMA RequestsStep ==
    ASSUME IInv, NEW t \in Tasks,
           RequestUpsert(t) \/ RequestBatch(t) \/ RequestUnlink(t)
           \/ RequestDelete(t) \/ RequestRestore(t)
    PROVE  IInv'
<1>0. TypeOK /\ Admitted(t)
  BY DEF IInv, RequestUpsert, RequestBatch, RequestUnlink, RequestDelete, RequestRestore
<1>1. Idle \in Task /\ clock \in Times /\ row' = row /\ held' = held
  BY <1>0, IdleIs DEF TypeOK, Admitted
<1>2. CASE RequestUpsert(t)
  <2>1. PICK by \in AllKeys, g \in Groups, a \in Addresses :
           /\ Found(by, g, {"write"}) \/ Founded(by, g, Verbs)
           /\ Become(t, [Idle EXCEPT !.step = "upsert", !.by = by, !.group = g, !.address = a,
                                     !.now = clock])
    BY <1>2 DEF RequestUpsert
  <2>2. PICK r : r = [Idle EXCEPT !.step = "upsert", !.by = by, !.group = g, !.address = a,
                                  !.now = clock]
    OBVIOUS
  <2>3. r \in Task /\ r.step = "upsert" /\ r.address = a /\ r.adds = {} /\ r.dels = {}
    BY <1>1, <2>2 DEF Idle, Task, Steps
  <2>4. Carries(r)'
    BY <2>3 DEF Carries
  <2>5. UNCHANGED members
    BY <1>0 DEF Admitted
  <2> HIDE DEF Become
  <2> QED BY <1>0, <2>1, <2>2, <2>3, <2>4, <2>5, Grouped, RequestStep
<1>3. CASE RequestBatch(t)
  <2>1. PICK by \in AllKeys, g \in Groups, replace \in BOOLEAN :
           /\ Found(by, g, BatchNeeds(replace)) \/ Founded(by, g, {})
           /\ Become(t, [Idle EXCEPT !.step = "batch", !.by = by, !.group = g, !.now = clock,
                                     !.flag = replace])
    BY <1>3 DEF RequestBatch
  <2>2. PICK r : r = [Idle EXCEPT !.step = "batch", !.by = by, !.group = g, !.now = clock,
                                  !.flag = replace]
    OBVIOUS
  <2>3. /\ r \in Task /\ r.step = "batch" /\ r.adds = {} /\ r.dels = {}
        /\ r.by = by /\ r.group = g
    BY <1>1, <2>2 DEF Idle, Task, Steps
  <2>4. "write" \in BatchNeeds(replace) /\ {} \in SUBSET Verbs
    BY DEF BatchNeeds
  <2>5. UNCHANGED members
    BY <1>0 DEF Admitted
  <2>6. Carries(r)'
    BY <2>1, <2>3, <2>4, <2>5, Grouped DEF Carries
  <2> HIDE DEF Become
  <2> QED BY <1>0, <2>1, <2>2, <2>3, <2>4, <2>5, <2>6, Grouped, RequestStep
<1>4. CASE RequestUnlink(t) \/ RequestDelete(t) \/ RequestRestore(t)
  <2>1. UNCHANGED <<groups, used, rights, founded, members>>
    BY <1>0, <1>4 DEF RequestUnlink, RequestDelete, RequestRestore, Found, grouping, Admitted
  <2>2. RightsTraced'
    BY <2>1 DEF IInv, RightsTraced
  <2>3. ASSUME NEW r \in Task, Become(t, r), Carries(r)' PROVE IInv'
    <3>1. /\ groups \subseteq groups' /\ groups' \subseteq used' /\ used' \subseteq Groups
          /\ rights' \subseteq Keys \X groups' \X Verbs
          /\ founded \subseteq founded' /\ founded' \subseteq AllKeys \X Groups
      BY <1>0, <2>1 DEF TypeOK
    <3> QED BY <1>0, <2>1, <2>2, <2>3, <3>1, RequestStep
  <2>4. ASSUME NEW by \in AllKeys, NEW g \in Groups, NEW a \in Addresses,
               Become(t, [Idle EXCEPT !.step = "unlink", !.by = by, !.group = g, !.address = a])
        PROVE  IInv'
    <3>1. PICK r : r = [Idle EXCEPT !.step = "unlink", !.by = by, !.group = g, !.address = a]
      OBVIOUS
    <3>2. r \in Task /\ r.step = "unlink" /\ r.adds = {} /\ r.dels = {}
      BY <1>1, <3>1 DEF Idle, Task, Steps
    <3>3. Carries(r)'
      BY <3>2 DEF Carries
    <3> QED BY <2>3, <2>4, <3>1, <3>2, <3>3
  <2>5. ASSUME NEW by \in AllKeys, NEW a \in rows, NEW hard \in BOOLEAN,
               Become(t, [Idle EXCEPT !.step = "judge", !.by = by, !.address = a,
                                      !.id = row[a].id, !.flag = hard])
        PROVE  IInv'
    <3>1. PICK r : r = [Idle EXCEPT !.step = "judge", !.by = by, !.address = a,
                                    !.id = row[a].id, !.flag = hard]
      OBVIOUS
    <3>2. row[a].id \in Nat /\ a \in Addresses
      BY <1>0 DEF TypeOK, Row
    <3>3. r \in Task /\ r.step = "judge" /\ r.address = a /\ r.id = row[a].id
      BY <1>1, <3>1, <3>2 DEF Idle, Task, Steps
    <3>4. Carries(r)'
      BY <1>1, <3>2, <3>3 DEF Carries
    <3> QED BY <2>3, <2>5, <3>1, <3>3, <3>4
  <2>6. ASSUME NEW a \in rows,
               Become(t, [Idle EXCEPT !.step = "restore", !.address = a, !.id = row[a].id])
        PROVE  IInv'
    <3>1. PICK r : r = [Idle EXCEPT !.step = "restore", !.address = a, !.id = row[a].id]
      OBVIOUS
    <3>2. row[a].id \in Nat /\ a \in Addresses
      BY <1>0 DEF TypeOK, Row
    <3>3. r \in Task /\ r.step = "restore" /\ r.address = a
      BY <1>1, <3>1, <3>2 DEF Idle, Task, Steps
    <3>4. Carries(r)'
      BY <3>2, <3>3 DEF Carries
    <3> QED BY <2>3, <2>6, <3>1, <3>3, <3>4
  <2> QED BY ZenonT(90), <1>4, <2>4, <2>5, <2>6 DEF RequestUnlink, RequestDelete, RequestRestore
<1> QED BY <1>2, <1>3, <1>4

-----------------------------------------------------------------------------
(* What a write leaves behind *)

\* A task moves on, and nothing else.
LEMMA AsideStep ==
    ASSUME IInv, NEW t \in Tasks, task[t].step # "announce", NEW r \in Task, Become(t, r),
           Carries(r), UNCHANGED <<stored, following, clock, requests>>
    PROVE  IInv'
<1>0. TypeOK
  BY DEF IInv
<1>1. UNCHANGED <<rows, row, members, held, groups, used, rights, founded,
                  mirror, since, news, silent, clock, requests>>
  BY DEF stored, grouping, following
<1>2. /\ task' \in [Tasks -> Task] /\ task'[t] = r
      /\ \A u \in Tasks \ {t} : task'[u] = task[u]
  BY Takes
<1>3. TypeOK'
  BY <1>0, <1>1, <1>2 DEF TypeOK
<1>4. \A a \in Addresses : Kept(a)
  BY <1>1, KeepsAll
<1>5. RightsTraced' /\ HeldTraced'
  BY <1>1 DEF IInv, RightsTraced, HeldTraced
<1>6. Carries(task[t])'
  BY <1>1, <1>2 DEF Carries, Entitled
<1> QED BY <1>1, <1>2, <1>3, <1>4, <1>5, <1>6, Renews

LEMMA RefusedStep ==
    ASSUME IInv, NEW t \in Tasks, task[t].step # "announce", Refused(t)
    PROVE  IInv'
<1>1. Become(t, Idle) /\ UNCHANGED <<stored, following, clock, requests>>
  BY DEF Refused, Answer, Untimed
<1> HIDE DEF Become
<1> QED BY <1>1, IdleIs, AsideStep

LEMMA RegisteredIs ==
    ASSUME TypeOK, NEW a \in Addresses, NEW seen \in Times
    PROVE  /\ Registered(a, seen) \in Row /\ Registered(a, seen).seenAt = seen
           /\ Registered(a, seen).deleted = FALSE
           /\ Registered(a, seen).id = (IF a \in rows THEN row[a].id ELSE row[a].id + 1)
<1>1. /\ row[a] \in Row /\ NoRow \in Row /\ 0 \in Times /\ row[a].id \in Nat
      /\ row[a].id + 1 \in Nat /\ "none" \in AllKeys \cup {"none"} /\ NoRow.deleted = FALSE
  BY TypesAre, NumbersAssumption DEF NoRow, Row, Times
<1>2. CASE a \in rows
  <2>1. Registered(a, seen) = [row[a] EXCEPT !.seenAt = seen, !.deleted = FALSE, !.deletedAt = 0,
                                             !.deletedBy = "none"]
    BY <1>2 DEF Registered
  <2> QED BY <1>1, <1>2, <2>1 DEF Row
<1>3. CASE a \notin rows
  <2>1. Registered(a, seen) = [NoRow EXCEPT !.id = row[a].id + 1, !.seenAt = seen]
    BY <1>3 DEF Registered
  <2> QED BY <1>1, <1>3, <2>1 DEF Row
<1> QED BY <1>2, <1>3

LEMMA TrashedIs ==
    ASSUME NEW r \in Row, NEW k \in AllKeys, NEW time \in Times
    PROVE  /\ Trashed(r, k, time) \in Row /\ Trashed(r, k, time).deleted = TRUE
           /\ Trashed(r, k, time).deletedAt = time /\ Trashed(r, k, time).deletedBy = k
           /\ Trashed(r, k, time).id = r.id /\ Trashed(r, k, time).seenAt = r.seenAt
BY DEF Trashed, Row

LEMMA LinkedIs ==
    ASSUME IInv, NEW t \in Tasks, NEW A \in SUBSET Addresses, Linked(t, A),
           Group(t) \in groups, groups' = groups, rows' = rows \cup A
    PROVE  /\ members' \subseteq rows' \X groups' /\ held' \in [Addresses -> SUBSET Groups]
           /\ HeldTraced'
           /\ \A a \in A : /\ <<a, Group(t)>> \in members' /\ Group(t) \in held'[a]
                           /\ a \in rows => held[a] \subseteq held'[a]
           /\ \A a \in Addresses \ A : /\ held'[a] = held[a]
                                       /\ \A g : <<a, g>> \in members' <=> <<a, g>> \in members
<1>0. TypeOK /\ HeldTraced /\ groups \subseteq Groups
  BY DEF IInv, TypeOK
<1>1. members' = members \cup (A \X {Group(t)})
  BY DEF Linked
<1>2. \A a \in Addresses :
         held'[a] = IF a \in A THEN (IF a \in rows THEN held[a] ELSE {}) \cup {Group(t)} ELSE held[a]
  BY DEF Linked
<1>3. held' \in [Addresses -> SUBSET Groups]
  <2>1. \A a \in Addresses : held[a] \subseteq Groups
    BY <1>0 DEF TypeOK
  <2>2. \A a \in Addresses : held'[a] \subseteq Groups
    BY <1>0, <1>2, <2>1
  <2>3. held' = [a \in Addresses |-> held'[a]]
    BY DEF Linked
  <2> QED BY <2>2, <2>3
<1>4. members' \subseteq rows' \X groups'
  BY <1>0, <1>1 DEF TypeOK
<1>5. HeldTraced'
  <2> SUFFICES ASSUME NEW m \in members' PROVE m[2] \in held'[m[1]]
    BY DEF HeldTraced
  <2>1. CASE m \in members
    <3>1. m[1] \in rows /\ m[1] \in Addresses /\ m[2] \in held[m[1]]
      BY <1>0, <2>1 DEF HeldTraced, TypeOK
    <3> QED BY <1>2, <3>1
  <2>2. CASE m \in A \X {Group(t)}
    BY <1>2, <2>2
  <2> QED BY <1>1, <2>1, <2>2
<1>6. \A a \in A : /\ <<a, Group(t)>> \in members' /\ Group(t) \in held'[a]
                   /\ a \in rows => held[a] \subseteq held'[a]
  BY <1>1, <1>2
<1>7. \A a \in Addresses \ A : /\ held'[a] = held[a]
                               /\ \A g : <<a, g>> \in members' <=> <<a, g>> \in members
  BY <1>1, <1>2
<1> QED BY <1>3, <1>4, <1>5, <1>6, <1>7

LEMMA ChangedIs ==
    ASSUME TypeOK, NEW A \in SUBSET Addresses, NEW stale \in SUBSET A, NEW who,
           Changed(A, stale, who), \A a \in A : who[a] \in Tasks \cup {"none"}
    PROVE  /\ mirror' = mirror /\ since' = since /\ silent' \subseteq Addresses
           /\ news' \in [Addresses -> Tasks \cup News]
           /\ \A a \in A : news'[a] = who[a] /\ (a \in silent' <=> a \in stale)
           /\ \A a \in Addresses \ A : news'[a] = news[a] /\ (a \in silent' <=> a \in silent)
<1>1. /\ silent' = (silent \ A) \cup stale /\ mirror' = mirror /\ since' = since
      /\ news' = [a \in Addresses |-> IF a \in A THEN who[a] ELSE news[a]]
  BY DEF Changed
<1>2. "none" \in News
  BY DEF News
<1> QED BY <1>1, <1>2 DEF TypeOK

LEMMA SendersAre ==
    ASSUME NEW t \in Tasks, NEW a \in Addresses
    PROVE  /\ Sender(t)[a] = (IF Group(t) = Watched THEN t ELSE "none") /\ Nobody[a] = "none"
           /\ Sender(t)[a] \in Tasks \cup {"none"}
BY DEF Sender, Nobody

LEMMA StaleIs ==
    ASSUME TypeOK, NEW A, NEW stamp \in Times
    PROVE  Stale(A, stamp) \subseteq A /\ (stamp >= since \/ Stale(A, stamp) = A)
<1>1. stamp \in Nat /\ since \in Nat
  BY TypesAre
<1> QED BY <1>1 DEF Stale

-----------------------------------------------------------------------------
(* The writes *)

LEMMA UpsertStep ==
    ASSUME IInv, NEW t \in Tasks, Upsert(t)
    PROVE  IInv'
<1>0. TypeOK /\ task[t].step = "upsert" /\ Carries(task[t])
  BY DEF IInv, Upsert, At
<1>1. CASE Refused(t)
  BY <1>0, <1>1, RefusedStep
<1> PICK a \in Addresses : a = task[t].address
  BY <1>0 DEF Carries
<1>2. CASE /\ MayUpsert(a, Group(t)) /\ rows' = rows \cup {a}
           /\ row' = [row EXCEPT ![a] = Registered(a, task[t].now)]
           /\ Linked(t, {a})
           /\ Changed({a}, Stale({a}, task[t].now), Sender(t))
           /\ Become(t, [task[t] EXCEPT !.step = "announce", !.adds = {a}])
           /\ UNCHANGED <<grouping, clock, requests>>
  <2> PICK now \in Times : now = task[t].now
    BY <1>0, TypesAre
  <2> PICK new : new = Registered(a, now)
    OBVIOUS
  <2>1. /\ new \in Row /\ new.seenAt = now /\ new.deleted = FALSE
        /\ new.id = (IF a \in rows THEN row[a].id ELSE row[a].id + 1) /\ row[a].id \in Nat
    BY <1>0, RegisteredIs, TypesAre
  <2>2. /\ row' \in [Addresses -> Row] /\ row'[a] = new
        /\ \A b \in Addresses \ {a} : row'[b] = row[b]
    BY <1>0, <1>2, <2>1 DEF TypeOK
  <2>3. UNCHANGED <<groups, used, rights, founded>> /\ Group(t) \in groups
    BY <1>2 DEF grouping, MayUpsert
  <2>4. /\ members' \subseteq rows' \X groups' /\ held' \in [Addresses -> SUBSET Groups]
        /\ HeldTraced' /\ <<a, Group(t)>> \in members' /\ (a \in rows => held[a] \subseteq held'[a])
        /\ \A b \in Addresses \ {a} : /\ held'[b] = held[b]
                                      /\ \A g : <<b, g>> \in members' <=> <<b, g>> \in members
    BY <1>2, <2>3, LinkedIs
  <2>5. Stale({a}, now) \in SUBSET {a} /\ (now >= since \/ Stale({a}, now) = {a})
    BY <1>0, StaleIs
  <2>6. /\ mirror' = mirror /\ since' = since /\ silent' \subseteq Addresses
        /\ news' \in [Addresses -> Tasks \cup News]
        /\ news'[a] = Sender(t)[a] /\ (a \in silent' <=> a \in Stale({a}, now))
        /\ \A b \in Addresses \ {a} : news'[b] = news[b] /\ (b \in silent' <=> b \in silent)
    <3>1. Changed({a}, Stale({a}, now), Sender(t)) /\ {a} \in SUBSET Addresses
      BY <1>2
    <3>2. \A b \in {a} : Sender(t)[b] \in Tasks \cup {"none"}
      BY SendersAre
    <3> HIDE DEF Changed, Stale, Sender
    <3>3. /\ mirror' = mirror /\ since' = since /\ silent' \subseteq Addresses
          /\ news' \in [Addresses -> Tasks \cup News]
          /\ \A b \in {a} : news'[b] = Sender(t)[b] /\ (b \in silent' <=> b \in Stale({a}, now))
          /\ \A b \in Addresses \ {a} : news'[b] = news[b] /\ (b \in silent' <=> b \in silent)
      BY <1>0, <2>5, <3>1, <3>2, ChangedIs
    <3> QED BY <3>3
  <2>7. PICK r \in Task : /\ r = [task[t] EXCEPT !.step = "announce", !.adds = {a}]
                          /\ r.step = "announce" /\ r.adds = {a} /\ r.dels = {}
    <3>1. PICK q \in Task : q = task[t]
      BY <1>0 DEF TypeOK
    <3>2. q.dels = {} /\ {a} \in SUBSET Addresses
      BY <1>0, <3>1 DEF Carries
    <3>3. PICK r : r = [q EXCEPT !.step = "announce", !.adds = {a}]
      OBVIOUS
    <3>4. "announce" \in Steps
      BY DEF Steps
    <3>5. r \in Task /\ r.step = "announce" /\ r.adds = {a} /\ r.dels = {}
      BY <3>2, <3>3, <3>4 DEF Task
    <3> QED BY <3>1, <3>3, <3>5
  <2>8. /\ task' \in [Tasks -> Task] /\ task'[t] = r
        /\ \A u \in Tasks \ {t} : task'[u] = task[u]
    BY <1>2, <2>7, Takes
  <2>9. TypeOK'
    BY <1>0, <1>2, <2>2, <2>3, <2>4, <2>6, <2>8 DEF TypeOK
  <2>10. Carries(task[t])'
    BY <2>7, <2>8 DEF Carries
  <2>11. \A b \in Addresses \ {a} : Kept(b)
    BY <1>2, <2>2, <2>4, <2>6 DEF Kept
  <2>12. Renewed(a, t)
    <3>1. row[a].id <= row'[a].id
      BY <2>1, <2>2
    <3>2. a \in rows' /\ row'[a].id = row[a].id => a \in rows /\ held[a] \subseteq held'[a]
      BY <2>1, <2>2, <2>4
    <3>3. a \in silent' \/ Window(row'[a], since)
      BY <2>1, <2>2, <2>5, <2>6 DEF Window
    <3>4. Group(t) = Watched => a \in In(Watched)'
      BY <1>2, <2>4 DEF In
    <3>5. news'[a] = "none" \/ (news'[a] = t /\ Tells(task[t], a)')
      BY <2>1, <2>2, <2>6, <2>7, <2>8, <3>4, SendersAre DEF Tells
    <3> QED BY <2>1, <2>2, <3>1, <3>2, <3>3, <3>5 DEF Renewed
  <2>13. RightsTraced'
    BY <2>3 DEF IInv, RightsTraced
  <2> QED BY <1>0, <2>3, <2>4, <2>6, <2>8, <2>9, <2>10, <2>11, <2>12, <2>13, Renews
<1> QED BY <1>1, <1>2 DEF Upsert, Untimed

LEMMA UnlinkStep ==
    ASSUME IInv, NEW t \in Tasks, Unlink(t)
    PROVE  IInv'
<1>0. TypeOK /\ task[t].step = "unlink" /\ Carries(task[t])
  BY DEF IInv, Unlink, At
<1>1. CASE Refused(t)
  BY <1>0, <1>1, RefusedStep
<1> PICK a : a = task[t].address
  OBVIOUS
<1>2. CASE /\ MayUnlink(a, Group(t)) /\ members' = members \ {<<a, Group(t)>>}
           /\ Changed({a}, {a} \cap silent, Sender(t))
           /\ Become(t, [task[t] EXCEPT !.step = "announce", !.dels = {a}])
           /\ UNCHANGED <<rows, row, held, grouping, clock, requests>>
  <2>1. a \in rows /\ a \in Addresses
    BY <1>0, <1>2 DEF MayUnlink, In, TypeOK
  <2>2. UNCHANGED <<groups, used, rights, founded>>
    BY <1>2 DEF grouping
  <2>3. /\ mirror' = mirror /\ since' = since /\ silent' \subseteq Addresses
        /\ news' \in [Addresses -> Tasks \cup News]
        /\ news'[a] = Sender(t)[a] /\ (a \in silent' <=> a \in silent)
        /\ \A b \in Addresses \ {a} : news'[b] = news[b] /\ (b \in silent' <=> b \in silent)
    <3>1. {a} \in SUBSET Addresses /\ {a} \cap silent \in SUBSET {a}
      BY <2>1
    <3>2. \A b \in {a} : Sender(t)[b] \in Tasks \cup {"none"}
      BY <2>1, SendersAre
    <3> HIDE DEF Changed, Sender
    <3>3. /\ mirror' = mirror /\ since' = since /\ silent' \subseteq Addresses
          /\ news' \in [Addresses -> Tasks \cup News]
          /\ \A b \in {a} : news'[b] = Sender(t)[b] /\ (b \in silent' <=> b \in {a} \cap silent)
          /\ \A b \in Addresses \ {a} : news'[b] = news[b] /\ (b \in silent' <=> b \in silent)
      BY <1>0, <1>2, <3>1, <3>2, ChangedIs
    <3> QED BY <3>3
  <2>4. PICK r \in Task : /\ r = [task[t] EXCEPT !.step = "announce", !.dels = {a}]
                          /\ r.step = "announce" /\ r.dels = {a} /\ r.adds = {}
    <3>1. PICK q \in Task : q = task[t]
      BY <1>0 DEF TypeOK
    <3>2. q.adds = {} /\ {a} \in SUBSET Addresses
      BY <1>0, <2>1, <3>1 DEF Carries
    <3>3. PICK r : r = [q EXCEPT !.step = "announce", !.dels = {a}]
      OBVIOUS
    <3>4. "announce" \in Steps
      BY DEF Steps
    <3>5. r \in Task /\ r.step = "announce" /\ r.adds = {} /\ r.dels = {a}
      BY <3>2, <3>3, <3>4 DEF Task
    <3> QED BY <3>1, <3>3, <3>5
  <2>5. /\ task' \in [Tasks -> Task] /\ task'[t] = r
        /\ \A u \in Tasks \ {t} : task'[u] = task[u]
    BY <1>2, <2>4, Takes
  <2>6. TypeOK'
    BY <1>0, <1>2, <2>2, <2>3, <2>5 DEF TypeOK
  <2>7. Carries(task[t])'
    BY <2>4, <2>5 DEF Carries
  <2>8. \A b \in Addresses \ {a} : Kept(b)
    BY <1>2, <2>3 DEF Kept
  <2>9. Renewed(a, t)
    <3>1. row[a].id <= row'[a].id
      BY <1>0, <1>2, <2>1, TypesAre
    <3>2. row'[a].deleted => Entitled(row[a].deletedBy, a, {"delete", "write"})'
      <4> SUFFICES ASSUME row[a].deleted
                   PROVE  Entitled(row[a].deletedBy, a, {"delete", "write"})'
        BY <1>2
      <4>1. Entitled(row[a].deletedBy, a, {"delete", "write"})
        BY <2>1 DEF IInv, TrashedByEntitled
      <4> QED BY <1>2, <2>2, <4>1 DEF Entitled
    <3>3. ASSUME a \in In(Watched)', (a \in mirror) # ~row'[a].deleted
          PROVE  a \in silent' \/ Window(row'[a], since)
      <4>1. a \in In(Watched)
        BY <1>2, <3>3 DEF In
      <4> QED BY <1>2, <2>3, <3>3, <4>1 DEF IInv, PollMissesNothing
    <3>4. news'[a] = "none" \/ (news'[a] = t /\ Tells(task[t], a)')
      <4>1. Group(t) = Watched => a \notin In(Watched)'
        BY <1>2 DEF In
      <4> QED BY <2>1, <2>3, <2>4, <2>5, <4>1, SendersAre DEF Tells
    <3> QED BY <1>2, <2>1, <3>1, <3>2, <3>3, <3>4 DEF Renewed
  <2>10. RightsTraced' /\ HeldTraced'
    BY <1>2, <2>2 DEF IInv, RightsTraced, HeldTraced
  <2> QED BY <1>0, <2>2, <2>3, <2>5, <2>6, <2>7, <2>8, <2>9, <2>10, Renews
<1> QED BY <1>1, <1>2 DEF Unlink, Untimed

LEMMA JudgeStep ==
    ASSUME IInv, NEW t \in Tasks, Judge(t)
    PROVE  IInv'
<1>0. /\ TypeOK /\ HeldTraced /\ RightsTraced /\ task[t].step = "judge" /\ Carries(task[t])
      /\ UNCHANGED <<stored, following, clock, requests>>
  BY DEF IInv, Judge, At, Untimed
<1>1. PICK q \in Task : q = task[t]
  BY <1>0 DEF TypeOK
<1>2. CASE Answer(t)
  <2>1. Become(t, Idle)
    BY <1>2 DEF Answer
  <2> HIDE DEF Become
  <2> QED BY <1>0, <2>1, IdleIs, AsideStep
<1>3. CASE /\ CallerMayDelete(By(t), task[t].address)
           /\ Become(t, [task[t] EXCEPT !.step = "write", !.now = clock])
  <2>1. PICK r : r = [q EXCEPT !.step = "write", !.now = clock]
    OBVIOUS
  <2>2. "write" \in Steps /\ clock \in Times
    BY <1>0 DEF Steps, TypeOK
  <2>3. r \in Task /\ r.step = "write" /\ r.by = q.by /\ r.address = q.address /\ r.id = q.id
    BY <2>1, <2>2 DEF Task
  <2>4. Entitled(q.by, q.address, {"delete"})
    <3>1. CASE q.by = Master
      BY <3>1 DEF Entitled
    <3>2. CASE q.by # Master
      <4>1. PICK g \in groups : <<q.address, g>> \in members /\ <<q.by, g, "delete">> \in rights
        BY <1>1, <1>3, <3>2 DEF CallerMayDelete, By, Holds, In
      <4>2. g \in held[q.address]
        BY <1>0, <4>1 DEF HeldTraced
      <4>3. <<q.by, g>> \in founded \/ <<q.by, g, "delete">> \in GivenRights
        BY <1>0, <4>1 DEF RightsTraced
      <4> QED BY <4>2, <4>3 DEF Entitled
    <3> QED BY <3>1, <3>2
  <2>5. Carries(r)
    BY <1>0, <1>1, <2>3, <2>4 DEF Carries
  <2>6. Become(t, r)
    BY <1>1, <1>3, <2>1
  <2> HIDE DEF Become
  <2> QED BY <1>0, <2>3, <2>5, <2>6, AsideStep
<1> QED BY <1>2, <1>3 DEF Judge

\* A row is rewritten where it is.
LEMMA RewriteStep ==
    ASSUME IInv, NEW t \in Tasks, task[t].step # "announce", Answer(t), Untimed,
           NEW a \in rows, NEW new \in Row, row' = [row EXCEPT ![a] = new],
           new.id = row[a].id,
           new.deleted => Entitled(new.deletedBy, a, {"delete", "write"}),
           NEW stale \in SUBSET {a}, a \in stale \/ Window(new, since),
           Changed({a}, stale, Nobody),
           UNCHANGED <<rows, members, held, grouping>>
    PROVE  IInv'
<1>0. TypeOK /\ a \in Addresses /\ UNCHANGED <<clock, requests>>
  BY DEF IInv, TypeOK, Untimed
<1>1. UNCHANGED <<groups, used, rights, founded>>
  BY DEF grouping
<1>2. row' \in [Addresses -> Row] /\ row'[a] = new /\ \A b \in Addresses \ {a} : row'[b] = row[b]
  BY <1>0 DEF TypeOK
<1>3. /\ mirror' = mirror /\ since' = since /\ silent' \subseteq Addresses
      /\ news' \in [Addresses -> Tasks \cup News]
      /\ news'[a] = "none" /\ (a \in silent' <=> a \in stale)
      /\ \A b \in Addresses \ {a} : news'[b] = news[b] /\ (b \in silent' <=> b \in silent)
  <2>1. {a} \in SUBSET Addresses /\ Nobody[a] = "none"
    BY <1>0 DEF Nobody
  <2>2. /\ mirror' = mirror /\ since' = since /\ silent' \subseteq Addresses
        /\ news' \in [Addresses -> Tasks \cup News]
        /\ \A b \in {a} : news'[b] = Nobody[b] /\ (b \in silent' <=> b \in stale)
        /\ \A b \in Addresses \ {a} : news'[b] = news[b] /\ (b \in silent' <=> b \in silent)
    <3>1. \A b \in {a} : Nobody[b] \in Tasks \cup {"none"}
      BY <2>1
    <3> HIDE DEF Changed, Nobody
    <3> QED BY <1>0, <2>1, <3>1, ChangedIs
  <2> QED BY <2>1, <2>2
<1>4. Become(t, Idle) /\ Idle \in Task
  BY IdleIs DEF Answer
<1>5. /\ task' \in [Tasks -> Task] /\ task'[t] = Idle
      /\ \A u \in Tasks \ {t} : task'[u] = task[u]
  BY <1>4, Takes
<1>6. TypeOK'
  BY <1>0, <1>1, <1>2, <1>3, <1>5 DEF TypeOK
<1>7. Carries(task[t])'
  BY <1>5, IdleIs DEF Carries
<1>8. \A b \in Addresses \ {a} : Kept(b)
  BY <1>2, <1>3 DEF Kept
<1>9. Renewed(a, t)
  <2>1. row[a].id \in Nat
    BY <1>0, TypesAre
  <2>2. new.deleted => Entitled(new.deletedBy, a, {"delete", "write"})'
    BY <1>1 DEF Entitled
  <2>3. row'[a].deleted => Entitled(row[a].deletedBy, a, {"delete", "write"})'
    BY <1>2, <2>2
  <2>4. a \in silent' \/ Window(row'[a], since)
    BY <1>2, <1>3
  <2> QED BY <1>2, <1>3, <2>1, <2>3, <2>4 DEF Renewed
<1>10. RightsTraced' /\ HeldTraced'
  BY <1>1 DEF IInv, RightsTraced, HeldTraced
<1> QED BY <1>1, <1>3, <1>5, <1>6, <1>7, <1>8, <1>9, <1>10, Renews

\* Rows go, at the hands of task t or of none.
LEMMA GoneStep ==
    ASSUME IInv, NEW A \in SUBSET rows, Gone(A), Untimed, NEW t,
           task' = task \/ (t \in Tasks /\ task[t].step # "announce" /\ Answer(t))
    PROVE  IInv'
<1>0. TypeOK /\ A \in SUBSET Addresses
  BY DEF IInv, TypeOK
<1>1. /\ UNCHANGED <<row, held, groups, used, rights, founded, clock, requests>>
      /\ rows' = rows \ A /\ members' = {m \in members : m[1] \notin A}
      /\ Changed(A, silent \cap A, Nobody)
  BY DEF Gone, grouping, Untimed
<1>2. /\ mirror' = mirror /\ since' = since /\ silent' \subseteq Addresses
      /\ news' \in [Addresses -> Tasks \cup News]
      /\ \A b \in A : news'[b] = "none" /\ (b \in silent' <=> b \in silent)
      /\ \A b \in Addresses \ A : news'[b] = news[b] /\ (b \in silent' <=> b \in silent)
  <2>1. \A b \in A : Nobody[b] = "none"
    BY <1>0 DEF Nobody
  <2>2. /\ mirror' = mirror /\ since' = since /\ silent' \subseteq Addresses
        /\ news' \in [Addresses -> Tasks \cup News]
        /\ \A b \in A : news'[b] = Nobody[b] /\ (b \in silent' <=> b \in silent \cap A)
        /\ \A b \in Addresses \ A : news'[b] = news[b] /\ (b \in silent' <=> b \in silent)
    <3>1. silent \cap A \in SUBSET A /\ \A b \in A : Nobody[b] \in Tasks \cup {"none"}
      BY <2>1
    <3> HIDE DEF Changed, Nobody
    <3> QED BY <1>0, <1>1, <3>1, ChangedIs
  <2> QED BY <2>1, <2>2
<1>3. /\ task' \in [Tasks -> Task]
      /\ \A u \in Tasks : task'[u] = task[u]
                          \/ (u = t /\ task[u].step # "announce" /\ Carries(task[u])')
  <2>1. CASE task' = task
    BY <1>0, <2>1 DEF TypeOK
  <2>2. CASE t \in Tasks /\ task[t].step # "announce" /\ Answer(t)
    <3>1. Become(t, Idle) /\ Idle \in Task
      BY <2>2, IdleIs DEF Answer
    <3>2. /\ task' \in [Tasks -> Task] /\ task'[t] = Idle
          /\ \A u \in Tasks \ {t} : task'[u] = task[u]
      BY <2>2, <3>1, Takes
    <3>3. Carries(task[t])'
      BY <3>2, IdleIs DEF Carries
    <3> QED BY <2>2, <3>2, <3>3
  <2> QED BY <2>1, <2>2
<1>4. TypeOK'
  BY <1>0, <1>1, <1>2, <1>3 DEF TypeOK
<1>5. \A b \in Addresses \ A : Kept(b)
  BY <1>1, <1>2 DEF Kept
<1>6. \A b \in A : Renewed(b, t)
  <2>1. \A b \in A : row[b].id \in Nat /\ b \notin rows' /\ b \notin In(Watched)'
    BY <1>0, <1>1, TypesAre DEF In
  <2> QED BY <1>1, <1>2, <2>1 DEF Renewed
<1>7. RightsTraced' /\ HeldTraced'
  BY <1>1 DEF IInv, RightsTraced, HeldTraced
<1> QED BY <1>1, <1>2, <1>3, <1>4, <1>5, <1>6, <1>7, Renews

LEMMA WriteStep ==
    ASSUME IInv, NEW t \in Tasks, Write(t)
    PROVE  IInv'
<1>0. /\ TypeOK /\ task[t].step = "write" /\ Carries(task[t]) /\ Answer(t) /\ Untimed
  BY DEF IInv, Write, At
<1> PICK a : a = task[t].address
  OBVIOUS
<1>1. CASE ~SameRow(t) /\ UNCHANGED <<stored, following>>
  <2>1. Become(t, Idle) /\ UNCHANGED <<stored, following, clock, requests>>
    BY <1>0, <1>1 DEF Answer, Untimed
  <2> HIDE DEF Become
  <2> QED BY <1>0, <2>1, IdleIs, AsideStep
<1>2. CASE SameRow(t) /\ Gone({a})
  <2>1. {a} \in SUBSET rows
    BY <1>2 DEF SameRow
  <2> HIDE DEF Gone, Answer, Untimed
  <2> QED BY <1>0, <1>2, <2>1, GoneStep
<1>3. CASE /\ SameRow(t)
           /\ row' = [row EXCEPT ![a] = Trashed(row[a], By(t), task[t].now)]
           /\ Changed({a}, Stale({a}, task[t].now), Nobody)
           /\ UNCHANGED <<rows, members, held, grouping>>
  <2>1. PICK now \in Times : now = task[t].now
    BY <1>0, TypesAre
  <2>2. PICK k \in AllKeys : k = task[t].by
    BY <1>0, TypesAre
  <2>3. PICK new : new = Trashed(row[a], k, now)
    OBVIOUS
  <2>4. a \in rows /\ a \in Addresses /\ row[a] \in Row
    BY <1>0, <1>3, TypesAre DEF SameRow, TypeOK
  <2>5. /\ new \in Row /\ new.deleted = TRUE /\ new.deletedAt = now
        /\ new.deletedBy = k /\ new.id = row[a].id
    <3>1. PICK old \in Row : old = row[a]
      BY <2>4
    <3>2. new = Trashed(old, k, now)
      BY <2>3, <3>1
    <3> HIDE DEF Trashed
    <3>3. /\ new \in Row /\ new.deleted = TRUE /\ new.deletedAt = now
          /\ new.deletedBy = k /\ new.id = old.id
      BY ZenonT(90), <3>2, TrashedIs
    <3> QED BY <3>1, <3>3
  <2>6. Entitled(k, a, {"delete", "write"})
    <3>1. Entitled(k, a, {"delete"})
      BY <1>0, <1>3, <2>2 DEF Carries, SameRow
    <3> QED BY <3>1, EntitledMore
  <2>7. Stale({a}, now) \in SUBSET {a} /\ (now >= since \/ Stale({a}, now) = {a})
    BY <1>0, StaleIs
  <2>8. a \in Stale({a}, now) \/ Window(new, since)
    BY <2>5, <2>7 DEF Window
  <2>9. row' = [row EXCEPT ![a] = new] /\ Changed({a}, Stale({a}, now), Nobody)
    BY <1>3, <2>1, <2>2, <2>3 DEF By
  <2>10. new.deleted => Entitled(new.deletedBy, a, {"delete", "write"})
    BY <2>5, <2>6
  <2> HIDE DEF Changed, Stale, Answer, Untimed, Window
  <2> QED BY ZenonT(90), <1>0, <1>3, <2>4, <2>5, <2>7, <2>8, <2>9, <2>10, RewriteStep
<1> QED BY <1>0, <1>1, <1>2, <1>3 DEF Write

LEMMA RestoreStep ==
    ASSUME IInv, NEW t \in Tasks, Restore(t)
    PROVE  IInv'
<1>0. /\ TypeOK /\ task[t].step = "restore" /\ Carries(task[t]) /\ Answer(t) /\ Untimed
  BY DEF IInv, Restore, At
<1> PICK a : a = task[t].address
  OBVIOUS
<1>1. CASE ~SameRow(t) /\ UNCHANGED <<stored, following>>
  <2>1. Become(t, Idle) /\ UNCHANGED <<stored, following, clock, requests>>
    BY <1>0, <1>1 DEF Answer, Untimed
  <2> HIDE DEF Become
  <2> QED BY <1>0, <2>1, IdleIs, AsideStep
<1>2. CASE /\ SameRow(t)
           /\ row' = [row EXCEPT ![a] = Registered(a, row[a].seenAt)]
           /\ Changed({a}, {a}, Nobody)
           /\ UNCHANGED <<rows, members, held, grouping>>
  <2>1. a \in rows /\ a \in Addresses /\ row[a].seenAt \in Times
    BY <1>0, <1>2, TypesAre DEF SameRow, TypeOK
  <2>2. PICK new : new = Registered(a, row[a].seenAt)
    OBVIOUS
  <2>3. new \in Row /\ new.deleted = FALSE /\ new.id = row[a].id
    BY <1>0, <2>1, <2>2, RegisteredIs
  <2>4. new.deleted => Entitled(new.deletedBy, a, {"delete", "write"})
    BY <2>3
  <2>5. row' = [row EXCEPT ![a] = new] /\ {a} \in SUBSET {a} /\ a \in {a}
    BY <1>2, <2>2
  <2> HIDE DEF Changed, Answer, Untimed, Window
  <2> QED BY <1>0, <1>2, <2>1, <2>3, <2>4, <2>5, RewriteStep
<1> QED BY <1>0, <1>1, <1>2 DEF Restore

-----------------------------------------------------------------------------
(* The events, the purge, the operator and the consumers *)

LEMMA AnnounceStep ==
    ASSUME IInv, NEW t \in Tasks, Announce(t)
    PROVE  IInv'
<1>0. /\ TypeOK /\ NewsTraced /\ EventsTellTheTruth
      /\ UNCHANGED <<rows, row, members, held, groups, used, rights, founded,
                     mirror, since, silent, clock, requests>>
  BY DEF IInv, Announce, stored, grouping, Untimed
<1>1. PICK taken : \A a \in Addresses :
         news'[a] = IF a \in taken /\ news[a] = t
                    THEN (IF a \in task[t].adds THEN "live" ELSE "gone")
                    ELSE IF news[a] = t \/ (a \in taken /\ Group(t) = Watched) THEN "none"
                    ELSE news[a]
  BY DEF Announce
<1>2. news' \in [Addresses -> Tasks \cup News]
  <2>1. \A a \in Addresses : news'[a] \in Tasks \cup News
    BY <1>0, <1>1 DEF TypeOK, News
  <2>2. news' = [a \in Addresses |-> news'[a]]
    BY DEF Announce
  <2> QED BY <2>1, <2>2
<1>3. Become(t, Idle) /\ Idle \in Task
  BY IdleIs DEF Announce, Answer
<1>4. /\ task' \in [Tasks -> Task] /\ task'[t] = Idle
      /\ \A u \in Tasks \ {t} : task'[u] = task[u]
  BY <1>3, Takes
<1>5. TypeOK'
  BY <1>0, <1>2, <1>4 DEF TypeOK
<1>6. \A u \in Tasks : Carries(task[u])'
  <2> SUFFICES ASSUME NEW u \in Tasks PROVE Carries(task[u])'
    OBVIOUS
  <2>1. CASE u = t
    BY <1>4, <2>1, IdleIs DEF Carries
  <2>2. CASE u # t
    BY <1>0, <1>4, <2>2 DEF IInv, Carries, Entitled
  <2> QED BY <2>1, <2>2
<1>7. "live" \notin Tasks /\ "gone" \notin Tasks /\ "none" \notin Tasks
  BY TasksAssumption DEF News
<1>8. NewsTraced'
  <2> SUFFICES ASSUME NEW a \in Addresses, NEW u \in Tasks, news'[a] = u
               PROVE  Tells(task[u], a)'
    BY DEF NewsTraced
  <2>1. u # t /\ news[a] = u
    BY <1>1, <1>7
  <2>2. Tells(task[u], a)
    BY <1>0, <2>1 DEF NewsTraced
  <2> QED BY <1>0, <1>4, <2>1, <2>2 DEF Tells, In
<1>9. EventsTellTheTruth'
  <2> SUFFICES ASSUME NEW a \in Addresses, news'[a] \in {"live", "gone"}
               PROVE  news'[a] = "live" <=> (a \in In(Watched) /\ ~row[a].deleted)
    BY <1>0 DEF EventsTellTheTruth, In
  <2>1. CASE news[a] = t
    <3>1. Tells(task[t], a)
      BY <1>0, <2>1 DEF NewsTraced
    <3>2. news'[a] = "live" <=> a \in task[t].adds
      BY <1>1, <2>1
    <3> QED BY <3>1, <3>2 DEF Tells
  <2>2. CASE news[a] # t
    <3>1. news'[a] = news[a]
      BY <1>1, <2>2
    <3> QED BY <1>0, <3>1 DEF EventsTellTheTruth
  <2> QED BY <2>1, <2>2
<1>10. RightsTraced' /\ HeldTraced' /\ TrashedByEntitled' /\ PollMissesNothing'
  BY <1>0 DEF IInv, RightsTraced, HeldTraced, TrashedByEntitled, Entitled, PollMissesNothing,
              In, Window
<1> QED BY <1>5, <1>6, <1>8, <1>9, <1>10 DEF IInv

LEMMA PurgeStep == ASSUME IInv, Purge PROVE IInv'
<1>1. PICK A : A \in SUBSET rows /\ Gone(A) /\ task' = task /\ Untimed
  BY DEF Purge, Expired
<1> HIDE DEF Gone, Untimed
<1> QED BY <1>1, GoneStep

LEMMA OperatorStep == ASSUME IInv, OperatorLocks PROVE IInv'
<1>0. /\ TypeOK
      /\ UNCHANGED <<rows, members, held, groups, used, rights, founded, task,
                     mirror, since, silent, news, clock, requests>>
  BY DEF IInv, OperatorLocks, grouping, following, Untimed
<1>1. PICK a \in rows, locked \in BOOLEAN : row' = [row EXCEPT ![a].locked = locked]
  BY DEF OperatorLocks
<1>2. PICK new : new = [row[a] EXCEPT !.locked = locked]
  OBVIOUS
<1>3. a \in Addresses /\ row[a] \in Row
  BY <1>0, TypesAre DEF TypeOK
<1>4. /\ new \in Row /\ new.id = row[a].id /\ new.deletedBy = row[a].deletedBy
      /\ new.deleted = row[a].deleted /\ new.deletedAt = row[a].deletedAt
      /\ new.seenAt = row[a].seenAt
  BY <1>2, <1>3 DEF Row
<1>5. row' = [row EXCEPT ![a] = new]
  BY <1>1, <1>2
<1>6. row' \in [Addresses -> Row] /\ row'[a] = new /\ \A b \in Addresses \ {a} : row'[b] = row[b]
  BY <1>0, <1>3, <1>4, <1>5 DEF TypeOK
<1>7. TypeOK'
  BY <1>0, <1>6 DEF TypeOK
<1>8. \A b \in Addresses : Kept(b)
  <2>1. Kept(a)
    BY <1>0, <1>4, <1>6 DEF Kept
  <2>2. \A b \in Addresses \ {a} : Kept(b)
    BY <1>0, <1>6 DEF Kept
  <2> QED BY <2>1, <2>2
<1>9. RightsTraced' /\ HeldTraced'
  BY <1>0 DEF IInv, RightsTraced, HeldTraced
<1> QED BY <1>0, <1>7, <1>8, <1>9, Renews

LEMMA RemoveGroupStep == ASSUME IInv, RemoveGroup PROVE IInv'
<1>0. /\ TypeOK /\ RightsTraced /\ HeldTraced
      /\ UNCHANGED <<rows, row, held, used, founded, task, clock, requests>>
  BY DEF IInv, RemoveGroup, Untimed
<1>1. PICK g \in groups :
         /\ groups' = groups \ {g}
         /\ members' = {m \in members : m[2] # g}
         /\ rights' = {r \in rights : r[2] # g}
         /\ IF g = Watched THEN Changed(In(g), silent \cap In(g), Nobody) ELSE UNCHANGED following
  BY DEF RemoveGroup
<1>2. /\ mirror' = mirror /\ since' = since /\ silent' \subseteq Addresses
      /\ news' \in [Addresses -> Tasks \cup News]
      /\ \A b \in Addresses : /\ b \in silent' <=> b \in silent
                              /\ \/ news'[b] = news[b] /\ (g = Watched => b \notin In(Watched))
                                 \/ news'[b] = "none" /\ g = Watched /\ b \in In(Watched)
  <2>1. CASE g # Watched
    BY <1>0, <1>1, <2>1 DEF following, TypeOK
  <2>2. CASE g = Watched
    <3>1. In(Watched) \in SUBSET Addresses
      BY <1>0 DEF In, TypeOK
    <3>2. PICK A \in SUBSET Addresses : A = In(Watched)
      BY <3>1
    <3>3. \A b \in A : Nobody[b] = "none" /\ Nobody[b] \in Tasks \cup {"none"}
      BY DEF Nobody
    <3>4. Changed(A, silent \cap A, Nobody) /\ silent \cap A \in SUBSET A
      BY <1>1, <2>2, <3>2
    <3>5. /\ mirror' = mirror /\ since' = since /\ silent' \subseteq Addresses
          /\ news' \in [Addresses -> Tasks \cup News]
          /\ \A b \in A : news'[b] = Nobody[b] /\ (b \in silent' <=> b \in silent \cap A)
          /\ \A b \in Addresses \ A : news'[b] = news[b] /\ (b \in silent' <=> b \in silent)
      <4> HIDE DEF Changed, Nobody
      <4> QED BY <1>0, <3>3, <3>4, ChangedIs
    <3> QED BY <2>2, <3>2, <3>3, <3>5
  <2> QED BY <2>1, <2>2
<1>3. TypeOK'
  <2>1. members' \subseteq rows' \X groups' /\ rights' \subseteq Keys \X groups' \X Verbs
    BY <1>0, <1>1 DEF TypeOK
  <2> QED BY <1>0, <1>1, <1>2, <2>1 DEF TypeOK
<1>4. RightsTraced' /\ HeldTraced'
  BY <1>0, <1>1 DEF RightsTraced, HeldTraced
<1>5. ASSUME NEW b \in Addresses PROVE Kept(b) \/ Renewed(b, "none")
  <2>1. CASE news'[b] = "none" /\ g = Watched /\ b \in In(Watched)
    <3>1. row[b].id \in Nat /\ b \in rows /\ b \notin In(Watched)'
      BY <1>0, <1>1, <2>1, TypesAre DEF In
    <3>2. row[b].deleted => Entitled(row[b].deletedBy, b, {"delete", "write"})
      BY <3>1 DEF IInv, TrashedByEntitled
    <3>3. row'[b].deleted => Entitled(row[b].deletedBy, b, {"delete", "write"})'
      BY <1>0, <3>2 DEF Entitled
    <3> QED BY <1>0, <2>1, <3>1, <3>3 DEF Renewed
  <2>2. CASE news'[b] = news[b] /\ (g = Watched => b \notin In(Watched))
    <3>1. <<b, Watched>> \in members' <=> <<b, Watched>> \in members
      <4>1. <<b, Watched>> \in members => b \in rows
        BY <1>0 DEF TypeOK
      <4> QED BY <1>1, <2>2, <4>1 DEF In
    <3> QED BY <1>0, <1>2, <2>2, <3>1 DEF Kept
  <2> QED BY <1>2, <2>1, <2>2
<1> QED BY <1>0, <1>2, <1>3, <1>4, <1>5, Renews

LEMMA PollStep == ASSUME IInv, Poll PROVE IInv'
<1>0. /\ TypeOK
      /\ UNCHANGED <<rows, row, members, held, groups, used, rights, founded, task, news,
                     clock, requests>>
  BY DEF IInv, Poll, stored, grouping, Untimed
<1>1. PICK answer : /\ answer = Response(Watched, since)
                    /\ mirror' = {a \in mirror \cup answer : a \in answer => ~row[a].deleted}
                    /\ since' = clock /\ silent' = silent \ answer
  BY DEF Poll
<1>2. answer \subseteq Addresses
  BY <1>0, <1>1 DEF Response, In, TypeOK
<1>3. TypeOK'
  BY <1>0, <1>1, <1>2 DEF TypeOK
<1>4. PollMissesNothing'
  <2> SUFFICES ASSUME NEW a \in In(Watched), a \notin silent'
               PROVE  (a \in mirror') = ~row[a].deleted
    BY <1>0 DEF PollMissesNothing, In
  <2>1. row[a].deleted \in BOOLEAN
    BY <1>0, TypesAre DEF In, TypeOK
  <2>2. CASE a \in answer
    BY <1>1, <2>1, <2>2
  <2>3. CASE a \notin answer
    <3>1. a \notin silent /\ ~Window(row[a], since)
      BY <1>1, <2>3 DEF Response
    <3>2. (a \in mirror) = ~row[a].deleted
      BY <3>1 DEF IInv, PollMissesNothing
    <3> QED BY <1>1, <2>3, <3>2
  <2> QED BY <2>2, <2>3
<1>5. (\A t \in Tasks : Carries(task[t]))' /\ NewsTraced' /\ EventsTellTheTruth'
  BY <1>0 DEF IInv, Carries, Entitled, NewsTraced, Tells, EventsTellTheTruth, In
<1>6. RightsTraced' /\ HeldTraced' /\ TrashedByEntitled'
  BY <1>0 DEF IInv, RightsTraced, HeldTraced, TrashedByEntitled, Entitled
<1> QED BY <1>3, <1>4, <1>5, <1>6 DEF IInv

\* A step that leaves everything that IInv speaks of but the clock.
LEMMA TimeStep ==
    ASSUME IInv, UNCHANGED <<stored, task, requests, following>>, clock' \in Times
    PROVE  IInv'
<1>0. /\ TypeOK
      /\ UNCHANGED <<rows, row, members, held, groups, used, rights, founded, task, news,
                     mirror, since, silent, requests>>
  BY DEF IInv, stored, grouping, following
<1>1. TypeOK'
  BY <1>0 DEF TypeOK
<1>2. (\A t \in Tasks : Carries(task[t]))' /\ NewsTraced' /\ EventsTellTheTruth'
  BY <1>0 DEF IInv, Carries, Entitled, NewsTraced, Tells, EventsTellTheTruth, In
<1>3. RightsTraced' /\ HeldTraced' /\ TrashedByEntitled' /\ PollMissesNothing'
  BY <1>0 DEF IInv, RightsTraced, HeldTraced, TrashedByEntitled, Entitled, PollMissesNothing,
              In, Window
<1> QED BY <1>1, <1>2, <1>3 DEF IInv

-----------------------------------------------------------------------------
(* The batch *)

LEMMA BatchRowIs ==
    ASSUME TypeOK, NEW t \in Tasks, NEW a \in Addresses, NEW at \in Times, NEW trash \in BOOLEAN
    PROVE  /\ BatchRow(t, a, at, trash) \in Row /\ BatchRow(t, a, at, trash).seenAt = at
           /\ BatchRow(t, a, at, trash).deleted = trash
           /\ trash => BatchRow(t, a, at, trash).deletedBy = By(t)
           /\ BatchRow(t, a, at, trash).id = (IF a \in rows THEN row[a].id ELSE row[a].id + 1)
<1>1. PICK live : live = Registered(a, at)
  OBVIOUS
<1>2. /\ live \in Row /\ live.seenAt = at /\ live.deleted = FALSE
      /\ live.id = (IF a \in rows THEN row[a].id ELSE row[a].id + 1)
  BY <1>1, RegisteredIs
<1>3. PICK k \in AllKeys : k = By(t)
  BY TypesAre DEF By
<1>4. BatchRow(t, a, at, trash) = IF trash THEN Trashed(live, k, at) ELSE live
  BY <1>1, <1>3 DEF BatchRow
<1>5. PICK gone : gone = Trashed(live, k, at)
  OBVIOUS
<1>6. live \in Row
  BY <1>2
<1>7. /\ gone \in Row /\ gone.deleted = TRUE /\ gone.deletedBy = k
      /\ gone.id = live.id /\ gone.seenAt = live.seenAt
  BY ZenonT(90), <1>5, <1>6, TrashedIs
<1> QED BY <1>2, <1>3, <1>4, <1>5, <1>7

\* The transaction: what it applies is listed, what it sweeps is not.
LEMMA BatchWritesStep ==
    ASSUME IInv, NEW t \in Tasks, task[t].step = "batch", Group(t) \in groups,
           NEW listed \in SUBSET Addresses, NEW at \in Times,
           NEW trash \in BOOLEAN, NEW quiet \in BOOLEAN,
           BatchWrites(t, listed, at, trash, quiet)
    PROVE  IInv'
<1> PICK applied, swept : applied = Applied(listed) /\ swept = Swept(t, listed)
  OBVIOUS
<1>a. rows' = rows \cup applied /\ Linked(t, applied) /\ UNCHANGED <<grouping, clock, requests>>
  BY DEF BatchWrites, Untimed
<1>b. row' = [a \in Addresses |-> IF a \in applied THEN BatchRow(t, a, at, trash)
                                  ELSE IF a \in swept THEN Trashed(row[a], By(t), task[t].now)
                                  ELSE row[a]]
  BY DEF BatchWrites
<1>c. Changed(applied \cup swept, Stale(applied, at) \cup Stale(swept, task[t].now),
              [a \in Addresses |->
                 IF quiet \/ (trash /\ a \in applied) THEN "none" ELSE Sender(t)[a]])
  BY DEF BatchWrites
<1>d. Become(t, IF quiet THEN Idle
                ELSE [task[t] EXCEPT !.step = "announce", !.adds = applied, !.dels = swept])
  BY DEF BatchWrites
<1>e. /\ applied \in SUBSET Addresses /\ swept \in SUBSET In(Group(t))
      /\ applied \cap swept = {}
  BY DEF Applied, Swept
<1>0. /\ TypeOK /\ HeldTraced /\ Carries(task[t]) /\ swept \in SUBSET Addresses
      /\ swept \subseteq rows
  BY <1>e DEF IInv, In, TypeOK
<1>1. UNCHANGED <<groups, used, rights, founded>>
  BY <1>a DEF grouping
<1>2. PICK k \in AllKeys, now \in Times : k = By(t) /\ now = task[t].now
  BY <1>0, TypesAre DEF By
<1>3. \A a \in applied :
         /\ row'[a] \in Row /\ row'[a].seenAt = at /\ row'[a].deleted = trash
         /\ trash => row'[a].deletedBy = k
         /\ row'[a].id = (IF a \in rows THEN row[a].id ELSE row[a].id + 1)
  <2> SUFFICES ASSUME NEW a \in applied
               PROVE  /\ row'[a] \in Row /\ row'[a].seenAt = at /\ row'[a].deleted = trash
                      /\ trash => row'[a].deletedBy = k
                      /\ row'[a].id = (IF a \in rows THEN row[a].id ELSE row[a].id + 1)
    OBVIOUS
  <2>1. PICK new : new = BatchRow(t, a, at, trash)
    OBVIOUS
  <2>2. row'[a] = new
    BY <1>b, <1>e, <2>1
  <2>3. /\ new \in Row /\ new.seenAt = at /\ new.deleted = trash /\ (trash => new.deletedBy = k)
        /\ new.id = (IF a \in rows THEN row[a].id ELSE row[a].id + 1)
    BY <1>0, <1>2, <1>e, <2>1, BatchRowIs
  <2> QED BY <2>2, <2>3
<1>4. \A a \in swept : /\ row'[a] \in Row /\ row'[a].deleted = TRUE /\ row'[a].deletedAt = now
                       /\ row'[a].deletedBy = k /\ row'[a].id = row[a].id
  <2> SUFFICES ASSUME NEW a \in swept
               PROVE  /\ row'[a] \in Row /\ row'[a].deleted = TRUE /\ row'[a].deletedAt = now
                      /\ row'[a].deletedBy = k /\ row'[a].id = row[a].id
    OBVIOUS
  <2>1. PICK old \in Row : old = row[a]
    BY <1>0 DEF TypeOK
  <2>2. PICK new : new = Trashed(old, k, now)
    OBVIOUS
  <2>3. row'[a] = new
    BY <1>0, <1>2, <1>b, <1>e, <2>1, <2>2
  <2>4. /\ new \in Row /\ new.deleted = TRUE /\ new.deletedAt = now
        /\ new.deletedBy = k /\ new.id = old.id
    BY ZenonT(90), <2>2, TrashedIs
  <2> QED BY <2>1, <2>3, <2>4
<1>5. \A a \in Addresses \ (applied \cup swept) : row'[a] = row[a]
  BY <1>b
<1>6. row' \in [Addresses -> Row]
  <2>1. \A a \in Addresses : row'[a] \in Row
    BY <1>0, <1>3, <1>4, <1>5 DEF TypeOK
  <2>2. row' = [a \in Addresses |-> row'[a]]
    BY <1>b
  <2> HIDE DEF Row
  <2> QED BY <2>1, <2>2
<1>7. /\ members' \subseteq rows' \X groups' /\ held' \in [Addresses -> SUBSET Groups]
      /\ HeldTraced'
      /\ \A a \in applied : /\ <<a, Group(t)>> \in members' /\ Group(t) \in held'[a]
                            /\ a \in rows => held[a] \subseteq held'[a]
      /\ \A a \in Addresses \ applied :
            /\ held'[a] = held[a]
            /\ \A g : <<a, g>> \in members' <=> <<a, g>> \in members
  <2> HIDE DEF Linked
  <2> QED BY <1>0, <1>1, <1>a, <1>e, LinkedIs
<1>8. PICK who : who = [a \in Addresses |->
                          IF quiet \/ (trash /\ a \in applied) THEN "none" ELSE Sender(t)[a]]
  OBVIOUS
<1>9. \A a \in Addresses : /\ who[a] \in {t, "none"}
                           /\ who[a] # "none" => /\ ~quiet /\ ~(trash /\ a \in applied)
                                                 /\ Group(t) = Watched
  BY <1>8, SendersAre
<1>10. PICK A \in SUBSET Addresses : A = applied \cup swept
  BY <1>0, <1>e
<1>11. PICK stale \in SUBSET A :
          /\ stale = Stale(applied, at) \cup Stale(swept, now)
          /\ \A a \in applied : at >= since \/ a \in stale
          /\ \A a \in swept : now >= since \/ a \in stale
  <2>1. /\ Stale(applied, at) \subseteq applied /\ (at >= since \/ Stale(applied, at) = applied)
        /\ Stale(swept, now) \subseteq swept /\ (now >= since \/ Stale(swept, now) = swept)
    BY <1>0, StaleIs
  <2> QED BY ZenonT(90), <1>10, <2>1
<1>12. /\ mirror' = mirror /\ since' = since /\ silent' \subseteq Addresses
       /\ news' \in [Addresses -> Tasks \cup News]
       /\ \A a \in A : news'[a] = who[a] /\ (a \in silent' <=> a \in stale)
       /\ \A a \in Addresses \ A : news'[a] = news[a] /\ (a \in silent' <=> a \in silent)
  <2>1. Changed(A, stale, who)
    BY <1>2, <1>8, <1>10, <1>11, <1>c
  <2>2. \A a \in A : who[a] \in Tasks \cup {"none"}
    BY <1>9
  <2> HIDE DEF Changed
  <2> QED BY <1>0, <2>1, <2>2, ChangedIs
<1>13. PICK r \in Task : /\ Become(t, r)
                         /\ quiet => r = Idle
                         /\ ~quiet => r.step = "announce" /\ r.adds = applied /\ r.dels = swept
  <2>1. CASE quiet
    BY <1>d, <2>1, IdleIs
  <2>2. CASE ~quiet
    <3>1. PICK q \in Task : q = task[t]
      BY <1>0 DEF TypeOK
    <3>2. PICK r : r = [q EXCEPT !.step = "announce", !.adds = applied, !.dels = swept]
      OBVIOUS
    <3>3. "announce" \in Steps
      BY DEF Steps
    <3>4. r \in Task /\ r.step = "announce" /\ r.adds = applied /\ r.dels = swept
      BY <1>0, <1>e, <3>2, <3>3 DEF Task
    <3> QED BY <1>d, <2>2, <3>1, <3>2, <3>4
  <2> QED BY <2>1, <2>2
<1>14. /\ task' \in [Tasks -> Task] /\ task'[t] = r
       /\ \A u \in Tasks \ {t} : task'[u] = task[u]
  <2> HIDE DEF Become
  <2> QED BY <1>13, Takes
<1>15. TypeOK'
  BY <1>0, <1>1, <1>6, <1>7, <1>12, <1>14, <1>a, <1>e DEF TypeOK
<1>16. Carries(task[t])'
  <2>1. Carries(r)'
    BY <1>13, IdleIs DEF Carries
  <2> QED BY <1>14, <2>1 DEF Carries
<1>17. k = Master \/ <<k, Group(t)>> \in founded \/ <<k, Group(t), "write">> \in GivenRights
  BY <1>0, <1>2 DEF Carries, By, Group
<1>18. ASSUME NEW a \in A, Group(t) \in held'[a] PROVE Entitled(k, a, {"delete", "write"})'
  BY <1>1, <1>17, <1>18 DEF Entitled
<1>19. ASSUME NEW a \in applied PROVE Renewed(a, t)
  <2>0. row[a].id \in Nat
    BY <1>0, <1>e, TypesAre
  <2>1. row[a].id <= row'[a].id /\ (row'[a].id = row[a].id => a \in rows)
    BY <1>3, <2>0
  <2>2. row'[a].id = row[a].id => a \in rows /\ held[a] \subseteq held'[a]
    BY <1>7, <2>1
  <2>3. row'[a].deleted => Entitled(row[a].deletedBy, a, {"delete", "write"})'
    <3>1. Entitled(k, a, {"delete", "write"})'
      BY <1>7, <1>10, <1>18
    <3> QED BY <1>3, <3>1
  <2>4. a \in silent' \/ Window(row'[a], since)
    BY <1>3, <1>10, <1>11, <1>12 DEF Window
  <2>5. news'[a] = who[a]
    BY <1>10, <1>12
  <2>6. ASSUME who[a] # "none" PROVE Tells(task[t], a)'
    <3>1. ~quiet /\ ~trash /\ Group(t) = Watched
      BY <1>9, <1>e, <2>6
    <3>2. a \in In(Watched)'
      BY <1>7, <1>a, <3>1 DEF In
    <3> QED BY <1>3, <1>13, <1>14, <3>1, <3>2 DEF Tells
  <2>7. news'[a] = "none" \/ (news'[a] = t /\ Tells(task[t], a)')
    BY <1>9, <1>e, <2>5, <2>6
  <2> QED BY <2>1, <2>2, <2>3, <2>4, <2>7 DEF Renewed
<1>20. ASSUME NEW a \in swept PROVE Renewed(a, t)
  <2>0. a \in Addresses /\ a \in rows /\ a \notin applied /\ row[a].id \in Nat
    BY <1>0, <1>e, TypesAre
  <2>1. row[a].id <= row'[a].id
    BY <1>4, <2>0
  <2>2. held'[a] = held[a] /\ Group(t) \in held[a]
    <3>1. <<a, Group(t)>> \in members
      BY <1>e DEF In
    <3> QED BY <1>0, <1>7, <2>0, <3>1 DEF HeldTraced
  <2>3. row'[a].deleted => Entitled(row[a].deletedBy, a, {"delete", "write"})'
    <3>1. Entitled(k, a, {"delete", "write"})'
      BY <1>10, <1>18, <2>2
    <3> QED BY <1>4, <3>1
  <2>4. a \in silent' \/ Window(row'[a], since)
    BY <1>4, <1>10, <1>11, <1>12 DEF Window
  <2>5. news'[a] = who[a]
    BY <1>10, <1>12
  <2>6. ASSUME who[a] # "none" PROVE Tells(task[t], a)'
    <3>1. ~quiet
      BY <1>9, <2>0, <2>6
    <3> QED BY <1>4, <1>13, <1>14, <2>0, <3>1 DEF Tells
  <2>7. news'[a] = "none" \/ (news'[a] = t /\ Tells(task[t], a)')
    BY <1>9, <2>0, <2>5, <2>6
  <2> QED BY <2>0, <2>1, <2>2, <2>3, <2>4, <2>7 DEF Renewed
<1>21. ASSUME NEW a \in Addresses \ A PROVE Kept(a)
  <2>1. row'[a] = row[a] /\ (a \in rows' <=> a \in rows) /\ a \notin applied
    BY <1>5, <1>10, <1>a
  <2> QED BY <1>7, <1>12, <2>1 DEF Kept
<1>22. RightsTraced'
  BY <1>1 DEF IInv, RightsTraced
<1>23. \A a \in Addresses : Kept(a) \/ Renewed(a, t)
  BY <1>10, <1>19, <1>20, <1>21
<1> HIDE DEF Kept, Renewed, Become, Changed, Linked
<1> QED BY <1>1, <1>7, <1>12, <1>14, <1>15, <1>16, <1>22, <1>23, Renews

LEMMA BatchStep == ASSUME IInv, NEW t \in Tasks, Batch(t) PROVE IInv'
<1>0. TypeOK /\ task[t].step = "batch"
  BY DEF IInv, Batch, At
<1>1. CASE Refused(t)
  BY <1>0, <1>1, RefusedStep
<1>2. ASSUME Group(t) \in groups, NEW listed \in SUBSET Addresses,
             NEW at \in {task[t].now} \cup ClientTimes,
             NEW trash \in BOOLEAN, NEW quiet \in BOOLEAN, BatchWrites(t, listed, at, trash, quiet)
      PROVE  IInv'
  <2>1. at \in Times
    BY <1>0, TypesAre, NumbersAssumption DEF Times
  <2> HIDE DEF BatchWrites
  <2> QED BY <1>0, <1>2, <2>1, BatchWritesStep
<1> QED BY <1>1, <1>2 DEF Batch

-----------------------------------------------------------------------------
(* Every step, and what follows *)

LEMMA Starts == Init => IInv
<1> SUFFICES ASSUME Init PROVE IInv
  OBVIOUS
<1>1. /\ rows \in SUBSET Addresses /\ row = [a \in Addresses |-> NoRow]
      /\ members = rows \X {Watched}
      /\ held = [a \in Addresses |-> IF a \in rows THEN {Watched} ELSE {}]
      /\ groups = Given /\ used = Given /\ rights = GivenRights
      /\ task = [t \in Tasks |-> Idle] /\ clock = 0 /\ requests = 0
      /\ mirror = {} /\ since = 0 /\ silent = {}
      /\ news = [a \in Addresses |-> "none"] /\ founded = {}
  BY DEF Init
<1>2. 0 \in Times /\ 0 \in Nat /\ Idle \in Task /\ Carries(Idle) /\ Idle.step = "idle"
  BY IdleIs, NumbersAssumption DEF Times
<1>3. NoRow \in Row /\ NoRow.deleted = FALSE /\ NoRow.seenAt = 0
  BY <1>2 DEF NoRow, Row
<1>4. TypeOK
  <2>1. news \in [Addresses -> Tasks \cup News]
    BY <1>1 DEF News
  <2>2. held \in [Addresses -> SUBSET Groups]
    BY <1>1, GroupsAssumption
  <2>3. row \in [Addresses -> Row] /\ task \in [Tasks -> Task]
    BY <1>1, <1>2, <1>3
  <2> QED BY <1>1, <1>2, <2>1, <2>2, <2>3, GroupsAssumption DEF TypeOK
<1>5. \A t \in Tasks : Carries(task[t])
  BY <1>1, <1>2
<1>6. RightsTraced /\ HeldTraced /\ TrashedByEntitled
  BY <1>1, <1>3 DEF RightsTraced, HeldTraced, TrashedByEntitled
<1>7. NewsTraced /\ EventsTellTheTruth
  BY <1>1, TasksAssumption DEF NewsTraced, EventsTellTheTruth, News
<1>8. PollMissesNothing
  <2>1. \A a \in Addresses : row[a].seenAt = 0
    BY <1>1, <1>3
  <2> QED BY <1>1, <2>1 DEF PollMissesNothing, Window, In
<1> QED BY <1>4, <1>5, <1>6, <1>7, <1>8 DEF IInv

LEMMA Steady == IInv /\ [Next]_vars => IInv'
<1> SUFFICES ASSUME IInv, [Next]_vars PROVE IInv'
  OBVIOUS
<1>1. ASSUME NEW t \in Tasks, Handle(t) PROVE IInv'
  BY <1>1, RequestsStep, UpsertStep, BatchStep, UnlinkStep, JudgeStep, WriteStep, RestoreStep,
     AnnounceStep DEF Handle
<1>2. CASE Tick
  <2>1. clock' \in Times
    BY <1>2, NumbersAssumption DEF Tick, IInv, TypeOK, Times
  <2> QED BY <1>2, <2>1, TimeStep DEF Tick
<1>3. CASE UNCHANGED vars
  <2>1. clock' \in Times
    BY <1>3 DEF vars, IInv, TypeOK
  <2> QED BY <1>3, <2>1, TimeStep DEF vars
<1> QED BY <1>1, <1>2, <1>3, PurgeStep, OperatorStep, RemoveGroupStep, PollStep DEF Next

\* Handlers, purge, operator and poll keep the strengthened invariant in any order.
THEOREM RecordsInvariant == Spec => []IInv
BY Starts, Steady, PTL DEF Spec

\* Every row, membership and task keeps its type, and no membership outlives its record
\* or its group.
THEOREM TypesKept == Spec => []TypeOK
<1>1. IInv => TypeOK
  BY DEF IInv
<1> QED BY <1>1, RecordsInvariant, PTL

\* Whatever is read, written or purged in between, the key that put a record in the trash
\* was entitled to (batch_records, caller_may_delete_record).
THEOREM EntitledTrash == Spec => []TrashedByEntitled
<1>1. IInv => TrashedByEntitled
  BY DEF IInv
<1> QED BY <1>1, RecordsInvariant, PTL

\* A consumer that polls `since` its last poll misses no record (list_ips), but for those
\* that were changed in a way no poll sees.
THEOREM PollsMissNothing == Spec => []PollMissesNothing
<1>1. IInv => PollMissesNothing
  BY DEF IInv
<1> QED BY <1>1, RecordsInvariant, PTL

\* Events handed over after the commit, by tasks in any order, say what is so when they
\* are of the last change of the row (enqueue_webhook in handle_ip_upsert, batch_records
\* and delete_ip).
THEOREM EventsTrue == Spec => []EventsTellTheTruth
<1>1. IInv => EventsTellTheTruth
  BY DEF IInv
<1> QED BY <1>1, RecordsInvariant, PTL

\* What LockHolds allows a step to do to a locked record.
Excused(a) ==
    \/ row'[a] = [row[a] EXCEPT !.locked = FALSE]
    \/ row[a].deleted /\ a \notin rows'
    \/ groups' # groups
    \/ \E t \in Tasks : task[t].step \in {"write", "restore"} /\ task'[t] # task[t]

LEMMA Untouched ==
    ASSUME NEW a \in rows', row'[a] = row[a], \A g : <<a, g>> \in members' <=> <<a, g>> \in members,
           \A m \in members \cup members' : m = <<m[1], m[2]>>
    PROVE  ~Touched(a)
BY DEF Touched

LEMMA StepsRespectLocks ==
    ASSUME IInv, [Next]_vars, NEW a \in rows, row[a].locked, Touched(a)
    PROVE  Excused(a)
<1>0. /\ TypeOK /\ a \in Addresses /\ \A m \in members : m = <<m[1], m[2]>>
  BY DEF IInv, TypeOK
<1>1. CASE UNCHANGED <<rows, row, members>>
  BY <1>1 DEF Touched
<1>2. ASSUME NEW t \in Tasks, Handle(t) PROVE Excused(a)
  <2>1. CASE Upsert(t)
    <3>1. CASE MayUpsert(task[t].address, Group(t)) /\ task[t].address # a
      <4>1. a \in rows' /\ row'[a] = row[a]
        BY <1>0, <2>1, <3>1 DEF Upsert, Refused, stored, TypeOK
      <4>2. members' = members \cup ({task[t].address} \X {Group(t)}) \/ members' = members
        BY <2>1 DEF Upsert, Linked, Refused, stored
      <4> QED BY <1>0, <3>1, <4>1, <4>2, Untouched
    <3>2. CASE ~MayUpsert(task[t].address, Group(t))
      BY <1>1, <2>1, <3>2 DEF Upsert, Refused, stored
    <3>3. task[t].address = a => ~MayUpsert(a, Group(t))
      BY DEF MayUpsert
    <3> QED BY <3>1, <3>2, <3>3
  <2>2. CASE Batch(t)
    <3>1. CASE Refused(t)
      BY <1>1, <3>1 DEF Refused, stored
    <3>2. ASSUME NEW listed \in SUBSET Addresses, NEW at, NEW trash, NEW quiet,
                 BatchWrites(t, listed, at, trash, quiet)
          PROVE  Excused(a)
      <4>1. PICK applied, swept : applied = Applied(listed) /\ swept = Swept(t, listed)
        OBVIOUS
      <4>2. a \notin applied /\ a \notin swept
        BY <4>1 DEF Applied, Swept
      <4>3. /\ rows' = rows \cup applied /\ members' = members \cup (applied \X {Group(t)})
            /\ row' = [b \in Addresses |->
                         IF b \in applied THEN BatchRow(t, b, at, trash)
                         ELSE IF b \in swept THEN Trashed(row[b], By(t), task[t].now) ELSE row[b]]
        BY <3>2, <4>1 DEF BatchWrites, Linked
      <4>4. a \in rows' /\ row'[a] = row[a]
        BY <1>0, <4>2, <4>3
      <4> QED BY <1>0, <4>2, <4>3, <4>4, Untouched
    <3> QED BY <2>2, <3>1, <3>2 DEF Batch
  <2>3. CASE Unlink(t)
    <3>1. CASE MayUnlink(task[t].address, Group(t)) /\ task[t].address # a
      <4>1. rows' = rows /\ row' = row
        BY <2>3 DEF Unlink, Refused, stored
      <4>2. members' = members \ {<<task[t].address, Group(t)>>} \/ members' = members
        BY <2>3 DEF Unlink, Refused, stored
      <4> QED BY <1>0, <3>1, <4>1, <4>2, Untouched
    <3>2. CASE ~MayUnlink(task[t].address, Group(t))
      BY <1>1, <2>3, <3>2 DEF Unlink, Refused, stored
    <3>3. task[t].address = a => ~MayUnlink(a, Group(t))
      BY DEF MayUnlink
    <3> QED BY <3>1, <3>2, <3>3
  <2>4. CASE Write(t) \/ Restore(t)
    <3>1. task[t].step \in {"write", "restore"} /\ Become(t, Idle)
      BY <2>4 DEF Write, Restore, At, Answer
    <3>2. task'[t] = Idle
      BY <1>0, <3>1 DEF Become, TypeOK
    <3> QED BY <3>1, <3>2, IdleIs DEF Excused
  <2>5. CASE \/ RequestUpsert(t) \/ RequestBatch(t) \/ RequestUnlink(t) \/ RequestDelete(t)
             \/ RequestRestore(t)
    <3>1. Admitted(t)
      BY <2>5 DEF RequestUpsert, RequestBatch, RequestUnlink, RequestDelete, RequestRestore
    <3> QED BY <1>1, <3>1 DEF Admitted
  <2>6. CASE Judge(t) \/ Announce(t)
    BY <1>1, <2>6 DEF Judge, Announce, stored
  <2> QED BY <1>2, <2>1, <2>2, <2>3, <2>4, <2>5, <2>6 DEF Handle
<1>3. CASE Purge
  <2>1. PICK days : Gone(Expired(days))
    BY <1>3 DEF Purge
  <2>2. CASE a \in Expired(days)
    <3>1. row[a].deleted /\ a \notin rows'
      BY <2>1, <2>2 DEF Gone, Expired
    <3> QED BY <3>1 DEF Excused
  <2>3. CASE a \notin Expired(days)
    <3>1. a \in rows' /\ row' = row /\ members' = {m \in members : m[1] \notin Expired(days)}
      BY <2>1, <2>3 DEF Gone
    <3> QED BY <1>0, <2>3, <3>1, Untouched
  <2> QED BY <2>2, <2>3
<1>4. CASE OperatorLocks
  <2>1. PICK b \in rows, locked \in BOOLEAN :
           row' = [row EXCEPT ![b].locked = locked] /\ UNCHANGED <<rows, members>>
    BY <1>4 DEF OperatorLocks
  <2>2. row[a] \in Row /\ row \in [Addresses -> Row]
    BY <1>0 DEF TypeOK
  <2>3. CASE b # a
    <3>1. row'[a] = row[a]
      BY <1>0, <2>1, <2>2, <2>3
    <3> QED BY <1>0, <2>1, <3>1, Untouched
  <2>4. CASE b = a /\ locked
    <3>1. row'[a] = [row[a] EXCEPT !.locked = TRUE]
      BY <1>0, <2>1, <2>2, <2>4
    <3>2. [row[a] EXCEPT !.locked = TRUE] = row[a]
      <4>1. PICK old \in Row : old = row[a] /\ old.locked = TRUE
        BY <2>2 DEF Row
      <4>2. [old EXCEPT !.locked = TRUE] = old
        BY <4>1 DEF Row
      <4> QED BY <4>1, <4>2
    <3> QED BY <1>0, <2>1, <3>1, <3>2, Untouched
  <2>5. CASE b = a /\ ~locked
    <3>1. row'[a] = [row[a] EXCEPT !.locked = FALSE]
      BY <1>0, <2>1, <2>2, <2>5
    <3> QED BY <3>1 DEF Excused
  <2> QED BY <2>3, <2>4, <2>5
<1>5. CASE RemoveGroup
  <2>1. PICK g \in groups : groups' = groups \ {g}
    BY <1>5 DEF RemoveGroup
  <2>2. groups' # groups
    BY <2>1
  <2> QED BY <2>2 DEF Excused
<1>6. CASE Poll \/ Tick \/ UNCHANGED vars
  BY <1>1, <1>6 DEF Poll, Tick, vars, stored
<1> QED BY <1>2, <1>3, <1>4, <1>5, <1>6 DEF Next

\* No registration, batch or unlinking touches a locked record, whenever it was locked
\* (the is_locked tests inside the transactions of records.rs).
THEOREM LocksHold == Spec => LockHolds
<1>1. IInv /\ [Next]_vars =>
        [\A a \in rows : row[a].locked /\ Touched(a) =>
            \/ row'[a] = [row[a] EXCEPT !.locked = FALSE]
            \/ row[a].deleted /\ a \notin rows'
            \/ groups' # groups
            \/ \E t \in Tasks : task[t].step \in {"write", "restore"} /\ task'[t] # task[t]]_vars
  BY StepsRespectLocks DEF Excused
<1> QED BY <1>1, RecordsInvariant, PTL DEF Spec, LockHolds

=============================================================================
