--------------------------- MODULE GroupGrantsProofs ---------------------------
(***************************************************************************)
(* What holds of GroupGrants for any number of keys, groups and concurrent *)
(* handlers: types and the origin of every verb whatever order their       *)
(* statements run in; the rules on who may grant, revoke, create and be    *)
(* provisioned as long as the overlaps that break them do not happen, each *)
(* overlap named by a formula of its own; and all of it for requests       *)
(* served one by one.                                                      *)
(***************************************************************************)
EXTENDS GroupGrants, TLAPS

\* What a task carries fits the step it has reached.
Fits(r) ==
    /\ r.step \in {"insertGroup", "findGroup", "getOrCreate", "readBack"} => r.name \in Names
    /\ r.step \in {"readCaller", "judge", "writeRow"} => r.group \in Groups

\* What a tenant read of its own row, and what it is about to write, was conferred.
Warranted(r, c) ==
    /\ r.step = "judge" => r.held \subseteq c[r.group]
    /\ r.step = "writeRow" /\ r.by # Master => r.want \subseteq c[r.group]

IInv ==
    /\ TypeOK
    /\ VerbsTraceToMaster
    /\ \A t \in Tasks : Fits(task[t]) /\ Warranted(task[t], conferred)

-----------------------------------------------------------------------------
\* TypeOK without the tasks.
StoredOK ==
    /\ keys \subseteq Keys
    /\ scopes \in [Keys -> SUBSET Scopes]
    /\ groups \subseteq used /\ used \subseteq Groups
    /\ name \in [Groups -> Names]
    /\ owner \in [Groups -> Keys \cup {"unowned"}]
    /\ rows \subseteq keys \X groups
    /\ verbs \in [Keys \X Groups -> SUBSET Verbs]
    /\ requests \in Nat
    /\ conferred \in [Groups -> SUBSET Verbs]

Grows == \A g \in Groups : conferred[g] \subseteq conferred'[g]

LEMMA IdleFits ==
    /\ Idle \in Task /\ Idle.step = "idle" /\ Idle.by = Master /\ Idle.changed = FALSE
    /\ Fits(Idle) /\ \A c : Warranted(Idle, c)
BY DEF Idle, Task, Steps, Operations, AllKeys, Fits, Warranted

LEMMA CallerFits ==
    ASSUME StoredOK, NEW by \in AllKeys, NEW op \in Operations
    PROVE  Caller(by, op) \in Task /\ Caller(by, op).step = "idle"
<1>1. Rights(by) \in SUBSET Scopes
  BY DEF StoredOK, Rights, AllKeys
<1> QED BY <1>1, IdleFits DEF Caller, Task

LEMMA AuditingFits ==
    ASSUME NEW t, task[t] \in Task
    PROVE  Auditing(t) \in Task /\ Fits(Auditing(t)) /\ \A c : Warranted(Auditing(t), c)
<1>1. Auditing(t) \in Task /\ Auditing(t).step = "audit"
  BY ZenonT(90), IdleFits DEF Auditing, Task, Steps, By
<1> QED BY <1>1 DEF Fits, Warranted

\* Task t moves on to r, the others keep what they carry, and the history grows.
LEMMA Frame ==
    ASSUME IInv, StoredOK', VerbsTraceToMaster', Grows,
           NEW t \in Tasks, NEW r \in Task, Become(t, r),
           Fits(r), Warranted(r, conferred')
    PROVE  IInv'
<1>1. /\ task' \in [Tasks -> Task] /\ task'[t] = r
      /\ \A u \in Tasks \ {t} : task'[u] = task[u]
  BY DEF IInv, TypeOK, Become
<1>2. TypeOK'
  BY <1>1 DEF TypeOK, StoredOK
<1>3. ASSUME NEW u \in Tasks PROVE Fits(task'[u]) /\ Warranted(task'[u], conferred')
  <2>1. CASE u = t
    BY <2>1, <1>1
  <2>2. CASE u # t
    <3>1. task'[u] = task[u] /\ Fits(task[u]) /\ Warranted(task[u], conferred)
      BY <2>2, <1>1 DEF IInv
    <3> QED BY <3>1 DEF Fits, Warranted, Grows
  <2> QED BY <2>1, <2>2
<1> QED BY <1>2, <1>3 DEF IInv

\* The same, when no row changes.
LEMMA ReadFrame ==
    ASSUME IInv, StoredOK', UNCHANGED <<verbs, conferred>>,
           NEW t \in Tasks, NEW r \in Task, Become(t, r),
           Fits(r), Warranted(r, conferred)
    PROVE  IInv'
<1>1. VerbsTraceToMaster' /\ Grows /\ Warranted(r, conferred')
  BY DEF IInv, VerbsTraceToMaster, Grows
<1> QED BY <1>1, Frame

\* A group's row gains what was conferred on it.
LEMMA RowSet ==
    ASSUME IInv, Grows, NEW k \in Keys, NEW g \in Groups, NEW v \in SUBSET Verbs,
           verbs' = [verbs EXCEPT ![<<k, g>>] = v], v \subseteq conferred'[g]
    PROVE  VerbsTraceToMaster' /\ verbs' \in [Keys \X Groups -> SUBSET Verbs]
<1>1. verbs' \in [Keys \X Groups -> SUBSET Verbs]
  BY DEF IInv, TypeOK
<1>2. ASSUME NEW j \in Keys, NEW h \in Groups PROVE verbs'[<<j, h>>] \subseteq conferred'[h]
  <2>1. CASE j = k /\ h = g
    BY <2>1 DEF IInv, TypeOK
  <2>2. CASE ~(j = k /\ h = g)
    <3>1. verbs'[<<j, h>>] = verbs[<<j, h>>]
      BY <2>2 DEF IInv, TypeOK
    <3> QED BY <3>1 DEF IInv, VerbsTraceToMaster, Grows
  <2> QED BY <2>1, <2>2
<1> QED BY <1>1, <1>2 DEF VerbsTraceToMaster

\* A new group is stored well, whoever makes it.
LEMMA GroupStored ==
    ASSUME IInv, NEW t \in Tasks, NEW g \in Groups, task[t].name \in Names,
           NewGroup(t, g), UNCHANGED <<requests, conferred>>
    PROVE  StoredOK' /\ UNCHANGED verbs
<1>1. ResourceOwner(By(t)) \in Keys \cup {"unowned"}
  BY DEF IInv, TypeOK, Task, AllKeys, ResourceOwner, By
<1> QED BY <1>1 DEF IInv, TypeOK, StoredOK, NewGroup

\* Rows that go take nothing from the history.
LEMMA CascadeStored ==
    ASSUME IInv, NEW kept, kept \subseteq rows, Cascade(kept), UNCHANGED conferred
    PROVE  /\ VerbsTraceToMaster' /\ Grows
           /\ verbs' \in [Keys \X Groups -> SUBSET Verbs] /\ rows' = kept
<1>1. rows' = kept /\ verbs' \in [Keys \X Groups -> SUBSET Verbs]
  BY DEF IInv, TypeOK, Cascade
<1>2. ASSUME NEW j \in Keys, NEW h \in Groups PROVE verbs'[<<j, h>>] \subseteq conferred'[h]
  <2>1. verbs'[<<j, h>>] \subseteq verbs[<<j, h>>]
    BY DEF Cascade, IInv, TypeOK
  <2> QED BY <2>1 DEF IInv, VerbsTraceToMaster
<1>3. Grows
  BY DEF Grows
<1> QED BY <1>1, <1>2, <1>3 DEF VerbsTraceToMaster

-----------------------------------------------------------------------------
LEMMA InvInit == Init => IInv
<1> SUFFICES ASSUME Init PROVE IInv
  OBVIOUS
<1>1. TypeOK
  BY IdleFits DEF Init, TypeOK
<1>2. VerbsTraceToMaster
  BY DEF Init, VerbsTraceToMaster
<1>3. \A t \in Tasks : Fits(task[t]) /\ Warranted(task[t], conferred)
  BY IdleFits DEF Init
<1> QED BY <1>1, <1>2, <1>3 DEF IInv

LEMMA InvStep == ASSUME IInv, NEW t \in Tasks, Serve(t) \/ Abandon(t) PROVE IInv'
<1> StoredOK /\ task[t] \in Task /\ Fits(task[t]) /\ Warranted(task[t], conferred)
  BY DEF IInv, TypeOK, StoredOK
<1> USE DEF At, By
<1>a. ASSUME Reading, Answer(t) PROVE IInv'
  <2>1. StoredOK' /\ UNCHANGED <<verbs, conferred>>
    BY <1>a DEF Reading, stored, StoredOK
  <2> QED BY <1>a, <2>1, IdleFits, ReadFrame DEF Answer
<1>b. ASSUME Reading, NEW s \in Steps \ {"insertGroup", "findGroup", "getOrCreate",
                                "readBack", "readCaller", "judge", "writeRow"}, Goto(t, s)
      PROVE  IInv'
  <2> DEFINE r == [task[t] EXCEPT !.step = s]
  <2>1. StoredOK' /\ UNCHANGED <<verbs, conferred>>
    BY <1>b DEF Reading, stored, StoredOK
  <2>2. r \in Task /\ Fits(r) /\ Warranted(r, conferred)
    BY <1>b DEF Task, Fits, Warranted
  <2> QED BY <1>b, <2>1, <2>2, ReadFrame DEF Goto
<1>c. ASSUME Reading, task[t].name \in Names, Goto(t, "getOrCreate") PROVE IInv'
  <2> DEFINE r == [task[t] EXCEPT !.step = "getOrCreate"]
  <2>1. StoredOK' /\ UNCHANGED <<verbs, conferred>>
    BY <1>c DEF Reading, stored, StoredOK
  <2>2. r \in Task /\ Fits(r) /\ Warranted(r, conferred)
    BY <1>c DEF Task, Steps, Fits, Warranted
  <2> QED BY <1>c, <2>1, <2>2, ReadFrame DEF Goto
<1>1. CASE RequestGroup(t)
  <2>1. PICK by \in AllKeys, n \in Names :
           /\ Request(t, by, "can_create_groups")
           /\ Become(t, [Caller(by, "create") EXCEPT !.step = "insertGroup", !.name = n])
    BY <1>1 DEF RequestGroup
  <2> DEFINE r == [Caller(by, "create") EXCEPT !.step = "insertGroup", !.name = n]
  <2>2. r \in Task /\ Fits(r) /\ Warranted(r, conferred)
    <3>1. Caller(by, "create") \in Task
      BY CallerFits DEF Operations
    <3> QED BY ZenonT(90), <3>1 DEF Task, Steps, Fits, Warranted
  <2>3. StoredOK' /\ UNCHANGED <<verbs, conferred>>
    BY <2>1 DEF Request, Admitted, stored, StoredOK
  <2> QED BY <2>1, <2>2, <2>3, ReadFrame
<1>2. CASE RequestRecords(t)
  <2>1. PICK by \in AllKeys, n \in Names, op \in {"upsert", "batch"} :
           /\ Admitted(t)
           /\ Become(t, [Caller(by, op) EXCEPT !.step = "findGroup", !.name = n])
           /\ UNCHANGED <<stored, conferred>>
    BY <1>2 DEF RequestRecords
  <2> DEFINE r == [Caller(by, op) EXCEPT !.step = "findGroup", !.name = n]
  <2>2. r \in Task /\ Fits(r) /\ Warranted(r, conferred)
    <3>1. Caller(by, op) \in Task
      BY CallerFits DEF Operations
    <3> QED BY ZenonT(90), <3>1 DEF Task, Steps, Fits, Warranted
  <2>3. StoredOK' /\ UNCHANGED <<verbs, conferred>>
    BY <2>1 DEF Admitted, stored, StoredOK
  <2> QED BY <2>1, <2>2, <2>3, ReadFrame
<1>3. CASE RequestGrant(t)
  <2>1. PICK by \in AllKeys, k \in Keys, want \in Wants, g \in Groups \cup {"none"},
             n \in Names \cup {"none"} :
           /\ Request(t, by, "can_manage_keys")
           /\ Become(t, [Caller(by, "grant") EXCEPT
                           !.step = IF by = Master THEN "resolve" ELSE "gate",
                           !.key = k, !.group = g, !.name = n, !.want = want])
    BY <1>3 DEF RequestGrant
  <2> DEFINE s == IF by = Master THEN "resolve" ELSE "gate"
             r == [Caller(by, "grant") EXCEPT
                     !.step = s,
                     !.key = k, !.group = g, !.name = n, !.want = want]
  <2>2. r \in Task /\ Fits(r) /\ Warranted(r, conferred)
    <3>1. Caller(by, "grant") \in Task
      BY CallerFits DEF Operations
    <3>2. s \in {"resolve", "gate"}
      OBVIOUS
    <3> HIDE DEF s
    <3> QED BY ZenonT(90), <3>1, <3>2 DEF Task, Steps, Wants, Fits, Warranted
  <2>3. StoredOK' /\ UNCHANGED <<verbs, conferred>>
    BY <2>1 DEF Request, Admitted, stored, StoredOK
  <2> QED BY <2>1, <2>2, <2>3, ReadFrame
<1>4. CASE RequestRevoke(t)
  <2>1. PICK by \in AllKeys, k \in Keys, g \in Groups :
           /\ Request(t, by, "can_manage_keys")
           /\ Become(t, [Caller(by, "revoke") EXCEPT
                           !.step = IF by = Master THEN "findRow" ELSE "gate",
                           !.key = k, !.group = g])
    BY <1>4 DEF RequestRevoke
  <2> DEFINE s == IF by = Master THEN "findRow" ELSE "gate"
             r == [Caller(by, "revoke") EXCEPT
                     !.step = s,
                     !.key = k, !.group = g]
  <2>2. r \in Task /\ Fits(r) /\ Warranted(r, conferred)
    <3>1. Caller(by, "revoke") \in Task
      BY CallerFits DEF Operations
    <3>2. s \in {"findRow", "gate"}
      OBVIOUS
    <3> HIDE DEF s
    <3> QED BY ZenonT(90), <3>1, <3>2 DEF Task, Steps, Fits, Warranted
  <2>3. StoredOK' /\ UNCHANGED <<verbs, conferred>>
    BY <2>1 DEF Request, Admitted, stored, StoredOK
  <2> QED BY <2>1, <2>2, <2>3, ReadFrame
<1>5. CASE InsertGroup(t)
  <2>1. CASE Answer(t) /\ UNCHANGED stored /\ UNCHANGED <<requests, conferred>>
    BY <2>1, <1>a DEF Reading
  <2>2. ASSUME NEW g \in Groups, NewGroup(t, g), UNCHANGED <<requests, conferred>>,
               Become(t, IF By(t) = Master THEN Auditing(t)
                         ELSE [task[t] EXCEPT !.step = "provision", !.group = g,
                                              !.changed = TRUE])
        PROVE  IInv'
    <3> DEFINE r == IF By(t) = Master THEN Auditing(t)
                    ELSE [task[t] EXCEPT !.step = "provision", !.group = g, !.changed = TRUE]
    <3>1. r \in Task /\ Fits(r) /\ Warranted(r, conferred)
      BY ZenonT(90), AuditingFits DEF Task, Steps, Fits, Warranted
    <3>2. StoredOK' /\ UNCHANGED <<verbs, conferred>>
      BY <1>5, <2>2, GroupStored DEF InsertGroup, Fits
    <3> QED BY <2>2, <3>1, <3>2, ReadFrame
  <2> QED BY <1>5, <2>1, <2>2 DEF InsertGroup
<1>6. CASE Provision(t)
  <2> DEFINE k == By(t)
             g == task[t].group
             next == IF task[t].op = "upsert"
                     THEN [task[t] EXCEPT !.step = "record", !.scopes = {}] ELSE Auditing(t)
             r == [next EXCEPT !.changed = TRUE]
  <2>1. next \in Task /\ Fits(next) /\ \A c : Warranted(next, c)
    BY ZenonT(90), AuditingFits DEF Task, Steps, Fits, Warranted
  <2>2. r \in Task /\ Fits(r) /\ \A c : Warranted(r, c)
    BY ZenonT(90), <2>1 DEF Task, Fits, Warranted
  <2>3. CASE Reading /\ Answer(t)
    BY <2>3, <1>a
  <2>4. CASE Reading /\ Become(t, next)
    <3>1. StoredOK' /\ UNCHANGED <<verbs, conferred>>
      BY <2>4 DEF Reading, stored, StoredOK
    <3> QED BY <2>1, <2>4, <3>1, ReadFrame
  <2>5. CASE /\ Referable(k, g) /\ SetRow(k, g, Usage)
             /\ conferred' = [conferred EXCEPT ![g] = @ \cup (Verbs \ {"manage"})]
             /\ Become(t, r)
             /\ UNCHANGED <<keys, scopes, groups, used, name, owner, requests>>
    <3>1. k \in Keys /\ g \in Groups /\ <<k, g>> \in keys \X groups
      BY <2>5 DEF Referable, StoredOK
    <3>2. Grows /\ conferred' \in [Groups -> SUBSET Verbs] /\ Usage \subseteq conferred'[g]
      BY <2>5, <3>1 DEF Grows, StoredOK, Usage
    <3>3. VerbsTraceToMaster' /\ verbs' \in [Keys \X Groups -> SUBSET Verbs]
      <4>1. Usage \in SUBSET Verbs
        BY DEF Usage
      <4>2. verbs' = [verbs EXCEPT ![<<k, g>>] = Usage]
        BY <2>5 DEF SetRow
      <4> HIDE DEF k, g
      <4> QED BY <3>1, <3>2, <4>1, <4>2, RowSet
    <3>4. StoredOK'
      BY <2>5, <3>1, <3>2, <3>3 DEF SetRow, StoredOK
    <3> QED BY <2>2, <2>5, <3>2, <3>3, <3>4, Frame
  <2> QED BY <1>6, <2>3, <2>4, <2>5 DEF Provision
<1>7. CASE FindGroup(t)
  <2>1. task[t].name \in Names
    BY <1>7 DEF FindGroup, Fits
  <2> QED BY <1>7, <2>1, <1>a, <1>b, <1>c DEF FindGroup, Steps
<1>8. CASE GetOrCreate(t)
  <2> DEFINE r == [task[t] EXCEPT !.step = "readBack", !.changed = TRUE]
             s == [task[t] EXCEPT !.step = "readBack"]
  <2>1. task[t].name \in Names
    BY <1>8 DEF GetOrCreate, Fits
  <2>2. r \in Task /\ Fits(r) /\ Warranted(r, conferred)
    BY <2>1 DEF Task, Steps, Fits, Warranted
  <2>3. s \in Task /\ Fits(s) /\ Warranted(s, conferred)
    BY <2>1 DEF Task, Steps, Fits, Warranted
  <2>4. CASE Become(t, s) /\ UNCHANGED stored
    <3>1. StoredOK' /\ UNCHANGED <<verbs, conferred>>
      BY <1>8, <2>4 DEF GetOrCreate, stored, StoredOK
    <3> QED BY <2>3, <2>4, <3>1, ReadFrame
  <2>5. ASSUME NEW g \in Groups, NewGroup(t, g), Become(t, r) PROVE IInv'
    <3>1. StoredOK' /\ UNCHANGED <<verbs, conferred>>
      BY <1>8, <2>1, <2>5, GroupStored DEF GetOrCreate
    <3> QED BY <2>2, <2>5, <3>1, ReadFrame
  <2> QED BY <1>8, <2>4, <2>5 DEF GetOrCreate, Goto
<1>9. CASE ReadBack(t)
  <2>1. CASE Answer(t)
    BY <1>9, <2>1, <1>a DEF ReadBack
  <2>2. ASSUME NEW g \in Named(task[t].name),
               Become(t, [task[t] EXCEPT !.step = AfterReadBack(t), !.group = g])
        PROVE  IInv'
    <3> DEFINE r == [task[t] EXCEPT !.step = AfterReadBack(t), !.group = g]
    <3>1. g \in Groups
      BY DEF Named, StoredOK
    <3>2. AfterReadBack(t) \in {"readCaller", "provision", "record"}
      BY DEF AfterReadBack
    <3>3. r \in Task /\ Fits(r) /\ Warranted(r, conferred)
      BY <3>1, <3>2 DEF Task, Steps, Fits, Warranted
    <3>4. StoredOK' /\ UNCHANGED <<verbs, conferred>>
      BY <1>9 DEF ReadBack, Reading, stored, StoredOK
    <3> QED BY <2>2, <3>3, <3>4, ReadFrame
  <2> QED BY <1>9, <2>1, <2>2 DEF ReadBack
<1>10. CASE Record(t)
  BY <1>10, <1>a DEF Record
<1>11. CASE Gate(t)
  BY <1>11, <1>a, <1>b DEF Gate, Steps
<1>12. CASE Resolve(t)
  <2>1. CASE Answer(t)
    BY <1>12, <2>1, <1>a DEF Resolve
  <2>2. CASE task[t].name # "none" /\ Goto(t, "getOrCreate")
    BY <1>12, <2>2, <1>c DEF Resolve, Task
  <2>3. ASSUME NEW g \in groups,
               Become(t, [task[t] EXCEPT !.step = "readCaller", !.group = g])
        PROVE  IInv'
    <3> DEFINE r == [task[t] EXCEPT !.step = "readCaller", !.group = g]
    <3>1. g \in Groups
      BY DEF StoredOK
    <3>2. r \in Task /\ Fits(r) /\ Warranted(r, conferred)
      BY <3>1 DEF Task, Steps, Fits, Warranted
    <3>3. StoredOK' /\ UNCHANGED <<verbs, conferred>>
      BY <1>12 DEF Resolve, Reading, stored, StoredOK
    <3> QED BY <2>3, <3>2, <3>3, ReadFrame
  <2>4. CASE task[t].group \in groups /\ Goto(t, "readCaller")
    <3>1. [task[t] EXCEPT !.step = "readCaller"]
            = [task[t] EXCEPT !.step = "readCaller", !.group = task[t].group]
      BY DEF Task
    <3> QED BY <2>4, <3>1, <2>3 DEF Goto
  <2>5. Named(task[t].name) \subseteq groups
    BY DEF Named
  <2> QED BY <1>12, <2>1, <2>2, <2>3, <2>4, <2>5 DEF Resolve
<1>13. CASE ReadCaller(t)
  <2> DEFINE h == Held(By(t), task[t].group)
             r == [task[t] EXCEPT !.step = "judge", !.held = h]
  <2>1. task[t].group \in Groups /\ By(t) \in AllKeys
    BY <1>13 DEF ReadCaller, Fits, Task
  <2>2. h \in SUBSET Verbs /\ h \subseteq conferred[task[t].group]
    BY <2>1 DEF Held, AllKeys, StoredOK, IInv, VerbsTraceToMaster
  <2>3. r \in Task /\ Fits(r) /\ Warranted(r, conferred)
    <3> HIDE DEF h
    <3> QED BY <2>1, <2>2 DEF Task, Steps, Fits, Warranted
  <2>4. StoredOK' /\ UNCHANGED <<verbs, conferred>>
    BY <1>13 DEF ReadCaller, Reading, stored, StoredOK
  <2>5. Become(t, r)
    BY <1>13 DEF ReadCaller
  <2> QED BY <2>3, <2>4, <2>5, ReadFrame
<1>14. CASE Judge(t)
  <2> DEFINE r == [task[t] EXCEPT !.step = "writeRow", !.lowers = ~Widens(t), !.held = {}]
  <2>1. CASE Answer(t)
    BY <1>14, <2>1, <1>a DEF Judge
  <2>2. CASE /\ IF Widens(t) THEN MayGrant(t) ELSE Manages(t, task[t].held)
             /\ Become(t, r)
    <3>1. task[t].group \in Groups /\ task[t].held \subseteq conferred[task[t].group]
      BY <1>14 DEF Judge, Fits, Warranted
    <3>2. task[t].by # Master => task[t].want \subseteq conferred[task[t].group]
      <4>1. CASE Widens(t)
        BY <2>2, <3>1, <4>1 DEF MayGrant
      <4>2. CASE ~Widens(t)
        <5>1. <<task[t].key, task[t].group>> \in rows
              /\ task[t].want \subseteq verbs[<<task[t].key, task[t].group>>]
          BY <4>2 DEF Widens
        <5>2. task[t].key \in Keys
          BY <5>1 DEF StoredOK
        <5> QED BY <3>1, <5>1, <5>2 DEF IInv, VerbsTraceToMaster
      <4> QED BY <4>1, <4>2
    <3>3. r \in Task
      <4>1. (~Widens(t)) \in BOOLEAN
        BY DEF Widens
      <4> QED BY <4>1 DEF Task, Steps
    <3>4. Fits(r) /\ Warranted(r, conferred)
      BY <3>1, <3>2 DEF Task, Fits, Warranted
    <3>5. StoredOK' /\ UNCHANGED <<verbs, conferred>>
      BY <1>14 DEF Judge, Reading, stored, StoredOK
    <3> QED BY <2>2, <3>3, <3>4, <3>5, ReadFrame
  <2> QED BY <1>14, <2>1, <2>2 DEF Judge
<1>15. CASE WriteRow(t)
  <2> DEFINE k == task[t].key
             g == task[t].group
  <2>1. CASE Answer(t) /\ Reading
    BY <2>1, <1>a
  <2>2. CASE /\ Referable(k, g) /\ SetRow(k, g, task[t].want)
             /\ conferred' = IF By(t) = Master
                             THEN [conferred EXCEPT ![g] = @ \cup task[t].want] ELSE conferred
             /\ Become(t, Auditing(t))
             /\ UNCHANGED <<keys, scopes, groups, used, name, owner, requests>>
    <3>1. k \in Keys /\ g \in Groups /\ <<k, g>> \in keys \X groups
      BY <2>2 DEF Referable, StoredOK
    <3>2. task[t].want \in SUBSET Verbs
      BY DEF Task
    <3>3. Grows /\ conferred' \in [Groups -> SUBSET Verbs]
      BY <2>2, <3>1, <3>2 DEF Grows, StoredOK
    <3>4. task[t].want \subseteq conferred'[g]
      BY <1>15, <2>2, <3>1 DEF StoredOK, WriteRow, Warranted
    <3>5. VerbsTraceToMaster' /\ verbs' \in [Keys \X Groups -> SUBSET Verbs]
      BY <2>2, <3>1, <3>2, <3>3, <3>4, RowSet DEF SetRow
    <3>6. StoredOK'
      BY <2>2, <3>1, <3>3, <3>5 DEF SetRow, StoredOK
    <3> QED BY <2>2, <3>3, <3>5, <3>6, AuditingFits, Frame
  <2> QED BY <1>15, <2>1, <2>2 DEF WriteRow
<1>16. CASE Audit(t)
  BY <1>16, <1>a DEF Audit
<1>17. CASE FindRow(t)
  BY <1>17, <1>a, <1>b DEF FindRow, Steps
<1>18. CASE JudgeRevoke(t)
  BY <1>18, <1>a, <1>b DEF JudgeRevoke, Steps
<1>19. CASE DeleteRow(t)
  <2> DEFINE k == task[t].key
             g == task[t].group
  <2>1. CASE Answer(t) /\ Reading
    BY <2>1, <1>a
  <2>2. CASE /\ <<k, g>> \in rows /\ rows' = rows \ {<<k, g>>}
             /\ verbs' = [verbs EXCEPT ![<<k, g>>] = {}]
             /\ Become(t, Auditing(t))
             /\ UNCHANGED <<keys, scopes, groups, used, name, owner, requests, conferred>>
    <3>1. k \in Keys /\ g \in Groups
      BY <2>2 DEF StoredOK
    <3>2. Grows
      BY <2>2 DEF Grows
    <3>3. VerbsTraceToMaster' /\ verbs' \in [Keys \X Groups -> SUBSET Verbs]
      <4>1. {} \in SUBSET Verbs /\ {} \subseteq conferred'[g]
        OBVIOUS
      <4> QED BY <2>2, <3>1, <3>2, <4>1, RowSet
    <3>4. StoredOK'
      BY <2>2, <3>3 DEF StoredOK
    <3> QED BY <2>2, <3>2, <3>3, <3>4, AuditingFits, Frame
  <2> QED BY <1>19, <2>1, <2>2 DEF DeleteRow
<1>20. CASE DeleteKeys(t)
  <2>1. PICK doomed \in SUBSET keys \ {{}} :
           /\ Admitted(t) /\ keys' = keys \ doomed
           /\ Cascade({p \in rows : p[1] \notin doomed})
           /\ UNCHANGED <<scopes, groups, used, name, owner, task, conferred>>
    BY <1>20 DEF DeleteKeys
  <2>2. VerbsTraceToMaster' /\ Grows /\ verbs' \in [Keys \X Groups -> SUBSET Verbs]
        /\ rows' = {p \in rows : p[1] \notin doomed}
    BY <2>1, CascadeStored
  <2>3. StoredOK'
    BY <2>1, <2>2 DEF StoredOK, Admitted
  <2>4. Become(t, task[t])
    BY <2>1 DEF Become, IInv, TypeOK
  <2> QED BY <2>1, <2>2, <2>3, <2>4, Frame
<1>21. CASE Rescope(t)
  <2>1. Become(t, task[t])
    BY <1>21 DEF Rescope, Become, IInv, TypeOK
  <2>2. StoredOK' /\ UNCHANGED <<verbs, conferred>>
    BY <1>21 DEF Rescope, Admitted, StoredOK
  <2> QED BY <2>1, <2>2, ReadFrame
<1>22. CASE DeleteGroup(t)
  <2>1. PICK g \in groups :
           /\ Admitted(t) /\ groups' = groups \ {g}
           /\ Cascade({p \in rows : p[2] # g})
           /\ UNCHANGED <<keys, scopes, used, name, owner, task, conferred>>
    BY <1>22 DEF DeleteGroup
  <2>2. VerbsTraceToMaster' /\ Grows /\ verbs' \in [Keys \X Groups -> SUBSET Verbs]
        /\ rows' = {p \in rows : p[2] # g}
    BY <2>1, CascadeStored
  <2>3. StoredOK'
    BY <2>1, <2>2 DEF StoredOK, Admitted
  <2>4. Become(t, task[t])
    BY <2>1 DEF Become, IInv, TypeOK
  <2> QED BY <2>1, <2>2, <2>3, <2>4, Frame
<1>23. CASE Abandon(t)
  <2> DEFINE r == [Idle EXCEPT !.step = "abandoned"]
  <2>1. r \in Task /\ Fits(r) /\ Warranted(r, conferred)
    BY IdleFits DEF Task, Steps, Fits, Warranted
  <2>2. StoredOK' /\ UNCHANGED <<verbs, conferred>> /\ Become(t, r)
    BY <1>23 DEF Abandon, Reading, stored, StoredOK
  <2> QED BY <2>1, <2>2, ReadFrame
<1> QED BY <1>1, <1>2, <1>3, <1>4, <1>5, <1>6, <1>7, <1>8, <1>9, <1>10, <1>11, <1>12, <1>13,
           <1>14, <1>15, <1>16, <1>17, <1>18, <1>19, <1>20, <1>21, <1>22, <1>23 DEF Serve

-----------------------------------------------------------------------------
\* The strengthening under which every verb traces to the master: what a task read of
\* its caller's row, and what it is about to write, was conferred already, and
\* stays conferred however long the task waits.
THEOREM Invariance == Spec => []IInv
<1>1. IInv /\ [Next]_vars => IInv'
  <2> SUFFICES ASSUME IInv, [Next]_vars PROVE IInv'
    OBVIOUS
  <2>1. CASE Next
    BY <2>1, InvStep DEF Next
  <2>2. CASE UNCHANGED vars
    BY <2>2 DEF vars, stored, IInv, TypeOK, VerbsTraceToMaster
  <2> QED BY <2>1, <2>2
<1> QED BY InvInit, <1>1, PTL DEF Spec

\* Every state is well typed, and no permission row outlives its key or its group.
THEOREM TypeCorrect == Spec => []TypeOK
<1>1. IInv => TypeOK
  BY DEF IInv
<1> QED BY <1>1, Invariance, PTL

\* Nobody holds a verb on a group that neither the master nor the group's creation put
\* there, however many tenants pass verbs on concurrently on rights read long ago.
THEOREM VerbsFromMaster == Spec => []VerbsTraceToMaster
<1>1. IInv => VerbsTraceToMaster
  BY DEF IInv
<1> QED BY <1>1, Invariance, PTL

-----------------------------------------------------------------------------
(* Rights as they are when a row is written *)

\* A request of a tenant to change somebody's row, from its authentication on; and the
\* part of it in which the caller's verbs on the group have been read.
Managing(r) ==
    /\ r.by # Master
    /\ \/ r.step \in {"gate", "resolve", "readCaller", "judge", "writeRow",
                      "findRow", "judgeRevoke", "deleteRow"}
       \/ r.step \in {"getOrCreate", "readBack"} /\ r.op = "grant"

Leans(r) == r.step \in {"judge", "writeRow", "deleteRow"}

\* The others' steps leave the rights of such a request's caller as they are, or grow them.
CallersStand ==
    \A u \in Tasks : ~Acts(u) /\ Managing(task[u]) =>
        /\ By(u) \in keys => By(u) \in keys'
        /\ scopes[By(u)] \subseteq scopes'[By(u)]
        /\ Leans(task[u]) => ~Narrowed(By(u), task[u].group)

\* They take nothing from a row whose reduction has been decided.
TargetsStand ==
    \A u \in Tasks : ~Acts(u) /\ At(u, "writeRow") /\ task[u].lowers =>
        ~Narrowed(task[u].key, task[u].group)

\* No verbs without a row.
RowsHoldVerbs == \A k \in Keys, g \in Groups : verbs[<<k, g>>] # {} => <<k, g>> \in rows

\* The caller of a request under way may still do what it was judged to be allowed to.
Entitled(r) ==
    /\ Managing(r) => r.by \in keys /\ "can_manage_keys" \in scopes[r.by]
    /\ r.step \in {"judgeRevoke", "deleteRow"} => r.group \in Groups
    /\ r.step = "findGroup" => r.op # "grant"
    /\ r.by # Master =>
          /\ r.step = "judge" => r.held \subseteq verbs[<<r.by, r.group>>]
          /\ r.step \in {"writeRow", "deleteRow"} => "manage" \in verbs[<<r.by, r.group>>]

\* What it is about to write is its caller's, or already the target's.
Within(r) ==
    r.step = "writeRow" /\ r.by # Master =>
        \/ r.want \subseteq verbs[<<r.by, r.group>>]
        \/ r.lowers /\ r.want \subseteq verbs[<<r.key, r.group>>]

EInv == RowsHoldVerbs /\ \A t \in Tasks : Entitled(task[t])
WInv == \A t \in Tasks : Within(task[t])

\* What a task may turn into without a claim to anybody's rights.
Free(r) == r.step \in {"idle", "abandoned", "insertGroup", "provision", "record", "audit"}

LEMMA Becoming ==
    ASSUME TypeOK, NEW t \in Tasks, NEW r, Become(t, r)
    PROVE  task'[t] = r
BY DEF TypeOK, Become

LEMMA OthersRest ==
    ASSUME TypeOK, NEW t \in Tasks, Serve(t) \/ Abandon(t), NEW u \in Tasks \ {t}
    PROVE  task'[u] = task[u]
<1>1. ASSUME NEW r, Become(t, r) PROVE task'[u] = task[u]
  BY <1>1 DEF Become, TypeOK
<1>2. CASE \E r : Become(t, r)
  BY <1>1, <1>2
<1>3. CASE UNCHANGED task
  BY <1>3
<1>4. UNCHANGED task \/ \E r : Become(t, r)
  BY DEF Serve, Abandon, RequestGroup, InsertGroup, Provision, RequestRecords, FindGroup,
     GetOrCreate, ReadBack, Record, RequestGrant, Gate, Resolve, ReadCaller, Judge, WriteRow,
     RequestRevoke, FindRow, JudgeRevoke, DeleteRow, Audit, DeleteKeys, Rescope, DeleteGroup,
     Goto, Answer
<1> QED BY <1>2, <1>3, <1>4

\* A task whose request changes a row is done with it.
LEMMA Settles ==
    ASSUME TypeOK, NEW t \in Tasks, task[t].step \in {"provision", "writeRow", "deleteRow"},
           NEW r, Become(t, r), r.step \in {"record", "audit"}
    PROVE  Acts(t)
BY Becoming DEF Acts

\* How the verbs of a row change.
LEMMA VerbsMove ==
    ASSUME IInv, RowsHoldVerbs, NEW t \in Tasks, Serve(t) \/ Abandon(t),
           NEW k \in Keys, NEW g \in Groups, verbs'[<<k, g>>] # verbs[<<k, g>>]
    PROVE  \/ /\ At(t, "provision") /\ Acts(t) /\ k = By(t) /\ g = task[t].group
              /\ verbs[<<k, g>>] = {}
           \/ /\ At(t, "writeRow") /\ Acts(t) /\ k = task[t].key /\ g = task[t].group
              /\ verbs'[<<k, g>>] = task[t].want
           \/ /\ At(t, "deleteRow") /\ Acts(t) /\ k = task[t].key /\ g = task[t].group
              /\ verbs'[<<k, g>>] = {}
           \/ verbs'[<<k, g>>] = {} /\ (k \notin keys' \/ g \notin groups')
<1>0. TypeOK /\ task[t] \in Task /\ verbs \in [Keys \X Groups -> SUBSET Verbs]
  BY DEF IInv, TypeOK
<1>1. Auditing(t).step = "audit"
  BY IdleFits DEF Auditing, Task
<1>2. ASSUME NEW i, NEW j, NEW v, SetRow(i, j, v)
      PROVE  i = k /\ j = g /\ verbs'[<<k, g>>] = v
  BY <1>0, <1>2 DEF SetRow
<1>3. CASE Provision(t)
  <2> DEFINE next == IF task[t].op = "upsert"
                     THEN [task[t] EXCEPT !.step = "record", !.scopes = {}] ELSE Auditing(t)
             r == [next EXCEPT !.changed = TRUE]
  <2>1. /\ <<By(t), task[t].group>> \notin rows
        /\ SetRow(By(t), task[t].group, Usage) /\ Become(t, r)
    BY <1>3 DEF Provision, Reading, stored
  <2>2. r.step \in {"record", "audit"}
    <3>1. Auditing(t) \in Task
      BY <1>0, AuditingFits
    <3>2. next \in Task /\ next.step \in {"record", "audit"}
      BY ZenonT(90), <1>0, <1>1, <3>1 DEF Task, Steps
    <3> HIDE DEF next
    <3> QED BY <3>2 DEF Task
  <2>3. At(t, "provision")
    BY <1>3 DEF Provision
  <2> HIDE DEF r
  <2>4. Acts(t)
    BY <1>0, <2>1, <2>2, <2>3, Settles DEF At
  <2>5. k = By(t) /\ g = task[t].group
    BY <1>2, <2>1
  <2> QED BY <2>1, <2>3, <2>4, <2>5 DEF RowsHoldVerbs
<1>4. CASE WriteRow(t)
  <2>1. /\ SetRow(task[t].key, task[t].group, task[t].want)
        /\ Become(t, Auditing(t)) /\ At(t, "writeRow")
    BY <1>4 DEF WriteRow, Reading, stored
  <2>2. Acts(t)
    BY <1>0, <1>1, <2>1, Settles DEF At
  <2> QED BY <1>2, <2>1, <2>2
<1>5. CASE DeleteRow(t)
  <2>1. /\ verbs' = [verbs EXCEPT ![<<task[t].key, task[t].group>>] = {}]
        /\ Become(t, Auditing(t)) /\ At(t, "deleteRow")
    BY <1>5 DEF DeleteRow, Reading, stored
  <2>2. Acts(t)
    BY <1>0, <1>1, <2>1, Settles DEF At
  <2>3. k = task[t].key /\ g = task[t].group /\ verbs'[<<k, g>>] = {}
    BY <1>0, <2>1
  <2> QED BY <2>1, <2>2, <2>3
<1>6. ASSUME NEW kept, Cascade(kept)
      PROVE  <<k, g>> \notin kept /\ verbs'[<<k, g>>] = {} /\ <<k, g>> \in rows
  <2>1. <<k, g>> \notin kept /\ verbs'[<<k, g>>] = {}
    BY <1>0, <1>6 DEF Cascade
  <2> QED BY <2>1 DEF RowsHoldVerbs
<1>7. CASE DeleteKeys(t)
  <2>1. PICK doomed : keys' = keys \ doomed /\ Cascade({p \in rows : p[1] \notin doomed})
    BY <1>7 DEF DeleteKeys
  <2>2. k \in doomed /\ verbs'[<<k, g>>] = {}
    BY <2>1, <1>6
  <2> QED BY <2>1, <2>2
<1>8. CASE DeleteGroup(t)
  <2>1. PICK h : groups' = groups \ {h} /\ Cascade({p \in rows : p[2] # h})
    BY <1>8 DEF DeleteGroup
  <2>2. g = h /\ verbs'[<<k, g>>] = {}
    BY <2>1, <1>6
  <2> QED BY <2>1, <2>2
<1>9. CASE ~(\/ Provision(t) \/ WriteRow(t) \/ DeleteRow(t) \/ DeleteKeys(t) \/ DeleteGroup(t))
  <2>1. UNCHANGED verbs
    BY <1>9 DEF Serve, Abandon, RequestGroup, InsertGroup, RequestRecords, FindGroup,
       GetOrCreate, ReadBack, Record, RequestGrant, Gate, Resolve, ReadCaller, Judge,
       RequestRevoke, FindRow, JudgeRevoke, Audit, Rescope, Request, Reading, NewGroup, stored
  <2> QED BY <2>1
<1> QED BY <1>3, <1>4, <1>5, <1>7, <1>8, <1>9

LEMMA RowsStep ==
    ASSUME IInv, RowsHoldVerbs, NEW t \in Tasks, Serve(t) \/ Abandon(t)
    PROVE  RowsHoldVerbs'
<1> SUFFICES ASSUME NEW k \in Keys, NEW g \in Groups, verbs'[<<k, g>>] # {}
             PROVE  <<k, g>> \in rows'
  BY DEF RowsHoldVerbs
<1>0. verbs \in [Keys \X Groups -> SUBSET Verbs]
  BY DEF IInv, TypeOK
<1>1. ASSUME NEW i, NEW j, NEW v, SetRow(i, j, v) PROVE <<k, g>> \in rows'
  BY <1>0, <1>1 DEF SetRow, RowsHoldVerbs
<1>2. ASSUME NEW kept, Cascade(kept) PROVE <<k, g>> \in rows'
  BY <1>2 DEF Cascade
<1>3. ASSUME NEW i, NEW j, rows' = rows \ {<<i, j>>}, verbs' = [verbs EXCEPT ![<<i, j>>] = {}]
      PROVE  <<k, g>> \in rows'
  <2>1. ~(i = k /\ j = g)
    BY <1>0, <1>3
  <2> QED BY <1>0, <1>3, <2>1 DEF RowsHoldVerbs
<1>4. CASE UNCHANGED <<rows, verbs>>
  BY <1>4 DEF RowsHoldVerbs
<1>5. CASE Provision(t) \/ WriteRow(t) \/ DeleteRow(t)
  BY <1>1, <1>3, <1>4, <1>5 DEF Provision, WriteRow, DeleteRow, Reading, stored
<1>6. CASE DeleteKeys(t) \/ DeleteGroup(t)
  BY <1>2, <1>6 DEF DeleteKeys, DeleteGroup
<1>7. CASE ~(\/ Provision(t) \/ WriteRow(t) \/ DeleteRow(t) \/ DeleteKeys(t) \/ DeleteGroup(t))
  <2>1. UNCHANGED <<rows, verbs>>
    BY <1>7 DEF Serve, Abandon, RequestGroup, InsertGroup, RequestRecords, FindGroup,
       GetOrCreate, ReadBack, Record, RequestGrant, Gate, Resolve, ReadCaller, Judge,
       RequestRevoke, FindRow, JudgeRevoke, Audit, Rescope, Request, Reading, NewGroup, stored
  <2> QED BY <2>1, <1>4
<1> QED BY <1>5, <1>6, <1>7

\* A task that begins or ends a request, or is not about somebody's row.
LEMMA FreeAfter ==
    ASSUME TypeOK, NEW t \in Tasks,
           \/ RequestGroup(t) \/ InsertGroup(t) \/ Provision(t) \/ Record(t) \/ WriteRow(t)
           \/ DeleteRow(t) \/ Audit(t) \/ DeleteKeys(t) \/ Rescope(t) \/ DeleteGroup(t)
           \/ Abandon(t)
    PROVE  /\ Free(task'[t])
           /\ task'[t].step = "insertGroup" => RequestGroup(t)
           /\ task'[t].step = "provision" => InsertGroup(t)
<1>0. task[t] \in Task
  BY DEF TypeOK
<1>1. Auditing(t) \in Task /\ Auditing(t).step = "audit" /\ Idle \in Task /\ Idle.step = "idle"
  BY <1>0, AuditingFits, IdleFits DEF Auditing, Task
<1>2. ASSUME NEW r \in Task, Become(t, r),
             \/ r.step \in {"idle", "abandoned", "record", "audit"}
             \/ r.step = "insertGroup" /\ RequestGroup(t)
             \/ r.step = "provision" /\ InsertGroup(t)
      PROVE  /\ Free(task'[t])
             /\ task'[t].step = "insertGroup" => RequestGroup(t)
             /\ task'[t].step = "provision" => InsertGroup(t)
  BY <1>2, Becoming DEF Free
<1>3. CASE RequestGroup(t)
  <2>1. PICK by \in AllKeys, n \in Names :
           Become(t, [Caller(by, "create") EXCEPT !.step = "insertGroup", !.name = n])
    BY <1>3 DEF RequestGroup
  <2> DEFINE r == [Caller(by, "create") EXCEPT !.step = "insertGroup", !.name = n]
  <2>2. Caller(by, "create") \in Task
    BY CallerFits DEF StoredOK, TypeOK, Operations
  <2>3. r \in Task /\ r.step = "insertGroup"
    BY ZenonT(90), <2>2 DEF Task, Steps
  <2> HIDE DEF r
  <2> QED BY <1>2, <1>3, <2>1, <2>3 DEF r
<1>4. CASE InsertGroup(t)
  <2> DEFINE r(g) == [task[t] EXCEPT !.step = "provision", !.group = g, !.changed = TRUE]
  <2>1. \/ Become(t, Idle) \/ Become(t, Auditing(t))
        \/ \E g \in Groups : Become(t, r(g))
    BY Zenon, <1>4 DEF InsertGroup, Answer
  <2>2. \A g \in Groups : r(g) \in Task /\ r(g).step = "provision"
    BY ZenonT(90), <1>0 DEF Task, Steps
  <2> HIDE DEF r
  <2> QED BY <1>1, <1>2, <1>4, <2>1, <2>2
<1>5. CASE Provision(t)
  <2> DEFINE next == IF task[t].op = "upsert"
                     THEN [task[t] EXCEPT !.step = "record", !.scopes = {}] ELSE Auditing(t)
             r == [next EXCEPT !.changed = TRUE]
  <2>1. Become(t, r) \/ Become(t, next) \/ Become(t, Idle)
    BY <1>5 DEF Provision, Answer
  <2>2. next \in Task /\ next.step \in {"record", "audit"}
    BY ZenonT(90), <1>0, <1>1 DEF Task, Steps
  <2> HIDE DEF next
  <2>3. r \in Task /\ r.step \in {"record", "audit"}
    BY <2>2 DEF Task
  <2> HIDE DEF r
  <2> QED BY <1>1, <1>2, <2>1, <2>2, <2>3
<1>6. CASE Record(t) \/ Audit(t) \/ WriteRow(t) \/ DeleteRow(t)
  BY <1>1, <1>2, <1>6 DEF Record, Audit, WriteRow, DeleteRow, Answer
<1>7. CASE Abandon(t)
  <2> DEFINE r == [Idle EXCEPT !.step = "abandoned"]
  <2>1. r \in Task /\ r.step = "abandoned"
    BY <1>1 DEF Task, Steps
  <2> HIDE DEF r
  <2> QED BY <1>2, <1>7, <2>1 DEF Abandon, r
<1>8. CASE DeleteKeys(t) \/ Rescope(t) \/ DeleteGroup(t)
  BY <1>8 DEF DeleteKeys, Rescope, DeleteGroup, Admitted, Ready, At, Free
<1> QED BY <1>3, <1>4, <1>5, <1>6, <1>7, <1>8

\* What a request's own step makes of its task.
LEMMA ReadsOn ==
    ASSUME IInv, NEW t \in Tasks,
           \/ RequestRecords(t) \/ FindGroup(t) \/ GetOrCreate(t) \/ ReadBack(t)
           \/ RequestGrant(t) \/ Gate(t) \/ Resolve(t) \/ ReadCaller(t) \/ Judge(t)
           \/ RequestRevoke(t) \/ FindRow(t) \/ JudgeRevoke(t)
    PROVE  UNCHANGED <<keys, scopes, rows, verbs, conferred>>
BY DEF RequestRecords, FindGroup, GetOrCreate, ReadBack, RequestGrant, Gate, Resolve,
   ReadCaller, Judge, RequestRevoke, FindRow, JudgeRevoke, Request, Reading, NewGroup, stored

\* A step between authentication and the reading of the caller's row.
LEMMA Onward ==
    ASSUME NEW q, NEW r, Entitled(q), Managing(r) => Managing(q), r.by = q.by,
           r.step \in {"gate", "resolve", "getOrCreate", "readBack", "readCaller", "findRow",
                       "provision", "record", "idle"},
           UNCHANGED <<keys, scopes, verbs>>
    PROVE  Entitled(r)'
BY DEF Entitled, Managing

\* A handler's own step keeps it entitled, and lets it write what it may.
LEMMA OwnEntitled ==
    ASSUME IInv, EInv, NEW t \in Tasks, Serve(t) \/ Abandon(t), NEW r, r = task'[t]
    PROVE  Entitled(r)' /\ Within(r)'
<1> PICK q : q = task[t]
  OBVIOUS
<1>0. /\ TypeOK /\ q \in Task /\ Entitled(q) /\ Fits(q)
      /\ verbs \in [Keys \X Groups -> SUBSET Verbs]
  BY DEF IInv, EInv, TypeOK
<1>a. ASSUME Free(r) PROVE Entitled(r)' /\ Within(r)'
  BY <1>a DEF Free, Entitled, Managing, Within
<1>b. ASSUME NEW p, Become(t, p) PROVE r = p
  BY <1>0, <1>b, Becoming
<1>c. ASSUME UNCHANGED <<keys, scopes, verbs>>, Managing(r) => Managing(q), r.by = q.by,
             r.step \in {"gate", "resolve", "getOrCreate", "readBack", "readCaller", "findRow",
                         "provision", "record", "idle"}
      PROVE  Entitled(r)' /\ Within(r)'
  BY <1>0, <1>c, Onward DEF Within
<1>d. ASSUME NEW s \in Steps, Goto(t, s)
      PROVE  /\ r.step = s /\ r.op = q.op /\ r.by = q.by /\ r.key = q.key /\ r.group = q.group
             /\ r.want = q.want /\ r.held = q.held /\ r.lowers = q.lowers
  BY <1>0, <1>b, <1>d DEF Goto, Task
<1>e. ASSUME Answer(t) PROVE Entitled(r)' /\ Within(r)'
  <2>1. r = Idle
    BY <1>b, <1>e DEF Answer
  <2> QED BY <1>a, <2>1, IdleFits DEF Free
<1>1. CASE \/ RequestGroup(t) \/ InsertGroup(t) \/ Provision(t) \/ Record(t) \/ WriteRow(t)
           \/ DeleteRow(t) \/ Audit(t) \/ DeleteKeys(t) \/ Rescope(t) \/ DeleteGroup(t)
           \/ Abandon(t)
  BY <1>0, <1>1, <1>a, FreeAfter
<1>2. CASE RequestRecords(t)
  <2>1. PICK by \in AllKeys, n \in Names, op \in {"upsert", "batch"} :
           Become(t, [Caller(by, op) EXCEPT !.step = "findGroup", !.name = n])
    BY <1>2 DEF RequestRecords
  <2>2. r = [Caller(by, op) EXCEPT !.step = "findGroup", !.name = n]
    BY <1>b, <2>1
  <2>3. r.step = "findGroup" /\ r.op = op
    BY <2>2 DEF Caller, Idle
  <2> QED BY <2>3 DEF Entitled, Managing, Within
<1>3. CASE FindGroup(t)
  <2>1. UNCHANGED <<keys, scopes, verbs>> /\ q.op # "grant"
    BY <1>0, <1>3, ReadsOn DEF FindGroup, At, Entitled
  <2>2. CASE Goto(t, "record") \/ Goto(t, "getOrCreate")
    <3>1. r.step \in {"record", "getOrCreate"} /\ r.op = q.op /\ r.by = q.by
      BY <1>d, <2>2 DEF Steps
    <3> QED BY <1>c, <2>1, <3>1 DEF Managing
  <2> QED BY <1>3, <1>e, <2>2 DEF FindGroup
<1>4. CASE GetOrCreate(t)
  <2>1. UNCHANGED <<keys, scopes, verbs>> /\ q.step = "getOrCreate"
    BY <1>4, ReadsOn DEF GetOrCreate, At
  <2>2. \/ r = [q EXCEPT !.step = "readBack"]
        \/ r = [q EXCEPT !.step = "readBack", !.changed = TRUE]
    BY <1>4, <1>b DEF GetOrCreate, Goto
  <2>3. r.step = "readBack" /\ r.op = q.op /\ r.by = q.by
    BY <1>0, <2>2 DEF Task
  <2> QED BY <1>c, <2>1, <2>3 DEF Managing
<1>5. CASE ReadBack(t)
  <2>1. UNCHANGED <<keys, scopes, verbs>> /\ q.step = "readBack"
    BY <1>5, ReadsOn DEF ReadBack, At
  <2>2. ASSUME NEW g, Become(t, [task[t] EXCEPT !.step = AfterReadBack(t), !.group = g])
        PROVE  Entitled(r)' /\ Within(r)'
    <3>1. r = [q EXCEPT !.step = AfterReadBack(t), !.group = g]
      BY <1>b, <2>2
    <3>2. r.step = AfterReadBack(t) /\ r.op = q.op /\ r.by = q.by
      BY <1>0, <3>1 DEF Task
    <3>3. r.step = IF q.op = "grant" THEN "readCaller"
                   ELSE IF q.op = "upsert" /\ q.by # Master THEN "provision" ELSE "record"
      BY <3>2 DEF AfterReadBack, By
    <3> QED BY <1>c, <2>1, <3>2, <3>3 DEF Managing
  <2> QED BY <1>5, <1>e, <2>2 DEF ReadBack
<1>6. CASE RequestGrant(t) \/ RequestRevoke(t)
  <2>1. PICK by \in AllKeys :
           /\ Request(t, by, "can_manage_keys") /\ r.by = by
           /\ r.step = "gate" \/ (by = Master /\ r.step \in {"resolve", "findRow"})
    <3>1. CASE RequestGrant(t)
      <4>1. PICK by \in AllKeys, k \in Keys, want \in Wants, g \in Groups \cup {"none"},
                 n \in Names \cup {"none"} :
               /\ Request(t, by, "can_manage_keys")
               /\ Become(t, [Caller(by, "grant") EXCEPT
                               !.step = IF by = Master THEN "resolve" ELSE "gate",
                               !.key = k, !.group = g, !.name = n, !.want = want])
        BY <3>1 DEF RequestGrant
      <4>2. r = [Caller(by, "grant") EXCEPT
                   !.step = IF by = Master THEN "resolve" ELSE "gate",
                   !.key = k, !.group = g, !.name = n, !.want = want]
        BY <1>b, <4>1
      <4>3. r.by = by /\ r.step = IF by = Master THEN "resolve" ELSE "gate"
        BY <4>2 DEF Caller, Idle
      <4> QED BY <4>1, <4>3
    <3>2. CASE RequestRevoke(t)
      <4>1. PICK by \in AllKeys, k \in Keys, g \in Groups :
               /\ Request(t, by, "can_manage_keys")
               /\ Become(t, [Caller(by, "revoke") EXCEPT
                               !.step = IF by = Master THEN "findRow" ELSE "gate",
                               !.key = k, !.group = g])
        BY <3>2 DEF RequestRevoke
      <4>2. r = [Caller(by, "revoke") EXCEPT
                   !.step = IF by = Master THEN "findRow" ELSE "gate",
                   !.key = k, !.group = g]
        BY <1>b, <4>1
      <4>3. r.by = by /\ r.step = IF by = Master THEN "findRow" ELSE "gate"
        BY <4>2 DEF Caller, Idle
      <4> QED BY <4>1, <4>3
    <3> QED BY <1>6, <3>1, <3>2
  <2>2. UNCHANGED <<keys, scopes, verbs>>
    BY <1>6, ReadsOn
  <2>3. r.by # Master => r.by \in keys /\ "can_manage_keys" \in scopes[r.by]
    BY <2>1 DEF Request, Exists, Rights
  <2> QED BY <2>1, <2>2, <2>3 DEF Entitled, Managing, Within
<1>7. CASE Gate(t)
  <2>1. UNCHANGED <<keys, scopes, verbs>> /\ q.step = "gate"
    BY <1>7, ReadsOn DEF Gate, At
  <2>2. ASSUME NEW s \in {"resolve", "findRow"}, Goto(t, s)
        PROVE  Entitled(r)' /\ Within(r)'
    <3>1. r.step = s /\ r.by = q.by
      BY <1>d, <2>2 DEF Steps
    <3> QED BY <1>c, <2>1, <3>1 DEF Managing
  <2> QED BY <1>7, <1>e, <2>2 DEF Gate
<1>8. CASE Resolve(t)
  <2>1. UNCHANGED <<keys, scopes, verbs>> /\ q.step = "resolve"
    BY <1>8, ReadsOn DEF Resolve, At
  <2>2. CASE Goto(t, "readCaller") \/ Goto(t, "getOrCreate")
    <3>1. r.step \in {"readCaller", "getOrCreate"} /\ r.by = q.by
      BY <1>d, <2>2 DEF Steps
    <3> QED BY <1>c, <2>1, <3>1 DEF Managing
  <2>3. ASSUME NEW g, Become(t, [task[t] EXCEPT !.step = "readCaller", !.group = g])
        PROVE  Entitled(r)' /\ Within(r)'
    <3>1. r = [q EXCEPT !.step = "readCaller", !.group = g]
      BY <1>b, <2>3
    <3>2. r.step = "readCaller" /\ r.by = q.by
      BY <1>0, <3>1 DEF Task
    <3> QED BY <1>c, <2>1, <3>2 DEF Managing
  <2> QED BY <1>8, <1>e, <2>2, <2>3 DEF Resolve
<1>9. CASE ReadCaller(t)
  <2>1. UNCHANGED <<keys, scopes, verbs>> /\ q.step = "readCaller"
    BY <1>9, ReadsOn DEF ReadCaller, At
  <2>2. r = [q EXCEPT !.step = "judge", !.held = Held(q.by, q.group)]
    BY <1>9, <1>b DEF ReadCaller, By
  <2>3. r.step = "judge" /\ r.by = q.by /\ r.group = q.group /\ r.held = Held(q.by, q.group)
    BY <1>0, <2>2 DEF Task
  <2> QED BY <1>0, <2>1, <2>3 DEF Entitled, Managing, Within, Held
<1>10. CASE Judge(t)
  <2>1. UNCHANGED <<keys, scopes, verbs>> /\ q.step = "judge"
    BY <1>10, ReadsOn DEF Judge, At
  <2>2. CASE /\ IF Widens(t) THEN MayGrant(t) ELSE Manages(t, task[t].held)
             /\ Become(t, [task[t] EXCEPT !.step = "writeRow", !.lowers = ~Widens(t), !.held = {}])
    <3> PICK lowers \in BOOLEAN : lowers = ~Widens(t)
      BY DEF Widens
    <3>1. r = [q EXCEPT !.step = "writeRow", !.lowers = lowers, !.held = {}]
      BY <1>b, <2>2
    <3>2. /\ r.step = "writeRow" /\ r.by = q.by /\ r.group = q.group /\ r.key = q.key
          /\ r.want = q.want /\ r.lowers = lowers
      BY <1>0, <3>1 DEF Task
    <3>3. q.by # Master => /\ q.held \subseteq verbs[<<q.by, q.group>>]
                           /\ "manage" \in q.held
      BY <1>0, <2>1, <2>2 DEF Entitled, MayGrant, Manages, By
    <3>4. q.by # Master => \/ q.want \subseteq q.held
                           \/ lowers /\ q.want \subseteq verbs[<<q.key, q.group>>]
      BY <2>2 DEF MayGrant, Widens, By
    <3> QED BY <1>0, <2>1, <3>2, <3>3, <3>4 DEF Entitled, Managing, Within
  <2> QED BY <1>10, <1>e, <2>2 DEF Judge
<1>11. CASE FindRow(t)
  <2>1. UNCHANGED <<keys, scopes, verbs>> /\ q.step = "findRow"
    BY <1>11, ReadsOn DEF FindRow, At
  <2>2. CASE <<q.key, q.group>> \in rows /\ Goto(t, "judgeRevoke")
    <3>1. r.step = "judgeRevoke" /\ r.by = q.by /\ r.group = q.group
      BY <1>d, <2>2 DEF Steps
    <3>2. q.group \in Groups
      BY <1>0, <2>2 DEF TypeOK
    <3> QED BY <1>0, <2>1, <3>1, <3>2 DEF Entitled, Managing, Within
  <2> QED BY <1>11, <1>e, <2>2 DEF FindRow
<1>12. CASE JudgeRevoke(t)
  <2>1. UNCHANGED <<keys, scopes, verbs>> /\ q.step = "judgeRevoke"
    BY <1>12, ReadsOn DEF JudgeRevoke, At
  <2>2. CASE Manages(t, Held(q.by, q.group)) /\ Goto(t, "deleteRow")
    <3>1. r.step = "deleteRow" /\ r.by = q.by /\ r.group = q.group
      BY <1>d, <2>2 DEF Steps
    <3>2. q.by # Master => "manage" \in verbs[<<q.by, q.group>>]
      BY <2>2 DEF Manages, Held, By
    <3> QED BY <1>0, <2>1, <3>1, <3>2 DEF Entitled, Managing, Within
  <2> QED BY <1>12, <1>e, <2>2 DEF JudgeRevoke, By
<1> QED BY <1>1, <1>2, <1>3, <1>4, <1>5, <1>6, <1>7, <1>8, <1>9, <1>10, <1>11, <1>12 DEF Serve

\* The others' requests stay entitled while their callers' rights stand.
LEMMA OthersEntitled ==
    ASSUME NEW u \in Tasks, NEW r, r = task[u], r = task'[u], Entitled(r), CallersStand
    PROVE  Entitled(r)'
<1>1. Managing(r) =>
        /\ r.by \in keys => r.by \in keys'
        /\ scopes[r.by] \subseteq scopes'[r.by]
        /\ Leans(r) => verbs[<<r.by, r.group>>] \subseteq verbs'[<<r.by, r.group>>]
  BY DEF CallersStand, Acts, By, Narrowed
<1>2. r.by # Master /\ r.step \in {"judge", "writeRow", "deleteRow"} => Managing(r) /\ Leans(r)
  BY DEF Managing, Leans
<1> QED BY <1>1, <1>2 DEF Entitled, Managing

LEMMA OthersWithin ==
    ASSUME NEW u \in Tasks, NEW r, r = task[u], r = task'[u], Within(r),
           CallersStand, TargetsStand
    PROVE  Within(r)'
<1> SUFFICES ASSUME r.step = "writeRow", r.by # Master PROVE Within(r)'
  BY DEF Within
<1>1. Managing(r) /\ Leans(r)
  BY DEF Managing, Leans
<1>2. /\ verbs[<<r.by, r.group>>] \subseteq verbs'[<<r.by, r.group>>]
      /\ r.lowers => verbs[<<r.key, r.group>>] \subseteq verbs'[<<r.key, r.group>>]
  BY <1>1 DEF CallersStand, TargetsStand, Acts, By, At, Narrowed
<1> QED BY <1>2 DEF Within

LEMMA EInvStep == IInv /\ EInv /\ [Next]_vars /\ [CallersStand]_vars => EInv'
<1> SUFFICES ASSUME IInv, EInv, [Next]_vars, [CallersStand]_vars PROVE EInv'
  OBVIOUS
<1>1. CASE UNCHANGED vars
  BY <1>1 DEF vars, stored, EInv, RowsHoldVerbs, Entitled, Managing
<1>2. ASSUME NEW t \in Tasks, Serve(t) \/ Abandon(t), CallersStand PROVE EInv'
  <2>1. RowsHoldVerbs'
    BY <1>2, RowsStep DEF EInv
  <2>2. ASSUME NEW u \in Tasks PROVE Entitled(task[u])'
    <3> PICK r : r = task'[u]
      OBVIOUS
    <3>1. CASE u = t
      <4>1. Entitled(r)'
        BY <1>2, <3>1, OwnEntitled
      <4> QED BY <4>1
    <3>2. CASE u # t
      <4>1. r = task[u] /\ Entitled(task[u])
        BY <1>2, <3>2, OthersRest DEF IInv, EInv
      <4>2. Entitled(r)
        BY <4>1
      <4>3. Entitled(r)'
        BY <1>2, <4>1, <4>2, OthersEntitled
      <4> QED BY <4>3
    <3> QED BY <3>1, <3>2
  <2> QED BY <2>1, <2>2 DEF EInv
<1> QED BY <1>1, <1>2 DEF Next

LEMMA WInvStep ==
    IInv /\ EInv /\ WInv /\ [Next]_vars /\ [CallersStand /\ TargetsStand]_vars => WInv'
<1> SUFFICES ASSUME IInv, EInv, WInv, [Next]_vars, [CallersStand /\ TargetsStand]_vars
             PROVE  WInv'
  OBVIOUS
<1>1. CASE UNCHANGED vars
  BY <1>1 DEF vars, stored, WInv, Within
<1>2. ASSUME NEW t \in Tasks, Serve(t) \/ Abandon(t), CallersStand, TargetsStand,
             NEW u \in Tasks
      PROVE  Within(task[u])'
  <2> PICK r : r = task'[u]
    OBVIOUS
  <2>1. CASE u = t
    <3>1. Within(r)'
      BY <1>2, <2>1, OwnEntitled
    <3> QED BY <3>1
  <2>2. CASE u # t
    <3>1. r = task[u] /\ Within(task[u])
      BY <1>2, <2>2, OthersRest DEF IInv, WInv
    <3>2. Within(r)
      BY <3>1
    <3>3. Within(r)'
      BY <1>2, <3>1, <3>2, OthersWithin
    <3> QED BY <3>3
  <2> QED BY <2>1, <2>2
<1> QED BY <1>1, <1>2 DEF Next, WInv

LEMMA EInvInit == Init => EInv /\ WInv
BY IdleFits DEF Init, EInv, WInv, RowsHoldVerbs, Entitled, Managing, Within

\* Who a permission row loses verbs to.
LEMMA RevocationStep ==
    ASSUME IInv, EInv, NEW t \in Tasks, Serve(t) \/ Abandon(t),
           NEW k \in keys', NEW g \in groups', Narrowed(k, g)
    PROVE  Acts(t) /\ CurrentlyManages(By(t), g)
<1>1. k \in Keys /\ g \in Groups
  <2>1. TypeOK'
    BY InvStep DEF IInv
  <2> QED BY <2>1 DEF TypeOK
<1>2. verbs'[<<k, g>>] # verbs[<<k, g>>] /\ verbs[<<k, g>>] # {}
  BY DEF Narrowed
<1>3. Acts(t) /\ (At(t, "writeRow") \/ At(t, "deleteRow")) /\ g = task[t].group
  BY <1>1, <1>2, VerbsMove DEF EInv
<1>4. Entitled(task[t])
  BY DEF EInv
<1>5. By(t) # Master => /\ By(t) \in keys /\ "can_manage_keys" \in scopes[By(t)]
                        /\ "manage" \in verbs[<<By(t), g>>]
  BY <1>3, <1>4 DEF Entitled, Managing, At, By
<1> QED BY <1>3, <1>5 DEF CurrentlyManages

\* Who it gains them from.
LEMMA GrantStep ==
    ASSUME IInv, EInv, WInv, NEW t \in Tasks, Serve(t) \/ Abandon(t),
           NEW k \in Keys, NEW g \in Groups, Widened(k, g)
    PROVE  /\ Acts(t)
           /\ \/ At(t, "provision")
              \/ /\ CurrentlyManages(By(t), g)
                 /\ By(t) = Master \/ verbs'[<<k, g>>] \ verbs[<<k, g>>] \subseteq verbs[<<By(t), g>>]
<1>1. verbs'[<<k, g>>] # verbs[<<k, g>>] /\ verbs'[<<k, g>>] # {}
  BY DEF Widened
<1>2. CASE At(t, "provision") /\ Acts(t)
  BY <1>2
<1>3. CASE /\ At(t, "writeRow") /\ Acts(t) /\ k = task[t].key /\ g = task[t].group
           /\ verbs'[<<k, g>>] = task[t].want
  <2>1. Entitled(task[t]) /\ Within(task[t])
    BY DEF EInv, WInv
  <2>2. By(t) # Master => /\ By(t) \in keys /\ "can_manage_keys" \in scopes[By(t)]
                          /\ "manage" \in verbs[<<By(t), g>>]
    BY <1>3, <2>1 DEF Entitled, Managing, At, By
  <2>3. By(t) # Master => \/ verbs'[<<k, g>>] \subseteq verbs[<<By(t), g>>]
                          \/ verbs'[<<k, g>>] \subseteq verbs[<<k, g>>]
    BY <1>3, <2>1 DEF Within, At, By
  <2> QED BY <1>3, <2>2, <2>3 DEF CurrentlyManages
<1> QED BY <1>1, <1>2, <1>3, VerbsMove DEF EInv

\* R6 holds step by step as long as nobody's rights are narrowed under a request of its
\* own: verbs are lost to the master or to a key that then manages the group, however many
\* grants and revocations overlap otherwise (revoke_key_group_permission,
\* update_key_group_permissions).
THEOREM RevocationsAreManagers == Spec /\ [][CallersStand]_vars => RevokedByManagers
<1>1. IInv /\ EInv /\ [Next]_vars =>
        [\A k \in keys', g \in groups' : Narrowed(k, g) =>
            \E t \in Tasks : Acts(t) /\ CurrentlyManages(By(t), g)]_vars
  <2> SUFFICES ASSUME IInv, EInv, Next, NEW k \in keys', NEW g \in groups', Narrowed(k, g)
               PROVE  \E t \in Tasks : Acts(t) /\ CurrentlyManages(By(t), g)
    OBVIOUS
  <2>1. PICK t \in Tasks : Serve(t) \/ Abandon(t)
    BY DEF Next
  <2> QED BY <2>1, RevocationStep
<1>2. Init => EInv
  BY EInvInit
<1> QED BY <1>1, <1>2, EInvStep, Invariance, PTL DEF Spec, RevokedByManagers

\* R1, R2 and R7 hold step by step if, besides, no row is narrowed whose reduction has
\* been decided: a verb is gained from the master, from the creation of the group, or from
\* a key that then manages the group and then holds the verb.
THEOREM GrantsAreWithinRights ==
    Spec /\ [][CallersStand /\ TargetsStand]_vars => GrantsWithinOwnRights
<1>1. IInv /\ EInv /\ WInv /\ [Next]_vars =>
        [\A k \in Keys, g \in Groups : Widened(k, g) =>
          \E t \in Tasks :
             /\ Acts(t)
             /\ \/ At(t, "provision")
                \/ /\ CurrentlyManages(By(t), g)
                   /\ By(t) = Master
                        \/ verbs'[<<k, g>>] \ verbs[<<k, g>>] \subseteq verbs[<<By(t), g>>]]_vars
  <2> SUFFICES ASSUME IInv, EInv, WInv, Next, NEW k \in Keys, NEW g \in Groups, Widened(k, g)
               PROVE  \E t \in Tasks :
                         /\ Acts(t)
                         /\ \/ At(t, "provision")
                            \/ /\ CurrentlyManages(By(t), g)
                               /\ By(t) = Master
                                    \/ verbs'[<<k, g>>] \ verbs[<<k, g>>]
                                         \subseteq verbs[<<By(t), g>>]
    OBVIOUS
  <2>1. PICK t \in Tasks : Serve(t) \/ Abandon(t)
    BY DEF Next
  <2> QED BY <2>1, GrantStep
<1>2. Init => EInv /\ WInv
  BY EInvInit
<1>3. [CallersStand /\ TargetsStand]_vars => [CallersStand]_vars
  OBVIOUS
<1> QED
  BY <1>1, <1>2, <1>3, EInvStep, WInvStep, Invariance, PTL DEF Spec, GrantsWithinOwnRights

\* An update judged a reduction gives its target nothing.
Lowers(r) ==
    r.step = "writeRow" /\ r.lowers => r.want \subseteq verbs[<<r.key, r.group>>]

LInv == \A t \in Tasks : Lowers(task[t])

LEMMA OwnLowers ==
    ASSUME IInv, NEW t \in Tasks, Serve(t) \/ Abandon(t), NEW r, r = task'[t]
    PROVE  Lowers(r)'
<1> PICK q : q = task[t]
  OBVIOUS
<1>0. TypeOK /\ q \in Task /\ Idle.step = "idle"
  BY IdleFits DEF IInv, TypeOK
<1>a. ASSUME r.step # "writeRow" PROVE Lowers(r)'
  BY <1>a DEF Lowers
<1>b. ASSUME NEW p, Become(t, p) PROVE r = p
  BY <1>0, <1>b, Becoming
<1>c. ASSUME NEW s \in Steps \ {"writeRow"}, Goto(t, s) PROVE Lowers(r)'
  BY <1>0, <1>a, <1>b, <1>c DEF Goto, Task
<1>e. ASSUME Answer(t) PROVE Lowers(r)'
  BY <1>0, <1>a, <1>b, <1>e DEF Answer
<1>1. CASE Judge(t)
  <2>1. CASE Become(t, [task[t] EXCEPT !.step = "writeRow", !.lowers = ~Widens(t), !.held = {}])
    <3> PICK lowers \in BOOLEAN : lowers = ~Widens(t)
      BY DEF Widens
    <3>1. r = [q EXCEPT !.step = "writeRow", !.lowers = lowers, !.held = {}]
      BY <1>b, <2>1
    <3>2. r.group = q.group /\ r.key = q.key /\ r.want = q.want /\ r.lowers = lowers
      BY <1>0, <3>1 DEF Task
    <3> QED BY <1>1, <3>2, ReadsOn DEF Lowers, Widens
  <2> QED BY <1>1, <1>e, <2>1 DEF Judge
<1>2. CASE \/ RequestGroup(t) \/ InsertGroup(t) \/ Provision(t) \/ Record(t) \/ WriteRow(t)
           \/ DeleteRow(t) \/ Audit(t) \/ DeleteKeys(t) \/ Rescope(t) \/ DeleteGroup(t)
           \/ Abandon(t)
  BY <1>0, <1>2, <1>a, FreeAfter DEF Free
<1>3. CASE RequestRecords(t)
  BY <1>3, <1>a, <1>b DEF RequestRecords, Caller, Idle
<1>4. CASE RequestGrant(t)
  <2>1. PICK by \in AllKeys, k \in Keys, want \in Wants, g \in Groups \cup {"none"},
             n \in Names \cup {"none"} :
           Become(t, [Caller(by, "grant") EXCEPT
                           !.step = IF by = Master THEN "resolve" ELSE "gate",
                           !.key = k, !.group = g, !.name = n, !.want = want])
    BY <1>4 DEF RequestGrant
  <2>2. r = [Caller(by, "grant") EXCEPT
               !.step = IF by = Master THEN "resolve" ELSE "gate",
               !.key = k, !.group = g, !.name = n, !.want = want]
    BY <1>b, <2>1
  <2>3. r.step \in {"resolve", "gate"}
    BY <2>2 DEF Caller, Idle
  <2> QED BY <1>a, <2>3
<1>5. CASE RequestRevoke(t)
  BY <1>5, <1>a, <1>b DEF RequestRevoke, Caller, Idle
<1>6. CASE FindGroup(t) \/ Gate(t) \/ FindRow(t) \/ JudgeRevoke(t)
  BY <1>6, <1>c, <1>e DEF FindGroup, Gate, FindRow, JudgeRevoke, Steps
<1>7. CASE GetOrCreate(t)
  <2>1. \/ r = [q EXCEPT !.step = "readBack"]
        \/ r = [q EXCEPT !.step = "readBack", !.changed = TRUE]
    BY <1>7, <1>b DEF GetOrCreate, Goto
  <2> QED BY <1>0, <1>a, <2>1 DEF Task
<1>8. CASE ReadBack(t)
  <2>1. ASSUME NEW g, Become(t, [task[t] EXCEPT !.step = AfterReadBack(t), !.group = g])
        PROVE  Lowers(r)'
    BY <1>0, <1>a, <1>b, <2>1 DEF Task, AfterReadBack
  <2> QED BY <1>8, <1>e, <2>1 DEF ReadBack
<1>9. CASE Resolve(t)
  <2>1. ASSUME NEW g, Become(t, [task[t] EXCEPT !.step = "readCaller", !.group = g])
        PROVE  Lowers(r)'
    BY <1>0, <1>a, <1>b, <2>1 DEF Task
  <2> QED BY <1>9, <1>c, <1>e, <2>1 DEF Resolve, Steps
<1>10. CASE ReadCaller(t)
  BY <1>0, <1>10, <1>a, <1>b DEF ReadCaller, Task
<1> QED BY <1>1, <1>2, <1>3, <1>4, <1>5, <1>6, <1>7, <1>8, <1>9, <1>10 DEF Serve

LEMMA LInvStep == IInv /\ LInv /\ [Next]_vars /\ [TargetsStand]_vars => LInv'
<1> SUFFICES ASSUME IInv, LInv, [Next]_vars, [TargetsStand]_vars PROVE LInv'
  OBVIOUS
<1>1. CASE UNCHANGED vars
  BY <1>1 DEF vars, stored, LInv, Lowers
<1>2. ASSUME NEW t \in Tasks, Serve(t) \/ Abandon(t), TargetsStand, NEW u \in Tasks
      PROVE  Lowers(task[u])'
  <2>1. CASE u = t
    <3> PICK r : r = task'[u]
      OBVIOUS
    <3>1. Lowers(r)'
      BY <1>2, <2>1, OwnLowers
    <3> QED BY <3>1
  <2>2. CASE u # t
    <3>1. task'[u] = task[u] /\ Lowers(task[u])
      BY <1>2, <2>2, OthersRest DEF IInv, LInv
    <3>2. At(u, "writeRow") /\ task[u].lowers =>
             verbs[<<task[u].key, task[u].group>>] \subseteq verbs'[<<task[u].key, task[u].group>>]
      BY <1>2, <3>1 DEF TargetsStand, Acts, Narrowed
    <3> QED BY <3>1, <3>2 DEF Lowers, At
  <2> QED BY <2>1, <2>2
<1> QED BY <1>1, <1>2 DEF Next, LInv

\* "Revocation is never escalation" (R6) fails by one overlap and by no other: while nothing
\* is taken from a row whose reduction has been decided, a reduction gives its target
\* nothing (update_key_group_permissions, whose write is an upsert).
THEOREM ReductionsReduce == Spec /\ [][TargetsStand]_vars => ReductionsNeverWiden
<1>1. IInv /\ LInv /\ [Next]_vars =>
        [\A t \in Tasks : Acts(t) /\ At(t, "writeRow") /\ task[t].lowers =>
            ~Widened(task[t].key, task[t].group)]_vars
  <2> SUFFICES ASSUME IInv, LInv, Next, NEW u \in Tasks,
                      Acts(u), At(u, "writeRow"), task[u].lowers
               PROVE  ~Widened(task[u].key, task[u].group)
    OBVIOUS
  <2>1. WriteRow(u) \/ Abandon(u)
    <3>1. PICK t \in Tasks : Serve(t) \/ Abandon(t)
      BY DEF Next
    <3>2. t = u
      BY <3>1, OthersRest DEF Acts, IInv
    <3> QED BY <3>1, <3>2 DEF Serve, At, RequestGroup, InsertGroup, Provision, RequestRecords,
          FindGroup, GetOrCreate, ReadBack, Record, RequestGrant, Gate, Resolve, ReadCaller,
          Judge, RequestRevoke, FindRow, JudgeRevoke, DeleteRow, Audit, DeleteKeys, Rescope,
          DeleteGroup, Request, Admitted, Ready
  <2>2. CASE UNCHANGED verbs
    BY <2>2 DEF Widened
  <2>3. CASE WriteRow(u) /\ verbs' # verbs
    <3> PICK k, g, v : k = task[u].key /\ g = task[u].group /\ v = task[u].want
      OBVIOUS
    <3>1. Referable(k, g) /\ SetRow(k, g, v)
      BY <2>3 DEF WriteRow, Reading, stored
    <3>2. k \in Keys /\ g \in Groups /\ verbs \in [Keys \X Groups -> SUBSET Verbs]
      BY <3>1 DEF Referable, IInv, TypeOK
    <3>3. verbs'[<<k, g>>] = v
      BY <3>1, <3>2 DEF SetRow
    <3> QED BY <3>3 DEF LInv, Lowers, At, Widened
  <2> QED BY <2>1, <2>2, <2>3 DEF Abandon, Reading, stored
<1>2. Init => LInv
  BY IdleFits DEF Init, LInv, Lowers
<1> QED BY <1>1, <1>2, LInvStep, Invariance, PTL DEF Spec, ReductionsNeverWiden

-----------------------------------------------------------------------------
(* Who is provisioned *)

\* No request is about to create a group of the name that a records request, which will
\* be given a row on it, is about to create or has yet to read back.
NamesApart ==
    \A t, u \in Tasks :
        /\ t # u /\ task[t].step \in {"getOrCreate", "readBack"} /\ task[t].op = "upsert"
        /\ task[u].step \in {"insertGroup", "getOrCreate"}
        => task[t].name # task[u].name

\* The group a tenant goes on to be provisioned on is the one it made.
Founds(r) ==
    /\ r.step \in {"gate", "resolve"} => r.op # "upsert"
    /\ r.op = "upsert" /\ r.by # Master /\ r.step = "getOrCreate" => Named(r.name) = {}
    /\ r.op = "upsert" /\ r.by # Master /\ r.step = "readBack" =>
          \A g \in Named(r.name) : owner[g] = r.by
    /\ r.step = "provision" => r.group \in used /\ owner[r.group] = r.by

FInv == \A t \in Tasks : Founds(task[t])

\* Groups come one at a time, under a new id, and nothing is rewritten when they go.
LEMMA GroupsMove ==
    ASSUME TypeOK, NEW t \in Tasks, Serve(t) \/ Abandon(t)
    PROVE  \/ /\ task[t].step \in {"insertGroup", "getOrCreate"} /\ Named(task[t].name) = {}
              /\ \E g \in Groups : NewGroup(t, g)
           \/ groups' \subseteq groups /\ UNCHANGED <<used, name, owner>>
<1>1. CASE InsertGroup(t) \/ GetOrCreate(t)
  <2>1. UNCHANGED stored \/ \E g \in Groups : Named(task[t].name) = {} /\ NewGroup(t, g)
    BY <1>1 DEF InsertGroup, GetOrCreate
  <2> QED BY <1>1, <2>1 DEF InsertGroup, GetOrCreate, At, stored
<1>2. CASE ~(InsertGroup(t) \/ GetOrCreate(t))
  BY <1>2 DEF Serve, Abandon, RequestGroup, Provision, RequestRecords, FindGroup, ReadBack,
     Record, RequestGrant, Gate, Resolve, ReadCaller, Judge, WriteRow, RequestRevoke, FindRow,
     JudgeRevoke, DeleteRow, Audit, DeleteKeys, Rescope, DeleteGroup, Request, Reading, stored
<1> QED BY <1>1, <1>2

\* What a step of another task t does to the claims of r.
LEMMA OthersFound ==
    ASSUME TypeOK, NEW t \in Tasks, Serve(t) \/ Abandon(t), NEW r, Founds(r),
           r.step \in {"getOrCreate", "readBack"} /\ r.op = "upsert" =>
              (task[t].step \in {"insertGroup", "getOrCreate"} => r.name # task[t].name)
    PROVE  Founds(r)'
<1>1. CASE groups' \subseteq groups /\ UNCHANGED <<used, name, owner>>
  BY <1>1 DEF Founds, Named
<1>2. CASE /\ task[t].step \in {"insertGroup", "getOrCreate"}
           /\ \E g \in Groups : NewGroup(t, g)
  <2>1. PICK g \in Groups : NewGroup(t, g)
    BY <1>2
  <2>2. /\ groups' = groups \cup {g} /\ used' = used \cup {g} /\ g \notin used
        /\ name' = [name EXCEPT ![g] = task[t].name]
        /\ owner' = [owner EXCEPT ![g] = ResourceOwner(By(t))]
    BY <2>1 DEF NewGroup
  <2>3. \A h \in groups : h # g /\ h \in Groups
    BY <2>2 DEF TypeOK
  <2>4. /\ name'[g] = task[t].name /\ \A h \in groups : name'[h] = name[h]
        /\ \A h \in used : owner'[h] = owner[h]
    BY <2>2, <2>3 DEF TypeOK
  <2>5. r.name # task[t].name => Named(r.name)' = Named(r.name)
    BY <2>2, <2>3, <2>4 DEF Named
  <2>6. \A n : Named(n) \subseteq used
    BY DEF Named, TypeOK
  <2> QED BY <1>2, <2>2, <2>4, <2>5, <2>6 DEF Founds
<1> QED BY <1>1, <1>2, GroupsMove

\* What a task's own step does to its claims.
LEMMA OwnFounds ==
    ASSUME IInv, FInv, NEW t \in Tasks, Serve(t) \/ Abandon(t), NEW r, r = task'[t]
    PROVE  Founds(r)'
<1> PICK q : q = task[t]
  OBVIOUS
<1>0. TypeOK /\ q \in Task /\ Founds(q)
  BY DEF IInv, FInv, TypeOK
<1>a. ASSUME r.step \notin {"gate", "resolve", "getOrCreate", "readBack", "provision"}
      PROVE  Founds(r)'
  BY <1>a DEF Founds
<1>b. ASSUME NEW p, Become(t, p) PROVE r = p
  BY <1>0, <1>b, Becoming
<1>d. ASSUME NEW s \in Steps, Goto(t, s)
      PROVE  r.step = s /\ r.op = q.op /\ r.by = q.by /\ r.name = q.name
  BY <1>0, <1>b, <1>d DEF Goto, Task
<1>e. ASSUME Answer(t) PROVE Founds(r)'
  <2>1. r = Idle
    BY <1>b, <1>e DEF Answer
  <2> QED BY <1>a, <2>1, IdleFits
<1>f. ASSUME NEW s \in Steps \ {"gate", "resolve", "getOrCreate", "readBack", "provision"},
             Goto(t, s)
      PROVE  Founds(r)'
  BY <1>a, <1>d, <1>f
<1>1. CASE InsertGroup(t)
  <2>1. CASE Answer(t)
    BY <1>e, <2>1
  <2>2. ASSUME NEW g \in Groups, NewGroup(t, g), By(t) # Master,
               Become(t, [task[t] EXCEPT !.step = "provision", !.group = g, !.changed = TRUE])
        PROVE  Founds(r)'
    <3>1. r = [q EXCEPT !.step = "provision", !.group = g, !.changed = TRUE]
      BY <1>b, <2>2
    <3>2. r.step = "provision" /\ r.group = g /\ r.by = By(t)
      BY <1>0, <3>1 DEF Task, By
    <3>3. used' = used \cup {g} /\ owner'[g] = By(t)
      BY <1>0, <2>2 DEF NewGroup, ResourceOwner, TypeOK
    <3> QED BY <3>2, <3>3 DEF Founds
  <2>3. CASE Become(t, Auditing(t))
    BY <1>a, <1>b, <2>3 DEF Auditing, Idle
  <2> QED BY <1>1, <2>1, <2>2, <2>3 DEF InsertGroup
<1>2. CASE \/ RequestGroup(t) \/ Record(t) \/ WriteRow(t) \/ DeleteRow(t) \/ Audit(t)
           \/ DeleteKeys(t) \/ Rescope(t) \/ DeleteGroup(t) \/ Abandon(t) \/ Provision(t)
  <2>1. CASE ~InsertGroup(t)
    BY <1>0, <1>2, <1>a, <2>1, FreeAfter DEF Free
  <2>2. CASE InsertGroup(t)
    BY <1>1, <2>2
  <2> QED BY <2>1, <2>2
<1>3. CASE RequestRecords(t)
  <2>1. PICK by \in AllKeys, n \in Names, op \in {"upsert", "batch"} :
           Become(t, [Caller(by, op) EXCEPT !.step = "findGroup", !.name = n])
    BY <1>3 DEF RequestRecords
  <2>2. r = [Caller(by, op) EXCEPT !.step = "findGroup", !.name = n]
    BY <1>b, <2>1
  <2>3. r.step = "findGroup"
    BY <2>2 DEF Caller, Idle
  <2> QED BY <1>a, <2>3
<1>4. CASE FindGroup(t)
  <2>1. CASE Named(q.name) = {} /\ Goto(t, "getOrCreate")
    <3>1. r.step = "getOrCreate" /\ r.name = q.name
      BY <1>d, <2>1 DEF Steps
    <3>2. UNCHANGED <<groups, name>>
      BY <1>4 DEF FindGroup, Reading, stored
    <3> QED BY <2>1, <3>1, <3>2 DEF Founds, Named
  <2> QED BY <1>4, <1>e, <1>f, <2>1 DEF FindGroup, Steps
<1>5. CASE GetOrCreate(t)
  <2>1. \/ r = [q EXCEPT !.step = "readBack"]
        \/ r = [q EXCEPT !.step = "readBack", !.changed = TRUE]
    BY <1>5, <1>b DEF GetOrCreate, Goto
  <2>2. r.step = "readBack" /\ r.op = q.op /\ r.by = q.by /\ r.name = q.name
    BY <1>0, <2>1 DEF Task
  <2>3. SUFFICES ASSUME q.op = "upsert", q.by # Master
                 PROVE  \A h \in Named(q.name)' : owner'[h] = q.by
    BY <2>2 DEF Founds
  <2>4. Named(q.name) = {}
    BY <1>0, <1>5, <2>3 DEF GetOrCreate, At, Founds
  <2>5. PICK g \in Groups : NewGroup(t, g)
    BY <1>5, <2>4 DEF GetOrCreate
  <2>6. \A h \in groups : h # g /\ h \in Groups
    BY <1>0, <2>5 DEF NewGroup, TypeOK
  <2>7. /\ groups' = groups \cup {g} /\ owner'[g] = q.by
        /\ \A h \in groups : name'[h] = name[h]
    BY <1>0, <2>3, <2>5, <2>6 DEF NewGroup, ResourceOwner, TypeOK, By
  <2> QED BY <2>4, <2>7 DEF Named
<1>6. CASE ReadBack(t)
  <2>1. CASE Answer(t)
    BY <1>e, <2>1
  <2>2. ASSUME NEW g \in Named(q.name),
               Become(t, [task[t] EXCEPT !.step = AfterReadBack(t), !.group = g])
        PROVE  Founds(r)'
    <3>1. r = [q EXCEPT !.step = AfterReadBack(t), !.group = g]
      BY <1>b, <2>2
    <3>2. r.step = AfterReadBack(t) /\ r.group = g /\ r.by = q.by
      BY <1>0, <3>1 DEF Task
    <3>3. /\ r.step \in {"readCaller", "provision", "record"}
          /\ r.step = "provision" => q.op = "upsert" /\ q.by # Master
      BY <3>2 DEF AfterReadBack, By
    <3>4. g \in used /\ UNCHANGED <<used, owner>>
      BY <1>0, <1>6, <2>2 DEF ReadBack, Reading, stored, Named, TypeOK
    <3> QED BY <1>0, <1>6, <2>2, <3>2, <3>3, <3>4 DEF Founds, ReadBack, At
  <2> QED BY <1>6, <2>1, <2>2 DEF ReadBack
<1>7. CASE RequestGrant(t)
  <2>1. PICK by \in AllKeys, k \in Keys, want \in Wants, g \in Groups \cup {"none"},
             n \in Names \cup {"none"} :
           Become(t, [Caller(by, "grant") EXCEPT
                           !.step = IF by = Master THEN "resolve" ELSE "gate",
                           !.key = k, !.group = g, !.name = n, !.want = want])
    BY <1>7 DEF RequestGrant
  <2>2. r = [Caller(by, "grant") EXCEPT
               !.step = IF by = Master THEN "resolve" ELSE "gate",
               !.key = k, !.group = g, !.name = n, !.want = want]
    BY <1>b, <2>1
  <2>3. r.op = "grant" /\ r.step \in {"resolve", "gate"}
    BY <2>2 DEF Caller, Idle
  <2> QED BY <2>3 DEF Founds
<1>8. CASE RequestRevoke(t)
  <2>1. PICK by \in AllKeys, k \in Keys, g \in Groups :
           Become(t, [Caller(by, "revoke") EXCEPT
                           !.step = IF by = Master THEN "findRow" ELSE "gate",
                           !.key = k, !.group = g])
    BY <1>8 DEF RequestRevoke
  <2>2. r = [Caller(by, "revoke") EXCEPT
               !.step = IF by = Master THEN "findRow" ELSE "gate", !.key = k, !.group = g]
    BY <1>b, <2>1
  <2>3. r.op = "revoke" /\ r.step \in {"findRow", "gate"}
    BY <2>2 DEF Caller, Idle
  <2> QED BY <2>3 DEF Founds
<1>9. CASE Gate(t)
  <2>1. CASE Goto(t, "resolve")
    <3>1. r.step = "resolve" /\ r.op = q.op
      BY <1>d, <2>1 DEF Steps
    <3> QED BY <1>0, <1>9, <3>1 DEF Founds, Gate, At
  <2> QED BY <1>9, <1>e, <1>f, <2>1 DEF Gate, Steps
<1>10. CASE Resolve(t)
  <2>1. CASE Goto(t, "getOrCreate")
    <3>1. r.step = "getOrCreate" /\ r.op = q.op
      BY <1>d, <2>1 DEF Steps
    <3> QED BY <1>0, <1>10, <3>1 DEF Founds, Resolve, At
  <2>2. ASSUME NEW g, Become(t, [task[t] EXCEPT !.step = "readCaller", !.group = g])
        PROVE  Founds(r)'
    <3>1. r = [q EXCEPT !.step = "readCaller", !.group = g]
      BY <1>b, <2>2
    <3>2. r.step = "readCaller"
      BY <1>0, <3>1 DEF Task
    <3> QED BY <1>a, <3>2
  <2> QED BY <1>10, <1>e, <1>f, <2>1, <2>2 DEF Resolve, Steps
<1>11. CASE ReadCaller(t) \/ Judge(t)
  <2>1. CASE Answer(t)
    BY <1>e, <2>1
  <2>2. ASSUME NEW h, Become(t, [task[t] EXCEPT !.step = "judge", !.held = h])
        PROVE  Founds(r)'
    <3>1. r.step = "judge"
      BY <1>0, <1>b, <2>2 DEF Task
    <3> QED BY <1>a, <3>1
  <2>3. ASSUME NEW l, Become(t, [task[t] EXCEPT !.step = "writeRow", !.lowers = l, !.held = {}])
        PROVE  Founds(r)'
    <3>1. r.step = "writeRow"
      BY <1>0, <1>b, <2>3 DEF Task
    <3> QED BY <1>a, <3>1
  <2> QED BY <1>11, <2>1, <2>2, <2>3 DEF ReadCaller, Judge
<1>12. CASE FindRow(t) \/ JudgeRevoke(t)
  BY <1>12, <1>e, <1>f DEF FindRow, JudgeRevoke, Steps
<1> QED BY <1>1, <1>2, <1>3, <1>4, <1>5, <1>6, <1>7, <1>8, <1>9, <1>10, <1>11, <1>12 DEF Serve

LEMMA FInvStep == IInv /\ FInv /\ NamesApart /\ [Next]_vars => FInv'
<1> SUFFICES ASSUME IInv, FInv, NamesApart, [Next]_vars PROVE FInv'
  OBVIOUS
<1>1. CASE UNCHANGED vars
  BY <1>1 DEF vars, stored, FInv, Founds, Named
<1>2. ASSUME NEW t \in Tasks, Serve(t) \/ Abandon(t), NEW u \in Tasks
      PROVE  Founds(task[u])'
  <2> PICK r : r = task'[u]
    OBVIOUS
  <2>1. CASE u = t
    <3>1. Founds(r)'
      BY <1>2, <2>1, OwnFounds
    <3> QED BY <3>1
  <2>2. CASE u # t
    <3>1. TypeOK /\ r = task[u] /\ Founds(task[u])
      BY <1>2, <2>2, OthersRest DEF IInv, FInv
    <3>2. Founds(r)
      BY <3>1
    <3>3. r.step \in {"getOrCreate", "readBack"} /\ r.op = "upsert" =>
             (task[t].step \in {"insertGroup", "getOrCreate"} => r.name # task[t].name)
      BY <2>2, <3>1 DEF NamesApart
    <3>4. Founds(r)'
      BY <1>2, <3>1, <3>2, <3>3, OthersFound
    <3> QED BY <3>4
  <2> QED BY <2>1, <2>2
<1> QED BY <1>1, <1>2 DEF Next, FInv

LEMMA FInvInit == Init => FInv
BY IdleFits DEF Init, FInv, Founds, Idle

\* No verbs are stored without a row to hold them, whichever handlers and foreign keys
\* took the row away.
LEMMA RowsAlways == Spec => []RowsHoldVerbs
<1>1. Init => RowsHoldVerbs
  BY DEF Init, RowsHoldVerbs
<1>2. IInv /\ RowsHoldVerbs /\ [Next]_vars => RowsHoldVerbs'
  <2>1. ASSUME UNCHANGED vars, RowsHoldVerbs PROVE RowsHoldVerbs'
    BY <2>1 DEF vars, stored, RowsHoldVerbs
  <2> QED BY <2>1, RowsStep DEF Next
<1> QED BY <1>1, <1>2, Invariance, PTL DEF Spec

\* Whom a row that gains verbs belongs to.
LEMMA ProvisionStep ==
    ASSUME IInv, RowsHoldVerbs, FInv, NEW t \in Tasks, Serve(t) \/ Abandon(t),
           NEW k \in Keys, NEW g \in Groups, Widened(k, g)
    PROVE  Acts(t) /\ (At(t, "provision") => owner[g] = k)
<1>1. verbs'[<<k, g>>] # verbs[<<k, g>>] /\ verbs'[<<k, g>>] # {}
  BY DEF Widened
<1>2. \/ At(t, "provision") /\ Acts(t) /\ k = By(t) /\ g = task[t].group
      \/ At(t, "writeRow") /\ Acts(t)
  BY <1>1, VerbsMove
<1>3. Founds(task[t])
  BY DEF FInv
<1> QED BY <1>2, <1>3 DEF Founds, At, By

\* Only the key recorded as a group's owner is given verbs for creating it, as long as no
\* two requests create a group of one name together (get_or_create_group's "the loser of
\* the race did not", create_ip_group, handle_ip_upsert).
THEOREM FoundersAreProvisioned == Spec /\ []NamesApart => OnlyCreatorsProvisioned
<1>1. IInv /\ RowsHoldVerbs /\ FInv /\ [Next]_vars =>
        [\A k \in Keys, g \in Groups : Widened(k, g) =>
            \E t \in Tasks : Acts(t) /\ (At(t, "provision") => owner[g] = k)]_vars
  <2> SUFFICES ASSUME IInv, RowsHoldVerbs, FInv, Next,
                      NEW k \in Keys, NEW g \in Groups, Widened(k, g)
               PROVE  \E t \in Tasks : Acts(t) /\ (At(t, "provision") => owner[g] = k)
    OBVIOUS
  <2>1. PICK t \in Tasks : Serve(t) \/ Abandon(t)
    BY DEF Next
  <2> QED BY <2>1, ProvisionStep
<1> QED
  BY <1>1, FInvInit, FInvStep, RowsAlways, Invariance, PTL DEF Spec, OnlyCreatorsProvisioned

-----------------------------------------------------------------------------
(* Every change is one AccessControl allows *)

\* A tenant's request that may yet create a group.
Founding(r) ==
    /\ r.by # Master
    /\ r.step \in {"insertGroup", "findGroup", "gate", "resolve", "getOrCreate"}

\* The others leave its caller, and the scopes it has a copy of.
FoundersStand ==
    \A u \in Tasks : ~Acts(u) /\ Founding(task[u]) =>
        /\ By(u) \in keys => By(u) \in keys'
        /\ scopes[By(u)] \subseteq scopes'[By(u)]

Chartered(r) ==
    Founding(r) =>
        /\ r.by \in keys /\ r.scopes \subseteq scopes[r.by]
        /\ r.step \in {"insertGroup", "getOrCreate"} => "can_create_groups" \in r.scopes

OInv == \A t \in Tasks : Chartered(task[t])

LEMMA OwnChartered ==
    ASSUME IInv, OInv, NEW t \in Tasks, Serve(t) \/ Abandon(t), NEW r, r = task'[t]
    PROVE  Chartered(r)'
<1> PICK q : q = task[t]
  OBVIOUS
<1>0. TypeOK /\ q \in Task /\ Chartered(q) /\ Idle.step = "idle"
  BY IdleFits DEF IInv, OInv, TypeOK
<1>a. ASSUME r.step \notin {"insertGroup", "findGroup", "gate", "resolve", "getOrCreate"}
      PROVE  Chartered(r)'
  BY <1>a DEF Chartered, Founding
<1>b. ASSUME NEW p, Become(t, p) PROVE r = p
  BY <1>0, <1>b, Becoming
<1>c. ASSUME NEW s \in Steps, Goto(t, s)
      PROVE  r.step = s /\ r.by = q.by /\ r.scopes = q.scopes
  BY <1>0, <1>b, <1>c DEF Goto, Task
<1>d. ASSUME NEW s \in Steps \ {"insertGroup", "findGroup", "gate", "resolve", "getOrCreate"},
             Goto(t, s)
      PROVE  Chartered(r)'
  BY <1>a, <1>c, <1>d
<1>e. ASSUME Answer(t) PROVE Chartered(r)'
  BY <1>0, <1>a, <1>b, <1>e DEF Answer
<1>f. ASSUME NEW by \in AllKeys, Exists(by), UNCHANGED <<keys, scopes>>,
             r.by = by, r.scopes = Rights(by),
             r.step = "insertGroup" => "can_create_groups" \in Rights(by),
             r.step # "getOrCreate"
      PROVE  Chartered(r)'
  BY <1>f DEF Chartered, Founding, Exists, Rights
<1>1. CASE RequestGroup(t)
  <2>1. PICK by \in AllKeys, n \in Names :
           /\ Request(t, by, "can_create_groups")
           /\ Become(t, [Caller(by, "create") EXCEPT !.step = "insertGroup", !.name = n])
    BY <1>1 DEF RequestGroup
  <2>2. r = [Caller(by, "create") EXCEPT !.step = "insertGroup", !.name = n]
    BY <1>b, <2>1
  <2>3. r.step = "insertGroup" /\ r.by = by /\ r.scopes = Rights(by)
    BY <2>2 DEF Caller, Idle
  <2> QED BY <1>f, <2>1, <2>3 DEF Request, stored
<1>2. CASE InsertGroup(t)
  <2>1. ASSUME NEW g, Become(t, [task[t] EXCEPT !.step = "provision", !.group = g, !.changed = TRUE])
        PROVE  Chartered(r)'
    BY <1>0, <1>a, <1>b, <2>1 DEF Task
  <2>2. CASE Become(t, Auditing(t))
    BY <1>a, <1>b, <2>2 DEF Auditing, Idle
  <2> QED BY <1>2, <1>e, <2>1, <2>2 DEF InsertGroup
<1>3. CASE \/ Provision(t) \/ Record(t) \/ WriteRow(t) \/ DeleteRow(t) \/ Audit(t)
           \/ DeleteKeys(t) \/ Rescope(t) \/ DeleteGroup(t) \/ Abandon(t)
  <2>1. CASE ~RequestGroup(t) /\ ~InsertGroup(t)
    BY <1>0, <1>3, <1>a, <2>1, FreeAfter DEF Free
  <2> QED BY <1>1, <1>2, <2>1
<1>4. CASE RequestRecords(t)
  <2>1. PICK by \in AllKeys, n \in Names, op \in {"upsert", "batch"} :
           /\ Exists(by) /\ UNCHANGED stored
           /\ Become(t, [Caller(by, op) EXCEPT !.step = "findGroup", !.name = n])
    BY <1>4 DEF RequestRecords
  <2>2. r = [Caller(by, op) EXCEPT !.step = "findGroup", !.name = n]
    BY <1>b, <2>1
  <2>3. r.step = "findGroup" /\ r.by = by /\ r.scopes = Rights(by)
    BY <2>2 DEF Caller, Idle
  <2> QED BY <1>f, <2>1, <2>3 DEF stored
<1>5. CASE FindGroup(t)
  <2>1. CASE "can_create_groups" \in task[t].scopes /\ Goto(t, "getOrCreate")
    <3>1. r.step = "getOrCreate" /\ r.by = q.by /\ r.scopes = q.scopes
      BY <1>c, <2>1 DEF Steps
    <3>2. UNCHANGED <<keys, scopes>> /\ q.step = "findGroup"
      BY <1>5, ReadsOn DEF FindGroup, At
    <3> QED BY <1>0, <2>1, <3>1, <3>2 DEF Chartered, Founding
  <2> QED BY <1>5, <1>d, <1>e, <2>1 DEF FindGroup, Steps
<1>6. CASE GetOrCreate(t)
  <2>1. \/ r = [q EXCEPT !.step = "readBack"]
        \/ r = [q EXCEPT !.step = "readBack", !.changed = TRUE]
    BY <1>6, <1>b DEF GetOrCreate, Goto
  <2> QED BY <1>0, <1>a, <2>1 DEF Task
<1>7. CASE ReadBack(t)
  <2>1. ASSUME NEW g, Become(t, [task[t] EXCEPT !.step = AfterReadBack(t), !.group = g])
        PROVE  Chartered(r)'
    BY <1>0, <1>a, <1>b, <2>1 DEF Task, AfterReadBack
  <2> QED BY <1>7, <1>e, <2>1 DEF ReadBack
<1>8. CASE RequestGrant(t)
  <2>1. PICK by \in AllKeys, k \in Keys, want \in Wants, g \in Groups \cup {"none"},
             n \in Names \cup {"none"} :
           /\ Request(t, by, "can_manage_keys")
           /\ Become(t, [Caller(by, "grant") EXCEPT
                           !.step = IF by = Master THEN "resolve" ELSE "gate",
                           !.key = k, !.group = g, !.name = n, !.want = want])
    BY <1>8 DEF RequestGrant
  <2>2. r = [Caller(by, "grant") EXCEPT
               !.step = IF by = Master THEN "resolve" ELSE "gate",
               !.key = k, !.group = g, !.name = n, !.want = want]
    BY <1>b, <2>1
  <2>3. r.step \in {"gate", "resolve"} /\ r.by = by /\ r.scopes = Rights(by)
    BY <2>2 DEF Caller, Idle
  <2> QED BY <1>f, <2>1, <2>3 DEF Request, stored
<1>9. CASE RequestRevoke(t)
  <2>1. PICK by \in AllKeys, k \in Keys, g \in Groups :
           /\ Request(t, by, "can_manage_keys")
           /\ Become(t, [Caller(by, "revoke") EXCEPT
                           !.step = IF by = Master THEN "findRow" ELSE "gate",
                           !.key = k, !.group = g])
    BY <1>9 DEF RequestRevoke
  <2>2. r = [Caller(by, "revoke") EXCEPT
               !.step = IF by = Master THEN "findRow" ELSE "gate", !.key = k, !.group = g]
    BY <1>b, <2>1
  <2>3. r.step \in {"gate", "findRow"} /\ r.by = by /\ r.scopes = Rights(by)
    BY <2>2 DEF Caller, Idle
  <2> QED BY <1>f, <2>1, <2>3 DEF Request, stored
<1>10. CASE Gate(t)
  <2>1. CASE Goto(t, "resolve")
    <3>1. r.step = "resolve" /\ r.by = q.by /\ r.scopes = q.scopes
      BY <1>c, <2>1 DEF Steps
    <3>2. UNCHANGED <<keys, scopes>> /\ q.step = "gate"
      BY <1>10, ReadsOn DEF Gate, At
    <3> QED BY <1>0, <3>1, <3>2 DEF Chartered, Founding
  <2> QED BY <1>10, <1>d, <1>e, <2>1 DEF Gate, Steps
<1>11. CASE Resolve(t)
  <2>1. CASE "can_create_groups" \in task[t].scopes /\ Goto(t, "getOrCreate")
    <3>1. r.step = "getOrCreate" /\ r.by = q.by /\ r.scopes = q.scopes
      BY <1>c, <2>1 DEF Steps
    <3>2. UNCHANGED <<keys, scopes>> /\ q.step = "resolve"
      BY <1>11, ReadsOn DEF Resolve, At
    <3> QED BY <1>0, <2>1, <3>1, <3>2 DEF Chartered, Founding
  <2>2. ASSUME NEW g, Become(t, [task[t] EXCEPT !.step = "readCaller", !.group = g])
        PROVE  Chartered(r)'
    BY <1>0, <1>a, <1>b, <2>2 DEF Task
  <2> QED BY <1>11, <1>d, <1>e, <2>1, <2>2 DEF Resolve, Steps
<1>12. CASE ReadCaller(t)
  BY <1>0, <1>12, <1>a, <1>b DEF ReadCaller, Task
<1>13. CASE Judge(t)
  <2>1. ASSUME NEW l, Become(t, [task[t] EXCEPT !.step = "writeRow", !.lowers = l, !.held = {}])
        PROVE  Chartered(r)'
    BY <1>0, <1>a, <1>b, <2>1 DEF Task
  <2> QED BY <1>13, <1>e, <2>1 DEF Judge
<1>14. CASE FindRow(t) \/ JudgeRevoke(t)
  BY <1>14, <1>d, <1>e DEF FindRow, JudgeRevoke, Steps
<1> QED BY <1>1, <1>2, <1>3, <1>4, <1>5, <1>6, <1>7, <1>8, <1>9, <1>10, <1>11, <1>12, <1>13,
           <1>14 DEF Serve

LEMMA OInvStep == IInv /\ OInv /\ [Next]_vars /\ [FoundersStand]_vars => OInv'
<1> SUFFICES ASSUME IInv, OInv, [Next]_vars, [FoundersStand]_vars PROVE OInv'
  OBVIOUS
<1>1. CASE UNCHANGED vars
  BY <1>1 DEF vars, stored, OInv, Chartered, Founding
<1>2. ASSUME NEW t \in Tasks, Serve(t) \/ Abandon(t), FoundersStand, NEW u \in Tasks
      PROVE  Chartered(task[u])'
  <2> PICK r : r = task'[u]
    OBVIOUS
  <2>1. CASE u = t
    <3>1. Chartered(r)'
      BY <1>2, <2>1, OwnChartered
    <3> QED BY <3>1
  <2>2. CASE u # t
    <3>1. r = task[u] /\ Chartered(task[u])
      BY <1>2, <2>2, OthersRest DEF IInv, OInv
    <3>2. Founding(r) => /\ r.by \in keys => r.by \in keys'
                         /\ scopes[r.by] \subseteq scopes'[r.by]
      BY <1>2, <3>1 DEF FoundersStand, Acts, By
    <3>3. Chartered(r)
      BY <3>1
    <3>4. Chartered(r)'
      BY <3>2, <3>3 DEF Chartered, Founding
    <3> QED BY <3>4
  <2> QED BY <2>1, <2>2
<1> QED BY <1>1, <1>2 DEF Next, OInv

\* One step of a handler is one act of its caller, or nothing to the rules.
LEMMA AccessStep ==
    ASSUME IInv, EInv, WInv, FInv, OInv, NEW t \in Tasks, Serve(t) \/ Abandon(t)
    PROVE  \/ Access!Lose
           \/ Acts(t) /\ Access!Act(By(t))
           \/ UNCHANGED Access!access
<1> PICK q : q = task[t]
  OBVIOUS
<1>0. /\ TypeOK /\ q \in Task /\ Fits(q) /\ Entitled(q) /\ Within(q) /\ Founds(q)
      /\ Chartered(q) /\ RowsHoldVerbs
  BY DEF IInv, EInv, WInv, FInv, OInv, TypeOK
<1>1. Auditing(t).step = "audit"
  BY DEF Auditing, Idle
<1>2. ASSUME NEW p, Become(t, p), p.step # q.step PROVE Acts(t)
  BY <1>0, <1>2, Becoming DEF Acts
<1>3. ASSUME UNCHANGED stored PROVE UNCHANGED Access!access
  BY <1>3 DEF stored, Access!access
<1>4. ASSUME NEW g \in Groups, NewGroup(t, g), Named(q.name) = {}, Acts(t),
             q.step \in {"insertGroup", "getOrCreate"}
      PROVE  Acts(t) /\ Access!Act(By(t))
  <2>1. q.name \in Names
    BY <1>0, <1>4 DEF Fits
  <2>2. Access!MayFound(By(t))
    BY <1>0, <1>4 DEF Chartered, Founding, Access!MayFound, By
  <2>3. \A h \in groups : name[h] # q.name
    BY <1>4 DEF Named
  <2>4. Access!Found(By(t), g, q.name)
    BY <1>4, <2>2, <2>3 DEF Access!Found, NewGroup, ResourceOwner
  <2> QED BY <1>4, <2>1, <2>4 DEF Access!Act
<1>5. ASSUME NEW k, NEW g, NEW v, SetRow(k, g, v),
             UNCHANGED <<keys, scopes, groups, used, name, owner>>
      PROVE  Access!SetVerbs(k, g, v)
  BY <1>5 DEF SetRow, Access!SetVerbs
<1>6. ASSUME NEW g, By(t) # Master => /\ By(t) \in keys /\ "can_manage_keys" \in scopes[By(t)]
                                      /\ "manage" \in verbs[<<By(t), g>>]
      PROVE  Access!Manages(By(t), g)
  BY <1>6 DEF Access!Manages
<1>7. CASE InsertGroup(t)
  <2>1. CASE UNCHANGED stored
    BY <1>3, <2>1
  <2>2. ASSUME NEW g \in Groups, Named(q.name) = {}, NewGroup(t, g),
               \/ Become(t, Auditing(t))
               \/ Become(t, [task[t] EXCEPT !.step = "provision", !.group = g, !.changed = TRUE])
        PROVE  Acts(t) /\ Access!Act(By(t))
    <3>1. q.step = "insertGroup"
      BY <1>7 DEF InsertGroup, At
    <3>2. [task[t] EXCEPT !.step = "provision", !.group = g, !.changed = TRUE].step = "provision"
      BY <1>0 DEF Task
    <3>3. Acts(t)
      BY <1>1, <1>2, <2>2, <3>1, <3>2
    <3> QED BY <1>4, <2>2, <3>1, <3>3
  <2> QED BY <1>7, <2>1, <2>2 DEF InsertGroup
<1>8. CASE GetOrCreate(t)
  <2>1. CASE UNCHANGED stored
    BY <1>3, <2>1
  <2>2. ASSUME NEW g \in Groups, Named(q.name) = {}, NewGroup(t, g),
               Become(t, [task[t] EXCEPT !.step = "readBack", !.changed = TRUE])
        PROVE  Acts(t) /\ Access!Act(By(t))
    <3>1. q.step = "getOrCreate"
      BY <1>8 DEF GetOrCreate, At
    <3>2. [task[t] EXCEPT !.step = "readBack", !.changed = TRUE].step = "readBack"
      BY <1>0 DEF Task
    <3>3. Acts(t)
      BY <1>2, <2>2, <3>1, <3>2
    <3> QED BY <1>4, <2>2, <3>1, <3>3
  <2> QED BY <1>8, <2>1, <2>2 DEF GetOrCreate
<1>9. CASE Provision(t)
  <2>1. CASE UNCHANGED stored
    BY <1>3, <2>1
  <2>2. ASSUME Referable(q.by, q.group), <<q.by, q.group>> \notin rows,
               SetRow(q.by, q.group, Usage),
               UNCHANGED <<keys, scopes, groups, used, name, owner>>
        PROVE  Acts(t) /\ Access!Act(By(t))
    <3>1. task'[t].step # "provision"
      <4>1. task'[t].step = "provision" => InsertGroup(t)
        BY <1>0, <1>9, FreeAfter
      <4> QED BY <1>9, <4>1 DEF Provision, InsertGroup, At
    <3>2. q.step = "provision" /\ Acts(t)
      BY <1>9, <3>1 DEF Provision, At, Acts
    <3>3. q.group \in Groups /\ q.group \in groups /\ q.by \in Keys /\ q.by \in keys
      BY <1>0, <2>2 DEF Referable, TypeOK
    <3>4. owner[q.group] = q.by /\ verbs[<<q.by, q.group>>] = {}
      BY <1>0, <2>2, <3>2, <3>3 DEF Founds, RowsHoldVerbs
    <3>5. Access!SetVerbs(q.by, q.group, Verbs \ {"manage"})
      BY <1>5, <2>2 DEF Usage
    <3>6. Access!Provision(q.group)
      BY <3>3, <3>4, <3>5 DEF Access!Provision
    <3> QED BY <3>2, <3>3, <3>4, <3>6 DEF Access!Act, By
  <2> QED BY <1>9, <2>1, <2>2 DEF Provision, Reading, By
<1>10. CASE WriteRow(t)
  <2>1. CASE UNCHANGED stored
    BY <1>3, <2>1
  <2>2. ASSUME Referable(q.key, q.group), SetRow(q.key, q.group, q.want),
               Become(t, Auditing(t)), UNCHANGED <<keys, scopes, groups, used, name, owner>>
        PROVE  Acts(t) /\ Access!Act(By(t))
    <3>1. q.step = "writeRow"
      BY <1>10 DEF WriteRow, At
    <3>2. /\ q.key \in keys /\ q.group \in groups /\ q.key \in Keys /\ q.group \in Groups
          /\ q.want \in SUBSET Verbs
      BY <1>0, <2>2 DEF Referable, TypeOK, Task
    <3>3. Access!Manages(By(t), q.group)
      BY <1>0, <1>6, <3>1 DEF Entitled, Managing, By
    <3>4. By(t) = Master \/ q.want \ verbs[<<q.key, q.group>>] \subseteq verbs[<<By(t), q.group>>]
      BY <1>0, <3>1 DEF Within, By
    <3>5. Access!Grant(By(t), q.key, q.group, q.want)
      BY <1>5, <2>2, <3>2, <3>3, <3>4 DEF Access!Grant
    <3>6. Acts(t)
      BY <1>1, <1>2, <2>2, <3>1
    <3> QED BY <3>2, <3>5, <3>6 DEF Access!Act
  <2> QED BY <1>10, <2>1, <2>2 DEF WriteRow, Reading
<1>11. CASE DeleteRow(t)
  <2>1. CASE UNCHANGED stored
    BY <1>3, <2>1
  <2>2. ASSUME <<q.key, q.group>> \in rows, verbs' = [verbs EXCEPT ![<<q.key, q.group>>] = {}],
               Become(t, Auditing(t)), UNCHANGED <<keys, scopes, groups, used, name, owner>>
        PROVE  Acts(t) /\ Access!Act(By(t))
    <3>1. q.step = "deleteRow"
      BY <1>11 DEF DeleteRow, At
    <3>2. q.key \in Keys /\ q.group \in Groups
      BY <1>0, <2>2 DEF TypeOK
    <3>3. Access!Manages(By(t), q.group)
      BY <1>0, <1>6, <3>1 DEF Entitled, Managing, By
    <3>4. Access!Revoke(By(t), q.key, q.group)
      BY <2>2, <3>3 DEF Access!Revoke, Access!SetVerbs
    <3>5. Acts(t)
      BY <1>1, <1>2, <2>2, <3>1
    <3> QED BY <3>2, <3>4, <3>5 DEF Access!Act
  <2> QED BY <1>11, <2>1, <2>2 DEF DeleteRow, Reading
<1>12. CASE DeleteKeys(t)
  <2>1. PICK doomed \in SUBSET keys :
           /\ keys' = keys \ doomed /\ Cascade({p \in rows : p[1] \notin doomed})
           /\ UNCHANGED <<scopes, groups, used, name, owner>>
    BY <1>12 DEF DeleteKeys
  <2>2. ASSUME NEW k \in Keys, NEW g \in Groups
        PROVE  (IF <<k, g>> \in {p \in rows : p[1] \notin doomed} THEN verbs[<<k, g>>] ELSE {})
                 = IF <<k, g>> \in (Keys \ doomed) \X Groups THEN verbs[<<k, g>>] ELSE {}
    BY <1>0 DEF RowsHoldVerbs
  <2>3. Access!Keep((Keys \ doomed) \X Groups)
    BY <2>1, <2>2 DEF Access!Keep, Cascade
  <2>4. Access!LoseKeys(doomed)
    BY <2>1, <2>3 DEF Access!LoseKeys
  <2> QED BY <2>4 DEF Access!Lose
<1>13. CASE DeleteGroup(t)
  <2>1. PICK d \in groups :
           /\ groups' = groups \ {d} /\ Cascade({p \in rows : p[2] # d})
           /\ UNCHANGED <<keys, scopes, used, name, owner>>
    BY <1>13 DEF DeleteGroup
  <2>2. ASSUME NEW k \in Keys, NEW g \in Groups
        PROVE  (IF <<k, g>> \in {p \in rows : p[2] # d} THEN verbs[<<k, g>>] ELSE {})
                 = IF <<k, g>> \in Keys \X (Groups \ {d}) THEN verbs[<<k, g>>] ELSE {}
    BY <1>0 DEF RowsHoldVerbs
  <2>3. Access!Keep(Keys \X (Groups \ {d}))
    BY <2>1, <2>2 DEF Access!Keep, Cascade
  <2>4. Access!LoseGroup(d)
    BY <2>1, <2>3 DEF Access!LoseGroup
  <2> QED BY <2>4 DEF Access!Lose
<1>14. CASE Rescope(t)
  <2>1. PICK k \in keys, s \in SUBSET Scopes :
           /\ scopes' = [scopes EXCEPT ![k] = s]
           /\ UNCHANGED <<keys, groups, used, name, owner, verbs>>
    BY <1>14 DEF Rescope
  <2>2. Access!Rescope(k, s)
    BY <2>1 DEF Access!Rescope
  <2> QED BY <2>2 DEF Access!Lose, Scopes, Access!Scopes
<1>15. CASE ~(\/ InsertGroup(t) \/ GetOrCreate(t) \/ Provision(t) \/ WriteRow(t)
              \/ DeleteRow(t) \/ DeleteKeys(t) \/ DeleteGroup(t) \/ Rescope(t))
  <2>1. UNCHANGED stored
    BY <1>15 DEF Serve, Abandon, RequestGroup, RequestRecords, FindGroup, ReadBack, Record,
       RequestGrant, Gate, Resolve, ReadCaller, Judge, RequestRevoke, FindRow, JudgeRevoke,
       Audit, Request, Reading
  <2> QED BY <1>3, <2>1
<1> QED BY <1>7, <1>8, <1>9, <1>10, <1>11, <1>12, <1>13, <1>14, <1>15

\* The handlers keep AccessControl's rules at every step, whatever the number of keys,
\* groups and concurrent requests, while four things do not happen under a request: its
\* caller losing rights on the group, or the scope to create one; its target's row being
\* narrowed after its reduction was decided; another creating a group of the same name.
\* These are the four overlaps the statements of api/keys.rs, groups.rs and records.rs leave
\* open, and there is no fifth.
THEOREM RulesKept ==
    Spec /\ [][CallersStand /\ TargetsStand /\ FoundersStand]_vars /\ []NamesApart
        => RulesHoldThroughout
<1>1. IInv /\ EInv /\ WInv /\ FInv /\ OInv /\ [Next]_vars =>
        [Access!Lose \/ \E t \in Tasks : Acts(t) /\ Access!Act(By(t))]_Access!access
  <2> SUFFICES ASSUME IInv, EInv, WInv, FInv, OInv, [Next]_vars
               PROVE  \/ Access!Lose \/ \E t \in Tasks : Acts(t) /\ Access!Act(By(t))
                      \/ UNCHANGED Access!access
    OBVIOUS
  <2>1. CASE UNCHANGED vars
    BY <2>1 DEF vars, stored, Access!access
  <2>2. ASSUME NEW t \in Tasks, Serve(t) \/ Abandon(t)
        PROVE  \/ Access!Lose \/ \E u \in Tasks : Acts(u) /\ Access!Act(By(u))
               \/ UNCHANGED Access!access
    BY <2>2, AccessStep
  <2> QED BY <2>1, <2>2 DEF Next
<1>2. Init => Access!Init
  BY DEF Init, Access!Init, Scopes, Access!Scopes
<1>3. Init => EInv /\ WInv /\ FInv
  BY EInvInit, FInvInit
<1>4. Init => OInv
  BY IdleFits DEF Init, OInv, Chartered, Founding
<1>5. [CallersStand /\ TargetsStand /\ FoundersStand]_vars =>
        /\ [CallersStand]_vars /\ [CallersStand /\ TargetsStand]_vars /\ [FoundersStand]_vars
  OBVIOUS
<1> QED
  BY <1>1, <1>2, <1>3, <1>4, <1>5, EInvStep, WInvStep, FInvStep, OInvStep, Invariance, PTL
  DEF Spec, RulesHoldThroughout

-----------------------------------------------------------------------------
\* A request served alone finds everything as it left it.
LEMMA AloneNothingMoves ==
    ASSUME \A t, u \in Tasks : t = u, IInv, [Next]_vars
    PROVE  [CallersStand /\ TargetsStand /\ FoundersStand]_vars
<1> SUFFICES ASSUME NEW t \in Tasks, Serve(t) \/ Abandon(t)
             PROVE  CallersStand /\ TargetsStand /\ FoundersStand
  BY DEF Next
<1>1. ASSUME NEW u \in Tasks, ~Acts(u),
             task[u].step \notin {"idle", "abandoned", "provision", "record", "audit"}
      PROVE  UNCHANGED <<keys, scopes, verbs>>
  <2>1. u = t /\ TypeOK /\ task'[t].step = task[t].step
    BY <1>1 DEF IInv, Acts
  <2>2. CASE RequestGroup(t) \/ InsertGroup(t) \/ Record(t) \/ Audit(t) \/ Abandon(t)
    BY <2>2 DEF RequestGroup, InsertGroup, Record, Audit, Abandon, Request, Reading, NewGroup,
       stored
  <2>3. CASE \/ Provision(t) \/ WriteRow(t) \/ DeleteRow(t)
             \/ DeleteKeys(t) \/ Rescope(t) \/ DeleteGroup(t)
    <3>1. task[t].step \notin {"writeRow", "deleteRow"}
      BY <2>1, <2>3, FreeAfter DEF Free
    <3> QED BY <1>1, <2>1, <2>3, <3>1 DEF Provision, WriteRow, DeleteRow, DeleteKeys, Rescope,
          DeleteGroup, Admitted, Ready, At
  <2>4. CASE \/ RequestRecords(t) \/ FindGroup(t) \/ GetOrCreate(t) \/ ReadBack(t)
             \/ RequestGrant(t) \/ Gate(t) \/ Resolve(t) \/ ReadCaller(t) \/ Judge(t)
             \/ RequestRevoke(t) \/ FindRow(t) \/ JudgeRevoke(t)
    BY <2>4, ReadsOn
  <2> QED BY <2>2, <2>3, <2>4 DEF Serve
<1>2. ASSUME NEW u \in Tasks, Managing(task[u]) \/ At(u, "writeRow") \/ Founding(task[u])
      PROVE  task[u].step \notin {"idle", "abandoned", "provision", "record", "audit"}
  BY <1>2 DEF Managing, Founding, At
<1> QED BY <1>1, <1>2 DEF CallersStand, TargetsStand, FoundersStand, Narrowed

\* With requests served one by one the rules hold at every step of every installation,
\* however large, whichever keys and groups go and come, and however a request is
\* abandoned half-way; and with them the properties they stand for.
THEOREM ServedOneByOne ==
    ASSUME \A t, u \in Tasks : t = u
    PROVE  Spec => /\ GrantsWithinOwnRights /\ RevokedByManagers /\ OnlyCreatorsProvisioned
                   /\ ReductionsNeverWiden /\ RulesHoldThroughout
<1>1. NamesApart
  BY DEF NamesApart
<1>2. IInv /\ [Next]_vars => [CallersStand /\ TargetsStand /\ FoundersStand]_vars
  BY AloneNothingMoves
<1>3. [CallersStand /\ TargetsStand /\ FoundersStand]_vars =>
        [CallersStand]_vars /\ [TargetsStand]_vars /\ [CallersStand /\ TargetsStand]_vars
  OBVIOUS
<1> QED
  BY <1>1, <1>2, <1>3, Invariance, GrantsAreWithinRights, RevocationsAreManagers,
     FoundersAreProvisioned, ReductionsReduce, RulesKept, PTL DEF Spec
=============================================================================
