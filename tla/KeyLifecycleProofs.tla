-------------------------- MODULE KeyLifecycleProofs --------------------------
(***************************************************************************)
(* What holds of KeyLifecycle for any number of keys, entities and         *)
(* concurrent handlers: types, lineage, the origin of every scope and who  *)
(* deletes, whatever order their statements run in; owners, parents,       *)
(* elevation and lifecycles as long as the one overlap that breaks each    *)
(* does not happen; and all of it for requests served one by one.          *)
(***************************************************************************)
EXTENDS KeyLifecycle, TLAPS

\* What a task carries fits the step it has reached.
Fits(r, U) ==
    /\ r.by \in U \cup {Master}
    /\ r.step = "insertHook" => r.on \in Groups
    /\ r.step \in {"findEntity", "drop"} => r.on \in Entities
    /\ r.step = "writeScopes" => r.on \in U \cap Keys
    /\ \A e \in r.left : r.plan[e] # "keep"

OperandsFit == \A t \in Tasks : Fits(task[t], used)

\* A recorded parent is a key whose id was handed out, so a fresh id has no daughters.
ParentsUsed == \A k \in used \cap Keys : parent[k] \in used \cup {Master}

\* A tenant about to write scopes writes none the master never gave the target.
ScopesWarranted == \A t \in Tasks :
    By(t) # Master =>
        /\ At(t, "insertKey") => task[t].give = {}
        /\ At(t, "writeScopes") => task[t].give \subseteq granted[task[t].on]

\* The keys a task means to delete descend from its caller, and once the plan is
\* accepted the caller is not among them.
DoomedDescend == \A t \in Tasks :
    /\ task[t].frontier \subseteq task[t].doomed
    /\ task[t].doomed \subseteq used
    /\ \A d \in task[t].doomed : Descends(By(t), d)
    /\ task[t].step \in {"resolve", "purge"} => By(t) \notin task[t].doomed

IInv ==
    /\ TypeOK /\ OperandsFit /\ ParentsUsed
    /\ LineageIsForest /\ DoomedDescend
    /\ ScopesTraceToMaster /\ ScopesWarranted

-----------------------------------------------------------------------------
(* Types *)

RowsOK ==
    /\ rows \subseteq used /\ used \subseteq Ids
    /\ parent \in [Keys -> AllKeys]
    /\ scopes \in [Keys -> SUBSET Scopes]
    /\ owner \in [Entities -> Owners]
    /\ group \in [Hooks -> Groups]
    /\ requests \in Nat
    /\ granted \in [Keys -> SUBSET Scopes]

\* A finished task fits, whatever ids are in use.
LEMMA IdleFits ==
    /\ Idle \in Task /\ Idle.step = "idle" /\ Idle.by = Master /\ Idle.left = {}
    /\ Idle.doomed = {} /\ Idle.frontier = {}
    /\ \A U : Fits(Idle, U)
BY DEF Idle, Fits, Task, Steps, AllKeys, Owners, Resolutions

LEMMA TypeInit == Init => TypeOK /\ OperandsFit
<1> SUFFICES ASSUME Init PROVE TypeOK /\ OperandsFit
  OBVIOUS
<1>1. TypeOK
  BY IdleFits DEF Init, TypeOK, AllKeys, Owners
<1>2. OperandsFit
  BY IdleFits DEF Init, OperandsFit
<1> QED BY <1>1, <1>2

\* The others keep what they carry when task t moves on to r.
LEMMA Moved ==
    ASSUME TypeOK, NEW t \in Tasks, NEW r \in Task, Become(t, r)
    PROVE  /\ task' \in [Tasks -> Task]
           /\ task'[t] = r
           /\ \A u \in Tasks \ {t} : task'[u] = task[u]
BY DEF TypeOK, Become

LEMMA TypeFrame ==
    ASSUME TypeOK, OperandsFit, RowsOK', used \subseteq used',
           NEW t \in Tasks, NEW r \in Task, Become(t, r), Fits(r, used')
    PROVE  TypeOK' /\ OperandsFit'
<1>1. TypeOK'
  BY Moved DEF TypeOK, RowsOK
<1>2. OperandsFit'
  <2> SUFFICES ASSUME NEW u \in Tasks PROVE Fits(task'[u], used')
    BY DEF OperandsFit
  <2>1. CASE u = t
    BY <2>1, Moved
  <2>2. CASE u # t
    <3>1. task'[u] = task[u] /\ Fits(task[u], used)
      BY <2>2, Moved DEF OperandsFit
    <3> QED BY <3>1 DEF Fits
  <2> QED BY <2>1, <2>2
<1> QED BY <1>1, <1>2

LEMMA TypeStep ==
    ASSUME TypeOK, OperandsFit, NEW t \in Tasks, Serve(t) \/ Abandon(t)
    PROVE  TypeOK' /\ OperandsFit'
<1> USE DEF At, By, Goto, Done
<1> RowsOK /\ task[t] \in Task /\ Fits(task[t], used)
  BY DEF TypeOK, RowsOK, OperandsFit
<1> Idle \in Task /\ Fits(Idle, used') /\ Fits(Idle, used)
  BY IdleFits
<1>1. CASE RequestKey(t)
  <2>1. PICK by \in AllKeys, give \in SUBSET Scopes :
           /\ Authenticate(t, by)
           /\ Become(t, [Idle EXCEPT !.step = "insertKey", !.by = by, !.give = give])
    BY <1>1 DEF RequestKey
  <2> DEFINE r == [Idle EXCEPT !.step = "insertKey", !.by = by, !.give = give]
  <2>2. r \in Task /\ Fits(r, used')
    BY ZenonT(90), <2>1, IdleFits, IdAssumption DEF Task, Steps, Ids, Entities, Fits, Authenticate,
       LiveKeys, RowsOK
  <2>3. RowsOK' /\ used \subseteq used'
    BY <2>1 DEF Authenticate, RowsOK
  <2> QED BY <2>1, <2>2, <2>3, TypeFrame
<1>2. CASE RequestScopes(t)
  <2>1. PICK by \in AllKeys, k \in Keys, give \in SUBSET Scopes, take \in SUBSET Scopes :
           /\ Authenticate(t, by)
           /\ Become(t, [Idle EXCEPT !.step = "findEdited", !.by = by, !.on = k,
                                  !.give = give, !.take = take])
    BY <1>2 DEF RequestScopes
  <2> DEFINE r == [Idle EXCEPT !.step = "findEdited", !.by = by, !.on = k,
                                  !.give = give, !.take = take]
  <2>2. r \in Task /\ Fits(r, used')
    BY ZenonT(90), <2>1, IdleFits, IdAssumption DEF Task, Steps, Ids, Entities, Fits, Authenticate,
       LiveKeys, RowsOK
  <2>3. RowsOK' /\ used \subseteq used'
    BY <2>1 DEF Authenticate, RowsOK
  <2> QED BY <2>1, <2>2, <2>3, TypeFrame
<1>3. CASE RequestDeletion(t)
  <2>1. PICK by \in AllKeys, k \in Keys :
           /\ Authenticate(t, by)
           /\ Become(t, [Idle EXCEPT !.step = "findDoomed", !.by = by, !.on = k])
    BY <1>3 DEF RequestDeletion
  <2> DEFINE r == [Idle EXCEPT !.step = "findDoomed", !.by = by, !.on = k]
  <2>2. r \in Task /\ Fits(r, used')
    BY ZenonT(90), <2>1, IdleFits, IdAssumption DEF Task, Steps, Ids, Entities, Fits, Authenticate,
       LiveKeys, RowsOK
  <2>3. RowsOK' /\ used \subseteq used'
    BY <2>1 DEF Authenticate, RowsOK
  <2> QED BY <2>1, <2>2, <2>3, TypeFrame
<1>4. CASE RequestGroup(t)
  <2>1. PICK by \in AllKeys :
           /\ Authenticate(t, by)
           /\ Become(t, [Idle EXCEPT !.step = "insertGroup", !.by = by])
    BY <1>4 DEF RequestGroup
  <2> DEFINE r == [Idle EXCEPT !.step = "insertGroup", !.by = by]
  <2>2. r \in Task /\ Fits(r, used')
    BY ZenonT(90), <2>1, IdleFits, IdAssumption DEF Task, Steps, Ids, Entities, Fits, Authenticate,
       LiveKeys, RowsOK
  <2>3. RowsOK' /\ used \subseteq used'
    BY <2>1 DEF Authenticate, RowsOK
  <2> QED BY <2>1, <2>2, <2>3, TypeFrame
<1>5. CASE RequestHook(t)
  <2>1. PICK by \in AllKeys, g \in Groups :
           /\ Authenticate(t, by)
           /\ Become(t, [Idle EXCEPT !.step = "insertHook", !.by = by, !.on = g])
    BY <1>5 DEF RequestHook
  <2> DEFINE r == [Idle EXCEPT !.step = "insertHook", !.by = by, !.on = g]
  <2>2. r \in Task /\ Fits(r, used')
    BY ZenonT(90), <2>1, IdleFits, IdAssumption DEF Task, Steps, Ids, Entities, Fits, Authenticate,
       LiveKeys, RowsOK
  <2>3. RowsOK' /\ used \subseteq used'
    BY <2>1 DEF Authenticate, RowsOK
  <2> QED BY <2>1, <2>2, <2>3, TypeFrame
<1>6. CASE RequestDrop(t)
  <2>1. PICK by \in AllKeys, e \in Entities :
           /\ Authenticate(t, by)
           /\ Become(t, [Idle EXCEPT !.step = "findEntity", !.by = by, !.on = e])
    BY <1>6 DEF RequestDrop
  <2> DEFINE r == [Idle EXCEPT !.step = "findEntity", !.by = by, !.on = e]
  <2>2. r \in Task /\ Fits(r, used')
    BY ZenonT(90), <2>1, IdleFits, IdAssumption DEF Task, Steps, Ids, Entities, Fits, Authenticate,
       LiveKeys, RowsOK
  <2>3. RowsOK' /\ used \subseteq used'
    BY <2>1 DEF Authenticate, RowsOK
  <2> QED BY <2>1, <2>2, <2>3, TypeFrame
<1>7. CASE RequestOwner(t)
  <2>1. PICK e \in LiveEntities, to \in LiveKeys \cup {"unowned"} :
           /\ Authenticate(t, Master)
           /\ Become(t, [Idle EXCEPT !.step = "assign", !.on = e, !.to = to])
    BY <1>7 DEF RequestOwner
  <2> DEFINE r == [Idle EXCEPT !.step = "assign", !.on = e, !.to = to]
  <2> e \in Ids /\ to \in Owners
    BY DEF LiveEntities, LiveKeys, Ids, Owners
  <2>2. r \in Task /\ Fits(r, used')
    <3>1. r \in Task
      BY IdleFits DEF Task, Steps
    <3>2. Fits(r, used')
      BY IdleFits DEF Task, Fits
    <3> QED BY <3>1, <3>2
  <2>3. RowsOK' /\ used \subseteq used'
    BY <2>1 DEF Authenticate, RowsOK
  <2> QED BY <2>1, <2>2, <2>3, TypeFrame
<1>8. CASE FindEdited(t)
  <2> DEFINE r == [task[t] EXCEPT !.step = "writeScopes"]
  <2>1. \/ Become(t, r) /\ task[t].on \in LiveKeys
        \/ Become(t, Idle)
    BY <1>8 DEF FindEdited
  <2>2. task[t].on \in LiveKeys => r \in Task /\ Fits(r, used')
    BY <1>8 DEF FindEdited, Task, Steps, Fits, RowsOK, LiveKeys
  <2>3. RowsOK' /\ used \subseteq used'
    BY <1>8 DEF FindEdited, RowsOK
  <2> QED BY <2>1, <2>2, <2>3, TypeFrame
<1>9. CASE FindDoomed(t)
  <2> DEFINE r == [task[t] EXCEPT !.step = "walk", !.doomed = {task[t].on},
                                  !.frontier = {task[t].on}]
  <2>1. \/ Become(t, r) /\ task[t].on \in LiveKeys
        \/ Become(t, Idle)
    BY <1>9 DEF FindDoomed
  <2>2. task[t].on \in LiveKeys => r \in Task /\ Fits(r, used')
    BY <1>9 DEF FindDoomed, Task, Steps, Fits, RowsOK, LiveKeys
  <2>3. RowsOK' /\ used \subseteq used'
    BY <1>9 DEF FindDoomed, RowsOK
  <2> QED BY <2>1, <2>2, <2>3, TypeFrame
<1>10. CASE InsertKey(t)
  <2>1. RowsOK' /\ used \subseteq used'
    BY <1>10 DEF InsertKey, RowsOK, Task, Fits, Ids, AllKeys
  <2>2. Become(t, Idle)
    BY <1>10 DEF InsertKey
  <2> QED BY <2>1, <2>2, TypeFrame
<1>11. CASE WriteScopes(t)
  <2>1. RowsOK' /\ used \subseteq used'
    BY <1>11 DEF WriteScopes, RowsOK, Task, Fits
  <2>2. Become(t, Idle)
    BY <1>11 DEF WriteScopes
  <2> QED BY <2>1, <2>2, TypeFrame
<1>12. CASE Purge(t)
  <2>1. RowsOK' /\ used \subseteq used'
    BY <1>12 DEF Purge, RowsOK, Task
  <2>2. Become(t, Idle)
    BY <1>12 DEF Purge
  <2> QED BY <2>1, <2>2, TypeFrame
<1>13. CASE InsertGroup(t)
  <2>1. RowsOK' /\ used \subseteq used'
    BY <1>13 DEF InsertGroup, RowsOK, Task, Fits, Ids, Entities, AllKeys, Owners, ResourceOwner
  <2>2. Become(t, Idle)
    BY <1>13 DEF InsertGroup
  <2> QED BY <2>1, <2>2, TypeFrame
<1>14. CASE InsertHook(t)
  <2>1. RowsOK' /\ used \subseteq used'
    BY <1>14 DEF InsertHook, RowsOK, Task, Fits, Ids, Entities, AllKeys, Owners, ResourceOwner
  <2>2. Become(t, Idle)
    BY <1>14 DEF InsertHook
  <2> QED BY <2>1, <2>2, TypeFrame
<1>15. CASE Drop(t)
  <2>1. RowsOK' /\ used \subseteq used'
    BY <1>15 DEF Drop, RowsOK, Task
  <2>2. Become(t, Idle)
    BY <1>15 DEF Drop
  <2> QED BY <2>1, <2>2, TypeFrame
<1>16. CASE Assign(t)
  <2>1. RowsOK' /\ used \subseteq used'
    BY <1>16 DEF Assign, RowsOK, Task
  <2>2. Become(t, Idle)
    BY <1>16 DEF Assign
  <2> QED BY <2>1, <2>2, TypeFrame
<1>17. CASE Abandon(t)
  <2>1. RowsOK' /\ used \subseteq used'
    BY <1>17 DEF Abandon, RowsOK, Task
  <2>2. Become(t, Idle)
    BY <1>17 DEF Abandon
  <2> QED BY <2>1, <2>2, TypeFrame
<1>18. CASE Walk(t)
  <2> DEFINE next == Daughters(task[t].frontier) \ task[t].doomed
             r == [task[t] EXCEPT !.step = IF next = {} THEN "plan" ELSE "walk",
                                  !.frontier = next,
                                  !.doomed = @ \cup next]
  <2>1. Become(t, r)
    BY <1>18 DEF Walk
  <2>2. next \in SUBSET Keys
    BY DEF Daughters, LiveKeys
  <2>3. r \in Task /\ Fits(r, used')
    <3> HIDE DEF next
    <3> QED BY ZenonT(90), <1>18, <2>2 DEF Walk, Task, Steps, Fits
  <2>4. RowsOK' /\ used \subseteq used'
    BY <1>18 DEF Walk, RowsOK
  <2> QED BY <2>1, <2>3, <2>4, TypeFrame
<1>19. CASE Plan(t)
  <2>1. RowsOK' /\ used \subseteq used'
    BY <1>19 DEF Plan, RowsOK
  <2>2. CASE Done(t)
    BY <2>1, <2>2, TypeFrame
  <2>3. ASSUME NEW choice \in [Inventory(t) -> Heirs(t) \cup {"delete"}],
               Become(t, [task[t] EXCEPT
                   !.step = IF Inventory(t) = {} THEN "purge" ELSE "resolve",
                   !.left = Inventory(t),
                   !.plan = [e \in Entities |-> IF e \in Inventory(t) THEN choice[e]
                                                                      ELSE "keep"]])
        PROVE  TypeOK' /\ OperandsFit'
    <3> DEFINE plan == [e \in Entities |-> IF e \in Inventory(t) THEN choice[e] ELSE "keep"]
               r == [task[t] EXCEPT
                       !.step = IF Inventory(t) = {} THEN "purge" ELSE "resolve",
                       !.left = Inventory(t),
                       !.plan = plan]
    <3>1. Inventory(t) \in SUBSET Entities
      BY DEF Inventory, LiveEntities
    <3>2. plan \in [Entities -> Resolutions]
      BY DEF Heirs, LiveKeys, Resolutions
    <3>3. \A e \in Inventory(t) : plan[e] # "keep"
      BY <3>1, IdAssumption DEF Heirs, LiveKeys, Ids
    <3>4. r \in Task /\ Fits(r, used')
      <4> HIDE DEF plan
      <4> QED BY <1>19, <3>1, <3>2, <3>3 DEF Plan, Task, Steps, Fits
    <3> QED BY <2>1, <2>3, <3>4, TypeFrame
  <2> QED BY <1>19, <2>2, <2>3 DEF Plan
<1>20. CASE Resolve(t)
  <2>1. PICK e \in task[t].left :
           /\ Become(t, [task[t] EXCEPT
                 !.left = @ \ {e},
                 !.step = IF task[t].left = {e} THEN "purge" ELSE "resolve"])
           /\ \/ UNCHANGED owner /\ rows' \subseteq rows
              \/ /\ owner' = IF e \in rows THEN [owner EXCEPT ![e] = task[t].plan[e]] ELSE owner
                 /\ task[t].plan[e] # "delete" /\ UNCHANGED rows
    BY ZenonT(90), <1>20 DEF Resolve
  <2> DEFINE r == [task[t] EXCEPT
                     !.left = @ \ {e},
                     !.step = IF task[t].left = {e} THEN "purge" ELSE "resolve"]
  <2>2. r \in Task /\ Fits(r, used')
    BY ZenonT(90), <1>20 DEF Resolve, Task, Steps, Fits
  <2>3. RowsOK' /\ used \subseteq used'
    BY <1>20, <2>1 DEF Resolve, RowsOK, Task, Fits, Resolutions, Owners
  <2> QED BY <2>1, <2>2, <2>3, TypeFrame
<1>21. CASE FindEntity(t)
  <2> DEFINE r == [task[t] EXCEPT !.step = "drop"]
  <2>1. Become(t, r) \/ Become(t, Idle)
    BY <1>21 DEF FindEntity
  <2>2. r \in Task /\ Fits(r, used')
    BY <1>21 DEF FindEntity, Task, Steps, Fits
  <2>3. RowsOK' /\ used \subseteq used'
    BY <1>21 DEF FindEntity, RowsOK
  <2> QED BY <2>1, <2>2, <2>3, TypeFrame
<1> QED BY <1>1, <1>2, <1>3, <1>4, <1>5, <1>6, <1>7, <1>8, <1>9, <1>10, <1>11, <1>12,
     <1>13, <1>14, <1>15, <1>16, <1>17, <1>18, <1>19, <1>20, <1>21 DEF Serve

\* A step of task t moves no other task.
LEMMA OthersRest ==
    ASSUME TypeOK, NEW t \in Tasks, Serve(t) \/ Abandon(t)
    PROVE  \A u \in Tasks \ {t} : task'[u] = task[u]
<1>1. \E r : Become(t, r)
  BY DEF Serve, Abandon, Goto, Done, RequestKey, InsertKey, RequestScopes, FindEdited,
     WriteScopes, RequestDeletion, FindDoomed, Walk, Plan, Resolve, Purge, RequestGroup,
     InsertGroup, RequestHook, InsertHook, RequestDrop, FindEntity, Drop, RequestOwner,
     Assign
<1> QED BY <1>1 DEF Become, TypeOK

\* Planning ends the request or fixes what is to be deleted, without the caller.
LEMMA PlanResult ==
    ASSUME TypeOK, NEW t \in Tasks, Plan(t)
    PROVE  \/ task'[t] = Idle
           \/ /\ task'[t].step \in {"resolve", "purge"}
              /\ task'[t].by = task[t].by /\ task[t].by \notin task[t].doomed
              /\ task'[t].doomed = task[t].doomed
              /\ task'[t].frontier = task[t].frontier
<1>1. CASE Done(t)
  BY <1>1 DEF Done, Become, TypeOK
<1>2. ASSUME NEW plan, NEW step \in {"resolve", "purge"}, NEW left,
             Become(t, [task[t] EXCEPT !.step = step, !.left = left, !.plan = plan])
      PROVE  /\ task'[t].step = step
             /\ task'[t].by = task[t].by /\ task'[t].doomed = task[t].doomed
             /\ task'[t].frontier = task[t].frontier
  BY <1>2 DEF Become, TypeOK, Task
<1>3. CASE By(t) \notin task[t].doomed /\ ~Done(t)
  <2>1. PICK choice \in [Inventory(t) -> Heirs(t) \cup {"delete"}] :
           Become(t, [task[t] EXCEPT
                 !.step = IF Inventory(t) = {} THEN "purge" ELSE "resolve",
                 !.left = Inventory(t),
                 !.plan = [e \in Entities |-> IF e \in Inventory(t) THEN choice[e]
                                                                    ELSE "keep"]])
    BY <1>3 DEF Plan
  <2> DEFINE plan == [e \in Entities |-> IF e \in Inventory(t) THEN choice[e] ELSE "keep"]
             step == IF Inventory(t) = {} THEN "purge" ELSE "resolve"
  <2>2. step \in {"resolve", "purge"}
    OBVIOUS
  <2>3. Become(t, [task[t] EXCEPT !.step = step, !.left = Inventory(t), !.plan = plan])
    BY <2>1
  <2> HIDE DEF plan, step
  <2> QED BY <1>2, <1>3, <2>2, <2>3 DEF By
<1> QED BY <1>1, <1>3 DEF Plan

\* The steps that write no scopes and lead to no write of scopes.
Quiet(t) ==
    /\ UNCHANGED <<scopes, granted>>
    /\ rows' \cap Keys \subseteq rows
    /\ task'[t].step \notin {"insertKey", "writeScopes"}

LEMMA QuietSteps ==
    ASSUME TypeOK, NEW t \in Tasks, Serve(t) \/ Abandon(t)
    PROVE  Quiet(t) \/ RequestKey(t) \/ InsertKey(t) \/ FindEdited(t) \/ WriteScopes(t)
<1> USE DEF Quiet, Goto, Done, Become, TypeOK, At
<1> task[t] \in Task /\ Idle \in Task /\ Idle.step = "idle"
  BY IdleFits
<1>1. CASE Abandon(t)
  BY <1>1 DEF Abandon
<1>2. CASE RequestScopes(t)
  BY <1>2 DEF RequestScopes, Authenticate, Task
<1>3. CASE RequestDeletion(t)
  BY <1>3 DEF RequestDeletion, Authenticate, Task
<1>4. CASE FindDoomed(t)
  BY ZenonT(90), <1>4 DEF FindDoomed, Task
<1>5. CASE Walk(t)
  BY <1>5 DEF Walk, Task
<1>6. CASE Plan(t)
  BY <1>6, PlanResult DEF Plan
<1>7. CASE Resolve(t)
  BY <1>7 DEF Resolve, Task
<1>8. CASE Purge(t)
  BY <1>8 DEF Purge
<1>9. CASE RequestGroup(t)
  BY <1>9 DEF RequestGroup, Authenticate, Task
<1>10. CASE InsertGroup(t)
  BY <1>10, IdAssumption DEF InsertGroup, Entities
<1>11. CASE RequestHook(t)
  BY <1>11 DEF RequestHook, Authenticate, Task
<1>12. CASE InsertHook(t)
  BY <1>12, IdAssumption DEF InsertHook, Entities
<1>13. CASE RequestDrop(t)
  BY <1>13 DEF RequestDrop, Authenticate, Task
<1>14. CASE FindEntity(t)
  BY <1>14 DEF FindEntity, Task
<1>15. CASE Drop(t)
  BY <1>15 DEF Drop
<1>16. CASE RequestOwner(t)
  BY <1>16 DEF RequestOwner, Authenticate, Task
<1>17. CASE Assign(t)
  BY <1>17 DEF Assign
<1> QED
  BY <1>1, <1>2, <1>3, <1>4, <1>5, <1>6, <1>7, <1>8, <1>9, <1>10, <1>11, <1>12, <1>13,
     <1>14, <1>15, <1>16, <1>17 DEF Serve

-----------------------------------------------------------------------------
(* Scopes *)

LEMMA ScopesStep ==
    ASSUME TypeOK, OperandsFit, ScopesTraceToMaster, ScopesWarranted,
           NEW t \in Tasks, Serve(t) \/ Abandon(t)
    PROVE  ScopesTraceToMaster' /\ ScopesWarranted'
<1> USE DEF At, By, LiveKeys
<1>1. \A u \in Tasks \ {t} : task'[u] = task[u]
  BY OthersRest
<1>2. TypeOK'
  BY TypeStep
<1>3. CASE Quiet(t)
  BY <1>1, <1>3 DEF Quiet, ScopesTraceToMaster, ScopesWarranted
<1>4. CASE RequestKey(t)
  <2>1. /\ UNCHANGED <<rows, scopes, granted>>
        /\ task'[t].step = "insertKey"
        /\ task'[t].by # Master => task'[t].give = {}
    BY <1>4, IdleFits DEF RequestKey, Authenticate, Become, TypeOK, Task
  <2> QED BY <1>1, <2>1 DEF ScopesTraceToMaster, ScopesWarranted
<1>5. CASE InsertKey(t)
  <2>1. PICK k \in Keys \ used :
           /\ rows' = rows \cup {k}
           /\ scopes' = [scopes EXCEPT ![k] = task[t].give]
           /\ granted' = [granted EXCEPT ![k] = IF task[t].by = Master THEN task[t].give
                                                                      ELSE {}]
    BY <1>5 DEF InsertKey
  <2>2. /\ task[t].by # Master => task[t].give = {}
        /\ task'[t] = Idle
    BY <1>5 DEF InsertKey, ScopesWarranted, Done, Become, TypeOK
  <2>3. ScopesTraceToMaster'
    BY <2>1, <2>2 DEF ScopesTraceToMaster, TypeOK
  <2>4. ScopesWarranted'
    BY <1>1, <2>1, <2>2, IdleFits DEF ScopesWarranted, OperandsFit, Fits, TypeOK
  <2> QED BY <2>3, <2>4
<1>6. CASE FindEdited(t)
  <2>1. CASE Done(t)
    <3>1. task'[t] = Idle
      BY <2>1 DEF Done, Become, TypeOK
    <3> QED BY <1>1, <1>6, <3>1, IdleFits
        DEF FindEdited, ScopesTraceToMaster, ScopesWarranted
  <2>2. CASE Goto(t, "writeScopes") /\ task[t].on \in rows \cap Keys /\ MayElevate(t)
    <3>1. task'[t] = [task[t] EXCEPT !.step = "writeScopes"] /\ task[t] \in Task
      BY <2>2 DEF Goto, Become, TypeOK
    <3>2. /\ task'[t].step = "writeScopes" /\ task'[t].by = task[t].by
          /\ task'[t].on = task[t].on /\ task'[t].give = task[t].give
      BY <3>1 DEF Task
    <3> QED BY <1>1, <1>6, <2>2, <3>2
        DEF FindEdited, MayElevate, ScopesTraceToMaster, ScopesWarranted
  <2> QED BY <1>6, <2>1, <2>2 DEF FindEdited
<1>7. CASE WriteScopes(t)
  <2>1. task'[t] = Idle /\ UNCHANGED rows
    BY <1>7 DEF WriteScopes, Done, Become, TypeOK
  <2>2. CASE UNCHANGED <<scopes, granted>>
    BY <1>1, <2>1, <2>2, IdleFits DEF ScopesTraceToMaster, ScopesWarranted
  <2>3. CASE /\ task[t].on \in rows \cap Keys
             /\ scopes' = [scopes EXCEPT ![task[t].on] = (@ \ task[t].take) \cup task[t].give]
             /\ granted' = [granted EXCEPT ![task[t].on] =
                               IF task[t].by = Master THEN @ \cup task[t].give ELSE @]
    <3>1. task[t].by # Master => task[t].give \subseteq granted[task[t].on]
      BY <1>7 DEF WriteScopes, ScopesWarranted
    <3>2. ScopesTraceToMaster'
      BY <2>1, <2>3, <3>1 DEF ScopesTraceToMaster, TypeOK
    <3>3. ScopesWarranted'
      BY <1>1, <2>1, <2>3, IdleFits DEF ScopesWarranted, OperandsFit, Fits, TypeOK
    <3> QED BY <3>2, <3>3
  <2> QED BY <1>7, <2>2, <2>3 DEF WriteScopes
<1> QED BY <1>3, <1>4, <1>5, <1>6, <1>7, QuietSteps

-----------------------------------------------------------------------------
(* Lineage *)

\* A new key's id is no recorded parent, so it closes no cycle.
LEMMA LineageStep ==
    ASSUME TypeOK, OperandsFit, ParentsUsed, LineageIsForest,
           NEW t \in Tasks, Serve(t) \/ Abandon(t)
    PROVE  ParentsUsed' /\ LineageIsForest'
<1>1. CASE InsertKey(t)
  <2>1. PICK k \in Keys \ used : /\ used' = used \cup {k}
                                /\ parent' = [parent EXCEPT ![k] = task[t].by]
    BY <1>1 DEF InsertKey, By
  <2>2. task[t].by \in used \cup {Master} /\ k # Master /\ k \notin used
    BY IdAssumption DEF OperandsFit, Fits, Ids
  <2>3. ParentsUsed'
    BY <2>1, <2>2 DEF ParentsUsed, TypeOK
  <2>4. ASSUME NEW S \in SUBSET (used' \cap Keys), S # {}
        PROVE  \E j \in S : parent'[j] \notin S
    <3> DEFINE T == S \ {k}
    <3>1. CASE T = {}
      BY <2>1, <2>2, <2>4, <3>1 DEF TypeOK
    <3>2. CASE T # {}
      <4>1. T \in SUBSET (used \cap Keys)
        BY <2>1, <2>4
      <4>2. PICK j \in T : parent[j] \notin T
        BY <3>2, <4>1 DEF LineageIsForest
      <4>3. parent[j] # k /\ parent'[j] = parent[j]
        BY <2>1, <2>2, <4>1, <4>2 DEF ParentsUsed, TypeOK
      <4> QED BY <4>2, <4>3
    <3> QED BY <3>1, <3>2
  <2> QED BY <2>3, <2>4 DEF LineageIsForest
<1>2. CASE ~InsertKey(t)
  <2>1. UNCHANGED parent /\ used' \cap Keys = used \cap Keys /\ used \subseteq used'
    BY ZenonT(90), <1>2, IdAssumption DEF Entities, Serve, Abandon, Authenticate, RequestKey,
       RequestScopes, FindEdited, WriteScopes, RequestDeletion, FindDoomed, Walk, Plan,
       Resolve, Purge, RequestGroup, InsertGroup, RequestHook, InsertHook, RequestDrop,
       FindEntity, Drop, RequestOwner, Assign
  <2> QED BY <2>1 DEF ParentsUsed, LineageIsForest
<1> QED BY <1>1, <1>2

\* Descent is settled at creation: later keys do not change it.
LEMMA DescentLasts ==
    ASSUME TypeOK, NEW t \in Tasks, Serve(t) \/ Abandon(t)
    PROVE  \A a, d : Descends(a, d) => Descends(a, d)'
<1>1. \A k \in used \cap Keys : k \in used' /\ parent'[k] = parent[k]
  <2>1. CASE InsertKey(t)
    BY <2>1 DEF InsertKey, TypeOK
  <2>2. CASE ~InsertKey(t)
    BY <2>2 DEF Serve, Abandon, Authenticate, RequestKey,
       RequestScopes, FindEdited, WriteScopes, RequestDeletion, FindDoomed, Walk, Plan,
       Resolve, Purge, RequestGroup, InsertGroup, RequestHook, InsertHook, RequestDrop,
       FindEntity, Drop, RequestOwner, Assign
  <2> QED BY <2>1, <2>2
<1> QED BY <1>1 DEF Descends

\* The master is every key's ancestor: a set of keys that no chain ties to it would
\* have no member whose parent lies outside.
LEMMA MasterIsRoot ==
    ASSUME TypeOK, ParentsUsed, LineageIsForest, NEW d \in used \cap Keys
    PROVE  Descends(Master, d)
<1> SUFFICES ASSUME NEW S \in SUBSET AllKeys, Master \in S,
                    \A k \in used \cap Keys : parent[k] \in S => k \in S,
                    d \notin S
             PROVE  FALSE
  BY DEF Descends
<1> DEFINE U == (used \cap Keys) \ S
<1>1. PICK j \in U : parent[j] \notin U
  BY DEF LineageIsForest
<1>2. parent[j] \in S
  BY <1>1 DEF ParentsUsed, TypeOK, AllKeys
<1> QED BY <1>1, <1>2

LEMMA AdministeredDescends ==
    ASSUME TypeOK, ParentsUsed, LineageIsForest,
           NEW a, NEW d \in LiveKeys, CanAdminister(a, d)
    PROVE  Descends(a, d)
<1>1. CASE a = Master
  BY <1>1, MasterIsRoot DEF TypeOK, LiveKeys
<1>2. CASE a # Master
  <2> SUFFICES ASSUME NEW S \in SUBSET AllKeys, a \in S,
                      \A k \in used \cap Keys : parent[k] \in S => k \in S
               PROVE  d \in S
    BY DEF Descends
  <2>1. Daughters(S) \subseteq S
    BY DEF Daughters, LiveKeys, TypeOK
  <2> QED BY <1>2, <2>1 DEF CanAdminister
<1> QED BY <1>1, <1>2

LEMMA DoomedStep ==
    ASSUME TypeOK, OperandsFit, ParentsUsed, LineageIsForest, DoomedDescend,
           NEW t \in Tasks, Serve(t) \/ Abandon(t)
    PROVE  DoomedDescend'
<1> USE DEF At, By
<1> DEFINE Fated(u) ==
      /\ task[u].frontier \subseteq task[u].doomed
      /\ task[u].doomed \subseteq used
      /\ \A d \in task[u].doomed : Descends(task[u].by, d)
      /\ task[u].step \in {"resolve", "purge"} => task[u].by \notin task[u].doomed
<1>1. used \subseteq used'
  BY DEF Serve, Abandon, Authenticate, RequestKey, InsertKey,
     RequestScopes, FindEdited, WriteScopes, RequestDeletion, FindDoomed, Walk, Plan,
     Resolve, Purge, RequestGroup, InsertGroup, RequestHook, InsertHook, RequestDrop,
     FindEntity, Drop, RequestOwner, Assign
<1>2. \A u \in Tasks \ {t} : Fated(u)'
  <2> SUFFICES ASSUME NEW u \in Tasks \ {t} PROVE Fated(u)'
    OBVIOUS
  <2>1. task'[u] = task[u] /\ Fated(u)
    BY OthersRest DEF DoomedDescend
  <2>2. \A d \in task[u].doomed : Descends(task[u].by, d)'
    BY <2>1, DescentLasts
  <2> QED BY <1>1, <2>1, <2>2
<1>3. Fated(t)'
  <2>0. Fated(t) /\ task[t] \in Task
    BY DEF DoomedDescend, TypeOK
  <2> PICK by : by = task[t].by
    OBVIOUS
  <2> PICK doomed : doomed = task[t].doomed
    OBVIOUS
  <2>1. \A d \in doomed : Descends(by, d)'
    BY <2>0, DescentLasts
  <2>2. CASE task'[t].doomed = {} /\ task'[t].frontier = {}
    BY <2>2
  <2>3. CASE /\ task'[t].doomed = task[t].doomed /\ task'[t].frontier = task[t].frontier
             /\ task'[t].by = task[t].by
             /\ \/ task'[t].step \notin {"resolve", "purge"}
                \/ task[t].step = "resolve"
                \/ task[t].by \notin task[t].doomed
    BY <1>1, <2>0, <2>1, <2>3
  <2>4. CASE FindDoomed(t)
    <3>1. CASE Done(t)
      BY <2>2, <3>1, IdleFits DEF Done, Become, TypeOK
    <3>2. CASE ~Done(t)
      <4>1. /\ task[t].on \in LiveKeys /\ CanAdminister(task[t].by, task[t].on)
            /\ task'[t] = [task[t] EXCEPT !.step = "walk", !.doomed = {task[t].on},
                                          !.frontier = {task[t].on}]
            /\ used' = used
        BY <2>4, <3>2 DEF FindDoomed, Become, TypeOK
      <4>2. /\ task'[t].step = "walk" /\ task'[t].by = task[t].by
            /\ task'[t].doomed = {task[t].on} /\ task'[t].frontier = {task[t].on}
        BY <2>0, <4>1 DEF Task
      <4> PICK k : k = task[t].on
        OBVIOUS
      <4>3. Descends(by, k)
        BY <4>1, AdministeredDescends
      <4>4. Descends(by, k)'
        BY <4>3, DescentLasts
      <4> QED BY <4>1, <4>2, <4>4 DEF LiveKeys, TypeOK
    <3> QED BY <3>1, <3>2
  <2>5. CASE Walk(t)
    <3> DEFINE next == Daughters(task[t].frontier) \ task[t].doomed
               step == IF next = {} THEN "plan" ELSE "walk"
    <3>1. /\ task'[t] = [task[t] EXCEPT !.step = step, !.frontier = next,
                                        !.doomed = @ \cup next]
          /\ UNCHANGED <<used, parent>>
      BY <2>5 DEF Walk, Become, TypeOK
    <3>2. next \subseteq used \cap Keys /\ \A k \in next : parent[k] \in task[t].frontier
      BY DEF Daughters, LiveKeys, TypeOK
    <3>3. step \notin {"resolve", "purge"}
      OBVIOUS
    <3> HIDE DEF next, step
    <3>4. /\ task'[t].step = step /\ task'[t].by = task[t].by
          /\ task'[t].doomed = task[t].doomed \cup next /\ task'[t].frontier = next
      BY <2>0, <3>1 DEF Task
    <3> PICK N : N = next
      OBVIOUS
    <3>5. \A k \in N : Descends(by, k)
      BY <2>0, <3>2 DEF Descends
    <3>6. \A k \in N : Descends(by, k)'
      BY <3>5, DescentLasts
    <3> QED BY <1>1, <2>0, <2>1, <3>2, <3>3, <3>4, <3>6 DEF TypeOK
  <2>6. CASE Plan(t)
    BY <2>2, <2>3, <2>6, PlanResult, IdleFits
  <2>7. CASE Resolve(t)
    <3>1. /\ task'[t].doomed = task[t].doomed /\ task'[t].frontier = task[t].frontier
          /\ task'[t].by = task[t].by /\ task[t].step = "resolve"
      BY <2>0, <2>7 DEF Resolve, Become, Task, TypeOK
    <3> QED BY <2>3, <3>1
  <2>8. CASE FindEdited(t)
    BY <2>0, <2>2, <2>3, <2>8, IdleFits DEF FindEdited, Goto, Done, Become, TypeOK, Task
  <2>9. CASE FindEntity(t)
    BY <2>0, <2>2, <2>3, <2>9, IdleFits DEF FindEntity, Goto, Done, Become, TypeOK, Task
  <2>10. CASE \/ InsertKey(t) \/ WriteScopes(t) \/ Purge(t) \/ InsertGroup(t)
              \/ InsertHook(t) \/ Drop(t) \/ Assign(t) \/ Abandon(t)
    BY <2>2, <2>10, IdleFits DEF InsertKey, WriteScopes, Purge, InsertGroup, InsertHook,
       Drop, Assign, Abandon, Done, Become, TypeOK
  <2>11. CASE RequestKey(t)
    <3>1. task'[t].doomed = {} /\ task'[t].frontier = {}
      BY <2>11, IdleFits DEF RequestKey, Become, TypeOK, Task
    <3> QED BY <2>2, <3>1
  <2>12. CASE RequestScopes(t)
    <3>1. task'[t].doomed = {} /\ task'[t].frontier = {}
      BY <2>12, IdleFits DEF RequestScopes, Become, TypeOK, Task
    <3> QED BY <2>2, <3>1
  <2>13. CASE RequestDeletion(t)
    <3>1. task'[t].doomed = {} /\ task'[t].frontier = {}
      BY <2>13, IdleFits DEF RequestDeletion, Become, TypeOK, Task
    <3> QED BY <2>2, <3>1
  <2>14. CASE RequestGroup(t)
    <3>1. task'[t].doomed = {} /\ task'[t].frontier = {}
      BY <2>14, IdleFits DEF RequestGroup, Become, TypeOK, Task
    <3> QED BY <2>2, <3>1
  <2>15. CASE RequestHook(t)
    <3>1. task'[t].doomed = {} /\ task'[t].frontier = {}
      BY <2>15, IdleFits DEF RequestHook, Become, TypeOK, Task
    <3> QED BY <2>2, <3>1
  <2>16. CASE RequestDrop(t)
    <3>1. task'[t].doomed = {} /\ task'[t].frontier = {}
      BY <2>16, IdleFits DEF RequestDrop, Become, TypeOK, Task
    <3> QED BY <2>2, <3>1
  <2>17. CASE RequestOwner(t)
    <3>1. task'[t].doomed = {} /\ task'[t].frontier = {}
      BY <2>17, IdleFits DEF RequestOwner, Become, TypeOK, Task
    <3> QED BY <2>2, <3>1
  <2> QED
    BY <2>4, <2>5, <2>6, <2>7, <2>8, <2>9, <2>10, <2>11, <2>12,
       <2>13, <2>14, <2>15, <2>16, <2>17 DEF Serve
<1> QED BY SMTT(90), <1>2, <1>3 DEF DoomedDescend

-----------------------------------------------------------------------------
(* The invariant and its theorems *)

LEMMA IInvInit == Init => IInv
<1> SUFFICES ASSUME Init PROVE IInv
  OBVIOUS
<1>1. TypeOK /\ OperandsFit
  BY TypeInit
<1>2. ParentsUsed /\ LineageIsForest /\ ScopesTraceToMaster
  BY DEF Init, ParentsUsed, LineageIsForest, ScopesTraceToMaster, LiveKeys
<1>3. DoomedDescend /\ ScopesWarranted
  BY IdleFits DEF Init, DoomedDescend, ScopesWarranted, At, By
<1> QED BY <1>1, <1>2, <1>3 DEF IInv

LEMMA IInvStep == IInv /\ [Next]_vars => IInv'
<1> SUFFICES ASSUME IInv, [Next]_vars PROVE IInv'
  OBVIOUS
<1>1. CASE UNCHANGED vars
  BY <1>1 DEF vars, IInv, TypeOK, OperandsFit, Fits, ParentsUsed, LineageIsForest,
     DoomedDescend, Descends, ScopesTraceToMaster, ScopesWarranted, LiveKeys, At, By
<1>2. ASSUME NEW t \in Tasks, Serve(t) \/ Abandon(t) PROVE IInv'
  <2>1. TypeOK' /\ OperandsFit'
    BY <1>2, TypeStep DEF IInv
  <2>2. ParentsUsed' /\ LineageIsForest'
    BY <1>2, LineageStep DEF IInv
  <2>3. DoomedDescend'
    BY <1>2, DoomedStep DEF IInv
  <2>4. ScopesTraceToMaster' /\ ScopesWarranted'
    BY <1>2, ScopesStep DEF IInv
  <2> QED BY <2>1, <2>2, <2>3, <2>4 DEF IInv
<1> QED BY <1>1, <1>2 DEF Next

\* Every reachable state satisfies the strengthened invariant, for any number of
\* keys, entities and handlers.
THEOREM Invariance == Spec => []IInv
BY IInvInit, IInvStep, PTL DEF Spec

\* Every reachable state is well typed: in particular owner_key_id never names the
\* master (resource_owner, resolve_owner_assignment).
THEOREM TypeCorrect == Spec => []TypeOK
<1>1. IInv => TypeOK
  BY DEF IInv
<1> QED BY <1>1, Invariance, PTL

\* Through any interleaving of creations and deletions parent_key_id forms no
\* cycle, so collect_key_subtree's walk follows a tree (delete_api_key).
THEOREM LineageAcyclic == Spec => []LineageIsForest
<1>1. IInv => LineageIsForest
  BY DEF IInv
<1> QED BY <1>1, Invariance, PTL

\* No race gives a key a global scope the master never gave it (R4,
\* guard_scope_elevation).
THEOREM ScopesFromMaster == Spec => []ScopesTraceToMaster
<1>1. IInv => ScopesTraceToMaster
  BY SMTT(90) DEF IInv
<1> QED BY <1>1, Invariance, PTL

\* Only the purge at the end of DELETE /keys removes key rows.
LEMMA OnlyPurgeRemovesKeys ==
    ASSUME TypeOK, OperandsFit, NEW t \in Tasks, Serve(t) \/ Abandon(t),
           NEW k \in LiveKeys \ rows'
    PROVE  Purge(t)
<1> k \in Keys /\ k \in rows /\ k \notin rows' /\ k \notin Entities
  BY IdAssumption DEF LiveKeys
<1>1. ~Resolve(t)
  <2> SUFFICES ASSUME Resolve(t) PROVE FALSE
    OBVIOUS
  <2>1. PICK e \in task[t].left : rows' = rows \ Dropped(e) \/ rows' = rows
    BY DEF Resolve
  <2>2. e \in Entities
    BY DEF TypeOK, Task
  <2> QED BY <2>1, <2>2 DEF Dropped, Entities
<1>2. ~Drop(t)
  BY DEF Drop, Dropped, OperandsFit, Fits, Entities, At
<1>3. ~InsertKey(t) /\ ~InsertGroup(t) /\ ~InsertHook(t)
  BY DEF InsertKey, InsertGroup, InsertHook
<1> QED
  BY <1>1, <1>2, <1>3 DEF Serve, Abandon, Authenticate, RequestKey, RequestScopes,
     FindEdited, WriteScopes, RequestDeletion, FindDoomed, Walk, Plan, RequestGroup,
     RequestHook, RequestDrop, FindEntity, RequestOwner, Assign

\* A key's row is only ever removed by a key that created it, at some remove, in
\* every interleaving (find_administrable_key, delete_api_key).
THEOREM AncestorsDelete == Spec => OnlyAncestorsDelete
<1>1. ASSUME IInv, [Next]_vars, NEW k \in LiveKeys \ rows'
      PROVE  \E t \in Tasks : /\ Acts(t) /\ At(t, "purge")
                              /\ k # By(t) /\ Descends(By(t), k)
  <2>1. PICK t \in Tasks : Serve(t) \/ Abandon(t)
    BY <1>1 DEF Next, vars, LiveKeys
  <2>2. Purge(t)
    BY <1>1, <2>1, OnlyPurgeRemovesKeys DEF IInv
  <2>3. k \in task[t].doomed
    BY <1>1, <2>2 DEF Purge, LiveKeys
  <2>4. k # By(t) /\ Descends(By(t), k)
    BY <1>1, <2>2, <2>3 DEF IInv, DoomedDescend, Purge, At
  <2>5. Acts(t)
    BY <1>1, <2>2, IdleFits DEF IInv, TypeOK, Purge, Acts, At, Done, Become
  <2> QED BY <2>2, <2>4, <2>5 DEF Purge
<1>2. IInv /\ [Next]_vars =>
        [\A k \in LiveKeys \ rows' :
            \E t \in Tasks : /\ Acts(t) /\ At(t, "purge")
                             /\ k # By(t) /\ Descends(By(t), k)]_vars
  BY <1>1
<1> QED BY <1>2, Invariance, PTL DEF Spec, OnlyAncestorsDelete

-----------------------------------------------------------------------------
(* Deletion of a subtree, alone and in company.  A hypothesis names the overlap *)
(* of handlers that would spoil the property; any other overlap is allowed.     *)

Creating == {"insertKey", "insertGroup", "insertHook", "assign"}
Deleting == {"walk", "plan", "resolve", "purge"}

\* No DELETE /keys between its walk and its purge overlaps a handler about to
\* create a row or hand one over, nor another such DELETE.
DeletionsApart ==
    \A t, u \in Tasks :
        t # u /\ task[t].step \in Deleting => task[u].step \notin Creating \cup Deleting

\* The keys a handler is about to write as owner or parent exist; its walk has
\* every daughter of the keys it is done with; what the doomed keys own is on the
\* list, with a live heir or a deletion.
Sound(r) ==
    /\ r.step \in {"insertKey", "insertGroup", "insertHook"} =>
          r.by \in LiveKeys \cup {Master}
    /\ r.step = "assign" => r.to \in LiveKeys \cup {"unowned"}
    /\ r.step \in Deleting => Daughters(r.doomed \ r.frontier) \subseteq r.doomed
    /\ r.step \in {"plan", "resolve", "purge"} => r.frontier = {}
    /\ r.step \in {"resolve", "purge"} =>
          /\ \A e \in LiveEntities : owner[e] \in r.doomed => e \in r.left
          /\ \A e \in r.left : r.plan[e] \in (LiveKeys \ r.doomed) \cup {"delete"}
    /\ r.step = "purge" => r.left = {}

AllSound == \A t \in Tasks : Sound(task[t])

CInv == OwnersExist /\ DaughtersHaveParents /\ AllSound

\* The steps that insert no row, hand nothing over and delete no key.
LEMMA ModestSteps ==
    ASSUME TypeOK, OperandsFit, NEW t \in Tasks, Serve(t) \/ Abandon(t),
           ~InsertKey(t), ~InsertGroup(t), ~InsertHook(t), ~Assign(t), ~Resolve(t), ~Purge(t)
    PROVE  /\ rows' \subseteq rows /\ LiveKeys' = LiveKeys
           /\ UNCHANGED <<owner, parent, group>>
<1>1. CASE Drop(t)
  <2>1. task[t].on \in Entities
    BY <1>1 DEF Drop, At, OperandsFit, Fits
  <2>2. Dropped(task[t].on) \cap Keys = {}
    BY <2>1, IdAssumption DEF Dropped, Entities
  <2> QED BY <1>1, <2>2 DEF Drop, LiveKeys
<1>2. CASE ~Drop(t)
  <2>1. UNCHANGED <<rows, owner, parent, group>>
    BY <1>2 DEF Serve, Abandon, Authenticate, RequestKey, RequestScopes, FindEdited,
       WriteScopes, RequestDeletion, FindDoomed, Walk, Plan, RequestGroup, RequestHook,
       RequestDrop, FindEntity, RequestOwner
  <2> QED BY <2>1 DEF LiveKeys
<1> QED BY <1>1, <1>2

LEMMA SoundQuiet ==
    ASSUME NEW r, Sound(r), LiveKeys' = LiveKeys, rows' \subseteq rows,
           UNCHANGED <<owner, parent>>
    PROVE  Sound(r)'
BY SMTT(60) DEF Sound, Daughters, LiveEntities

LEMMA SoundGrows ==
    ASSUME NEW r, Sound(r), r.step \notin Deleting, LiveKeys \subseteq LiveKeys'
    PROVE  Sound(r)'
BY DEF Sound, Deleting

LEMMA SoundAtRest ==
    ASSUME NEW r, r.step \notin Creating \cup Deleting
    PROVE  Sound(r)'
BY DEF Sound, Creating, Deleting

\* What a step does to the other handlers.
LEMMA OthersSound ==
    ASSUME TypeOK, OperandsFit, AllSound, DeletionsApart,
           NEW t \in Tasks, Serve(t) \/ Abandon(t), NEW u \in Tasks \ {t}
    PROVE  Sound(task[u])'
<1>1. PICK r : r = task[u]
  OBVIOUS
<1>2. task'[u] = r /\ Sound(r)
  BY <1>1, OthersRest DEF AllSound
<1>3. SUFFICES Sound(r)'
  BY <1>2
<1>4. CASE InsertKey(t) \/ InsertGroup(t) \/ InsertHook(t) \/ Assign(t)
  <2>1. task[t].step \in Creating /\ rows \subseteq rows'
    BY <1>4 DEF InsertKey, InsertGroup, InsertHook, Assign, At, Creating
  <2>2. r.step \notin Deleting
    BY <1>1, <2>1 DEF DeletionsApart
  <2> QED BY <1>2, <2>1, <2>2, SoundGrows DEF LiveKeys
<1>5. CASE Resolve(t) \/ Purge(t)
  <2>1. task[t].step \in Deleting
    BY <1>5 DEF Resolve, Purge, At, Deleting
  <2>2. r.step \notin Creating \cup Deleting
    BY <1>1, <2>1 DEF DeletionsApart
  <2> QED BY <2>2, SoundAtRest
<1>6. CASE ~(\/ InsertKey(t) \/ InsertGroup(t) \/ InsertHook(t) \/ Assign(t)
             \/ Resolve(t) \/ Purge(t))
  BY <1>2, <1>6, ModestSteps, SoundQuiet
<1> QED BY <1>4, <1>5, <1>6

\* Where each handler stands after its step.
LEMMA StepAfter ==
    ASSUME TypeOK, NEW t \in Tasks
    PROVE  /\ RequestKey(t) => task'[t].step = "insertKey"
           /\ RequestScopes(t) => task'[t].step = "findEdited"
           /\ RequestDeletion(t) => task'[t].step = "findDoomed"
           /\ RequestGroup(t) => task'[t].step = "insertGroup"
           /\ RequestHook(t) => task'[t].step = "insertHook"
           /\ RequestDrop(t) => task'[t].step = "findEntity"
           /\ RequestOwner(t) => task'[t].step = "assign"
           /\ FindEdited(t) => task'[t].step \in {"writeScopes", "idle"}
           /\ FindEntity(t) => task'[t].step \in {"drop", "idle"}
           /\ FindDoomed(t) => task'[t].step \in {"walk", "idle"}
           /\ Walk(t) => task'[t].step \in {"walk", "plan"}
           /\ \/ InsertKey(t) \/ WriteScopes(t) \/ Purge(t) \/ InsertGroup(t) \/ InsertHook(t)
              \/ Drop(t) \/ Assign(t) \/ Abandon(t)
              => task'[t] = Idle
<1>0. task[t] \in Task /\ \A r : Become(t, r) => task'[t] = r
  BY DEF TypeOK, Become
<1>1. ASSUME RequestKey(t) PROVE task'[t].step = "insertKey"
  <2>1. PICK by \in AllKeys, give \in SUBSET Scopes :
           Become(t, [Idle EXCEPT !.step = "insertKey", !.by = by, !.give = give])
    BY <1>1 DEF RequestKey
  <2>2. task'[t] = [Idle EXCEPT !.step = "insertKey", !.by = by, !.give = give]
    BY <1>0, <2>1
  <2> QED BY SMTT(60), <2>2 DEF Idle
<1>2. ASSUME RequestDeletion(t) PROVE task'[t].step = "findDoomed"
  <2>1. PICK by \in AllKeys, k \in Keys :
           Become(t, [Idle EXCEPT !.step = "findDoomed", !.by = by, !.on = k])
    BY <1>2 DEF RequestDeletion
  <2>2. task'[t] = [Idle EXCEPT !.step = "findDoomed", !.by = by, !.on = k]
    BY <1>0, <2>1
  <2> QED BY SMTT(60), <2>2 DEF Idle
<1>3. ASSUME RequestGroup(t) PROVE task'[t].step = "insertGroup"
  <2>1. PICK by \in AllKeys :
           Become(t, [Idle EXCEPT !.step = "insertGroup", !.by = by])
    BY <1>3 DEF RequestGroup
  <2>2. task'[t] = [Idle EXCEPT !.step = "insertGroup", !.by = by]
    BY <1>0, <2>1
  <2> QED BY SMTT(60), <2>2 DEF Idle
<1>4. ASSUME RequestHook(t) PROVE task'[t].step = "insertHook"
  <2>1. PICK by \in AllKeys, g \in Groups :
           Become(t, [Idle EXCEPT !.step = "insertHook", !.by = by, !.on = g])
    BY <1>4 DEF RequestHook
  <2>2. task'[t] = [Idle EXCEPT !.step = "insertHook", !.by = by, !.on = g]
    BY <1>0, <2>1
  <2> QED BY SMTT(60), <2>2 DEF Idle
<1>5. ASSUME RequestDrop(t) PROVE task'[t].step = "findEntity"
  <2>1. PICK by \in AllKeys, e \in Entities :
           Become(t, [Idle EXCEPT !.step = "findEntity", !.by = by, !.on = e])
    BY <1>5 DEF RequestDrop
  <2>2. task'[t] = [Idle EXCEPT !.step = "findEntity", !.by = by, !.on = e]
    BY <1>0, <2>1
  <2> QED BY SMTT(60), <2>2 DEF Idle
<1>6. ASSUME RequestOwner(t) PROVE task'[t].step = "assign"
  <2>1. PICK e \in LiveEntities, to \in LiveKeys \cup {"unowned"} :
           Become(t, [Idle EXCEPT !.step = "assign", !.on = e, !.to = to])
    BY <1>6 DEF RequestOwner
  <2>2. task'[t] = [Idle EXCEPT !.step = "assign", !.on = e, !.to = to]
    BY <1>0, <2>1
  <2> QED BY SMTT(60), <2>2 DEF Idle
<1>7. ASSUME RequestScopes(t) PROVE task'[t].step = "findEdited"
  <2>1. PICK by \in AllKeys, k \in Keys, give \in SUBSET Scopes, take \in SUBSET Scopes :
           Become(t, [Idle EXCEPT !.step = "findEdited", !.by = by, !.on = k,
                                   !.give = give, !.take = take])
    BY <1>7 DEF RequestScopes
  <2>2. task'[t] = [Idle EXCEPT !.step = "findEdited", !.by = by, !.on = k,
                                !.give = give, !.take = take]
    BY <1>0, <2>1
  <2> QED BY SMTT(60), <2>2 DEF Idle
<1>8. ASSUME FindEdited(t) PROVE task'[t].step \in {"writeScopes", "idle"}
  BY <1>0, <1>8, IdleFits DEF FindEdited, Goto, Done, Become, TypeOK, Task
<1>9. ASSUME FindEntity(t) PROVE task'[t].step \in {"drop", "idle"}
  BY <1>0, <1>9, IdleFits DEF FindEntity, Goto, Done, Become, TypeOK, Task
<1>10. ASSUME FindDoomed(t) PROVE task'[t].step \in {"walk", "idle"}
  BY <1>0, <1>10, IdleFits, ZenonT(90) DEF FindDoomed, Done, Task
<1>11. ASSUME Walk(t) PROVE task'[t].step \in {"walk", "plan"}
  BY <1>0, <1>11 DEF Walk, Become, TypeOK, Task
<1>12. ASSUME \/ InsertKey(t) \/ WriteScopes(t) \/ Purge(t) \/ InsertGroup(t) \/ InsertHook(t)
           \/ Drop(t) \/ Assign(t) \/ Abandon(t)
      PROVE  task'[t] = Idle
  BY <1>0, <1>12 DEF InsertKey, WriteScopes, Purge, InsertGroup, InsertHook, Drop, Assign,
     Abandon, Done
<1> QED BY <1>1, <1>2, <1>3, <1>4, <1>5, <1>6, <1>7, <1>8, <1>9, <1>10, <1>11, <1>12

\* The requests that end, or have written nothing and hold no subtree yet.
LEMMA AtRest ==
    ASSUME TypeOK, NEW t \in Tasks,
           \/ InsertKey(t) \/ RequestScopes(t) \/ FindEdited(t) \/ WriteScopes(t)
           \/ RequestDeletion(t) \/ Purge(t) \/ InsertGroup(t) \/ InsertHook(t)
           \/ RequestDrop(t) \/ FindEntity(t) \/ Drop(t) \/ Assign(t) \/ Abandon(t)
    PROVE  task'[t].step \notin Creating \cup Deleting
<1>1. task'[t].step \in {"findEdited", "findDoomed", "findEntity", "writeScopes", "drop", "idle"}
  BY StepAfter, IdleFits
<1> QED BY <1>1 DEF Creating, Deleting

\* What a handler's own step makes of it.
LEMMA OwnSound ==
    ASSUME TypeOK, OperandsFit, AllSound, NEW t \in Tasks, Serve(t) \/ Abandon(t)
    PROVE  Sound(task[t])'
<1>0. task[t] \in Task /\ Sound(task[t])
  BY DEF TypeOK, AllSound
<1> PICK r : r = task'[t]
  OBVIOUS
<1> SUFFICES Sound(r)'
  OBVIOUS
<1>1. CASE r.step \notin Creating \cup Deleting
  BY <1>1, SoundAtRest
<1>2. CASE RequestKey(t)
  <2>1. PICK by \in LiveKeys \cup {Master}, give \in SUBSET Scopes :
           /\ Become(t, [Idle EXCEPT !.step = "insertKey", !.by = by, !.give = give])
           /\ rows' = rows
    BY <1>2 DEF RequestKey, Authenticate
  <2>2. r = [Idle EXCEPT !.step = "insertKey", !.by = by, !.give = give]
    BY <2>1 DEF Become, TypeOK
  <2>3. r.step = "insertKey" /\ r.by = by
    BY SMTT(60), <2>2 DEF Idle
  <2> QED BY <2>1, <2>3 DEF Sound, Deleting, LiveKeys
<1>3. CASE RequestGroup(t)
  <2>1. PICK by \in LiveKeys \cup {Master} :
           /\ Become(t, [Idle EXCEPT !.step = "insertGroup", !.by = by])
           /\ rows' = rows
    BY <1>3 DEF RequestGroup, Authenticate
  <2>2. r = [Idle EXCEPT !.step = "insertGroup", !.by = by]
    BY <2>1 DEF Become, TypeOK
  <2>3. r.step = "insertGroup" /\ r.by = by
    BY SMTT(60), <2>2 DEF Idle
  <2> QED BY <2>1, <2>3 DEF Sound, Deleting, LiveKeys
<1>4. CASE RequestHook(t)
  <2>1. PICK by \in LiveKeys \cup {Master}, g \in Groups :
           /\ Become(t, [Idle EXCEPT !.step = "insertHook", !.by = by, !.on = g])
           /\ rows' = rows
    BY <1>4 DEF RequestHook, Authenticate
  <2>2. r = [Idle EXCEPT !.step = "insertHook", !.by = by, !.on = g]
    BY <2>1 DEF Become, TypeOK
  <2>3. r.step = "insertHook" /\ r.by = by
    BY SMTT(60), <2>2 DEF Idle
  <2> QED BY <2>1, <2>3 DEF Sound, Deleting, LiveKeys
<1>5. CASE RequestOwner(t)
  <2>1. PICK e \in LiveEntities, to \in LiveKeys \cup {"unowned"} :
           /\ Become(t, [Idle EXCEPT !.step = "assign", !.on = e, !.to = to])
           /\ rows' = rows
    BY <1>5 DEF RequestOwner, Authenticate
  <2>2. r = [Idle EXCEPT !.step = "assign", !.on = e, !.to = to]
    BY <2>1 DEF Become, TypeOK
  <2>3. r.step = "assign" /\ r.to = to
    BY SMTT(60), <2>2 DEF Idle
  <2> QED BY <2>1, <2>3 DEF Sound, Deleting, LiveKeys
<1>6. CASE FindDoomed(t)
  <2>1. CASE Done(t)
    <3>1. r = Idle
      BY <2>1 DEF Done, Become, TypeOK
    <3> QED BY <1>1, <3>1, IdleFits DEF Creating, Deleting
  <2>2. CASE Become(t, [task[t] EXCEPT !.step = "walk", !.doomed = {task[t].on},
                                        !.frontier = {task[t].on}])
    <3>1. r = [task[t] EXCEPT !.step = "walk", !.doomed = {task[t].on},
                              !.frontier = {task[t].on}]
      BY <2>2 DEF Become, TypeOK
    <3>2. r.step = "walk" /\ r.doomed = r.frontier
      BY <1>0, <3>1 DEF Task
    <3> QED BY <3>2 DEF Sound, Daughters
  <2> QED BY <1>6, <2>1, <2>2 DEF FindDoomed
<1>7. CASE Walk(t)
  <2> DEFINE next == Daughters(task[t].frontier) \ task[t].doomed
             step == IF next = {} THEN "plan" ELSE "walk"
  <2>1. /\ r = [task[t] EXCEPT !.step = step, !.frontier = next, !.doomed = @ \cup next]
        /\ At(t, "walk") /\ UNCHANGED <<rows, parent>>
    BY <1>7 DEF Walk, Become, TypeOK
  <2> PICK N : N = next
    OBVIOUS
  <2>2. Daughters(task[t].frontier) \subseteq task[t].doomed \cup N
    OBVIOUS
  <2>3. step = "walk" \/ (step = "plan" /\ N = {})
    OBVIOUS
  <2> HIDE DEF next, step
  <2>4. r.step = step /\ r.doomed = task[t].doomed \cup N /\ r.frontier = N
    BY <1>0, <2>1 DEF Task
  <2>5. Daughters(task[t].doomed \ task[t].frontier) \subseteq task[t].doomed
    BY <1>0, <2>1 DEF Sound, At, Deleting
  <2>6. Daughters(r.doomed \ r.frontier) \subseteq r.doomed
    BY <2>2, <2>4, <2>5 DEF Daughters
  <2>7. Daughters(r.doomed \ r.frontier)' \subseteq r.doomed
    BY <2>1, <2>6 DEF Daughters, LiveKeys
  <2> QED BY <2>3, <2>4, <2>7 DEF Sound
<1>8. CASE Plan(t)
  <2>1. CASE Done(t)
    <3>1. r = Idle
      BY <2>1 DEF Done, Become, TypeOK
    <3> QED BY <1>1, <3>1, IdleFits DEF Creating, Deleting
  <2>2. CASE ~Done(t)
    <3> DEFINE step == IF Inventory(t) = {} THEN "purge" ELSE "resolve"
               plan(choice) == [e \in Entities |-> IF e \in Inventory(t) THEN choice[e]
                                                                         ELSE "keep"]
    <3>1. PICK choice \in [Inventory(t) -> Heirs(t) \cup {"delete"}] :
             Become(t, [task[t] EXCEPT !.step = step, !.left = Inventory(t),
                                       !.plan = plan(choice)])
      BY <1>8, <2>2 DEF Plan
    <3> PICK p : p = plan(choice)
      OBVIOUS
    <3> PICK I : I = Inventory(t)
      OBVIOUS
    <3>2. \A e \in I : p[e] \in (LiveKeys \ task[t].doomed) \cup {"delete"}
      BY DEF Inventory, LiveEntities, Heirs
    <3>3. \A e \in LiveEntities : owner[e] \in task[t].doomed => e \in I
      BY DEF Inventory
    <3>4. step \in {"resolve", "purge"} /\ (step = "purge" => I = {})
      OBVIOUS
    <3>5. r = [task[t] EXCEPT !.step = step, !.left = I, !.plan = p]
      BY <3>1 DEF Become, TypeOK
    <3> HIDE DEF step, plan
    <3>6. /\ r.step = step /\ r.left = I /\ r.plan = p
          /\ r.doomed = task[t].doomed /\ r.frontier = task[t].frontier
      BY <1>0, <3>5 DEF Task
    <3>7. /\ At(t, "plan") /\ LiveKeys' = LiveKeys
          /\ LiveEntities' = LiveEntities /\ UNCHANGED <<owner, parent>>
      BY <1>8 DEF Plan, LiveKeys, LiveEntities
    <3>8. r.frontier = {} /\ Daughters(r.doomed \ r.frontier) \subseteq r.doomed
      BY <1>0, <3>6, <3>7 DEF Sound, At, Deleting
    <3>9. Daughters(r.doomed \ r.frontier)' \subseteq r.doomed
      BY <3>7, <3>8 DEF Daughters
    <3>10. /\ \A e \in LiveEntities' : owner'[e] \in r.doomed => e \in r.left
           /\ \A e \in r.left : r.plan[e] \in (LiveKeys' \ r.doomed) \cup {"delete"}
      BY <3>2, <3>3, <3>6, <3>7
    <3> QED BY <3>4, <3>6, <3>8, <3>9, <3>10 DEF Sound
  <2> QED BY <2>1, <2>2
<1>9. CASE Resolve(t)
  <2>1. PICK e \in task[t].left :
           /\ Become(t, [task[t] EXCEPT
                 !.left = @ \ {e},
                 !.step = IF task[t].left = {e} THEN "purge" ELSE "resolve"])
           /\ \/ /\ task[t].plan[e] = "delete" /\ rows' = rows \ Dropped(e)
                 /\ UNCHANGED owner
              \/ /\ task[t].plan[e] # "delete" /\ UNCHANGED rows
                 /\ owner' = IF e \in rows THEN [owner EXCEPT ![e] = task[t].plan[e]] ELSE owner
    BY <1>9 DEF Resolve
  <2> DEFINE step == IF task[t].left = {e} THEN "purge" ELSE "resolve"
  <2>2. step \in {"resolve", "purge"} /\ (step = "purge" => task[t].left = {e})
    OBVIOUS
  <2>3. r = [task[t] EXCEPT !.left = @ \ {e}, !.step = step]
    BY <2>1 DEF Become, TypeOK
  <2> HIDE DEF step
  <2>4. /\ r.step = step /\ r.left = task[t].left \ {e} /\ r.plan = task[t].plan
        /\ r.doomed = task[t].doomed /\ r.frontier = task[t].frontier
    BY <1>0, <2>3 DEF Task
  <2>5. At(t, "resolve") /\ UNCHANGED parent /\ e \in Entities
    BY <1>0, <1>9 DEF Resolve, Task
  <2>6. LiveKeys' = LiveKeys /\ LiveEntities' \subseteq LiveEntities
    BY <2>1, <2>5, IdAssumption DEF Dropped, Entities, LiveKeys, LiveEntities
  <2>7. /\ r.frontier = {} /\ Daughters(r.doomed \ r.frontier) \subseteq r.doomed
        /\ \A x \in LiveEntities : owner[x] \in r.doomed => x \in task[t].left
        /\ \A x \in task[t].left : r.plan[x] \in (LiveKeys \ r.doomed) \cup {"delete"}
    BY <1>0, <2>4, <2>5 DEF Sound, At, Deleting
  <2>8. Daughters(r.doomed \ r.frontier)' \subseteq r.doomed
    BY <2>5, <2>6, <2>7 DEF Daughters
  <2>9. \A x \in LiveEntities' : owner'[x] \in r.doomed => x \in r.left
    <3> SUFFICES ASSUME NEW x \in LiveEntities', owner'[x] \in r.doomed
                 PROVE  x \in r.left
      OBVIOUS
    <3>1. CASE x # e
      <4>0. \/ owner' = owner
            \/ owner' = [owner EXCEPT ![e] = task[t].plan[e]]
        BY <2>1, Zenon
      <4>1. owner'[x] = owner[x]
        BY <2>6, <3>1, <4>0 DEF LiveEntities, TypeOK
      <4> QED BY <2>4, <2>6, <2>7, <3>1, <4>1
    <3>2. CASE x = e
      <4>1. e \in rows' /\ e \in rows
        BY <2>6, <3>2 DEF LiveEntities
      <4>2. owner'[e] = r.plan[e] /\ r.plan[e] # "delete"
        BY <2>1, <2>4, <2>5, <4>1 DEF Dropped, TypeOK
      <4> QED BY <2>7, <3>2, <4>2
    <3> QED BY <3>1, <3>2
  <2> QED BY <2>2, <2>4, <2>6, <2>7, <2>8, <2>9 DEF Sound
<1> QED
  BY <1>1, <1>2, <1>3, <1>4, <1>5, <1>6, <1>7, <1>8, <1>9, AtRest DEF Serve

\* What a step does to the rows: nothing dangles.
LEMMA NothingDangles ==
    ASSUME TypeOK, OperandsFit, ParentsUsed, CInv, NEW t \in Tasks, Serve(t) \/ Abandon(t)
    PROVE  OwnersExist' /\ DaughtersHaveParents'
<1>0. task[t] \in Task /\ Sound(task[t]) /\ Fits(task[t], used)
  BY DEF TypeOK, CInv, AllSound, OperandsFit
<1>1. OwnersExist /\ DaughtersHaveParents
  BY DEF CInv
<1>2. CASE InsertKey(t)
  <2>1. PICK k \in Keys \ used :
           /\ rows' = rows \cup {k} /\ parent' = [parent EXCEPT ![k] = task[t].by]
           /\ UNCHANGED owner
    BY <1>2 DEF InsertKey, By
  <2>2. task[t].by \in LiveKeys \cup {Master}
    BY <1>0, <1>2 DEF InsertKey, At, Sound
  <2>3. LiveKeys' = LiveKeys \cup {k} /\ LiveEntities' = LiveEntities
    BY <2>1, IdAssumption DEF LiveKeys, LiveEntities
  <2>4. \A j \in LiveKeys : j # k /\ j \in Keys
    BY <2>1 DEF LiveKeys, TypeOK
  <2>5. OwnersExist'
    BY <1>1, <2>1, <2>3 DEF OwnersExist
  <2>6. DaughtersHaveParents'
    BY <1>1, <2>1, <2>2, <2>3, <2>4 DEF DaughtersHaveParents, TypeOK
  <2> QED BY <2>5, <2>6
<1>3. CASE InsertGroup(t) \/ InsertHook(t)
  <2>1. CASE UNCHANGED <<rows, owner>>
    BY <1>1, <1>3, <2>1
       DEF InsertGroup, InsertHook, OwnersExist, DaughtersHaveParents, LiveKeys, LiveEntities
  <2>2. ASSUME NEW e \in Entities \ used, rows' = rows \cup {e},
               owner' = [owner EXCEPT ![e] = ResourceOwner(task[t].by)], UNCHANGED parent
        PROVE  OwnersExist' /\ DaughtersHaveParents'
    <3>1. ResourceOwner(task[t].by) \in LiveKeys \cup {"unowned"}
      BY <1>0, <1>3 DEF InsertGroup, InsertHook, At, Sound, ResourceOwner
    <3>2. LiveKeys' = LiveKeys /\ LiveEntities' = LiveEntities \cup {e}
      BY <2>2, IdAssumption DEF LiveKeys, LiveEntities
    <3>3. \A x \in LiveEntities : x # e /\ x \in Entities
      BY <2>2 DEF LiveEntities, TypeOK
    <3>4. OwnersExist'
      BY <1>1, <2>2, <3>1, <3>2, <3>3 DEF OwnersExist, TypeOK
    <3>5. DaughtersHaveParents'
      BY <1>1, <2>2, <3>2 DEF DaughtersHaveParents
    <3> QED BY <3>4, <3>5
  <2> QED BY <1>3, <2>1, <2>2 DEF InsertGroup, InsertHook, Entities, By
<1>4. CASE Assign(t)
  <2>1. /\ UNCHANGED <<rows, parent>> /\ task[t].to \in LiveKeys \cup {"unowned"}
        /\ owner' = owner \/ owner' = [owner EXCEPT ![task[t].on] = task[t].to]
    BY <1>0, <1>4, Zenon DEF Assign, At, Sound
  <2>2. LiveKeys' = LiveKeys /\ LiveEntities' = LiveEntities
    BY <2>1 DEF LiveKeys, LiveEntities
  <2>3. \A x \in LiveEntities : owner'[x] = owner[x] \/ owner'[x] = task[t].to
    BY <2>1 DEF LiveEntities, TypeOK
  <2> QED BY <1>1, <2>1, <2>2, <2>3 DEF OwnersExist, DaughtersHaveParents
<1>5. CASE Resolve(t)
  <2>1. PICK e \in task[t].left :
           \/ /\ rows' = rows \ Dropped(e) /\ UNCHANGED owner
           \/ /\ task[t].plan[e] # "delete" /\ UNCHANGED rows
              /\ owner' = IF e \in rows THEN [owner EXCEPT ![e] = task[t].plan[e]] ELSE owner
    BY <1>5 DEF Resolve
  <2>2. e \in Entities /\ UNCHANGED parent
        /\ task[t].plan[e] \in LiveKeys \cup {"delete"}
    BY <1>0, <1>5, <2>1 DEF Resolve, At, Sound, Task
  <2>3. LiveKeys' = LiveKeys /\ LiveEntities' \subseteq LiveEntities
    BY <2>1, <2>2, IdAssumption DEF Dropped, Entities, LiveKeys, LiveEntities
  <2>4. \/ owner' = owner
        \/ /\ owner' = [owner EXCEPT ![e] = task[t].plan[e]]
           /\ task[t].plan[e] # "delete"
    BY <2>1, Zenon
  <2>5. \A x \in LiveEntities : owner'[x] = owner[x] \/ owner'[x] \in LiveKeys
    BY <2>2, <2>4 DEF LiveEntities, TypeOK
  <2> QED BY <1>1, <2>2, <2>3, <2>5 DEF OwnersExist, DaughtersHaveParents
<1>6. CASE Purge(t)
  <2> DEFINE D == task[t].doomed
  <2>1. rows' = rows \ D /\ UNCHANGED <<owner, parent>> /\ D \subseteq Keys
    BY <1>0, <1>6 DEF Purge, Task
  <2>2. LiveKeys' = LiveKeys \ D /\ LiveEntities' = LiveEntities
    BY <2>1, IdAssumption DEF LiveKeys, LiveEntities
  <2>3. /\ Daughters(D) \subseteq D /\ \A e \in LiveEntities : owner[e] \notin D
    BY <1>0, <1>6 DEF Purge, At, Sound, Deleting
  <2>4. OwnersExist'
    BY <1>1, <2>1, <2>2, <2>3 DEF OwnersExist
  <2>5. \A k \in LiveKeys \ D : parent[k] \notin D
    BY <2>3 DEF Daughters
  <2>6. DaughtersHaveParents'
    BY <1>1, <2>1, <2>2, <2>5 DEF DaughtersHaveParents
  <2> QED BY <2>4, <2>6
<1>7. CASE ~(\/ InsertKey(t) \/ InsertGroup(t) \/ InsertHook(t) \/ Assign(t)
             \/ Resolve(t) \/ Purge(t))
  <2>1. rows' \subseteq rows /\ LiveKeys' = LiveKeys /\ UNCHANGED <<owner, parent>>
    BY <1>7, ModestSteps
  <2> QED BY <1>1, <2>1 DEF OwnersExist, DaughtersHaveParents, LiveEntities
<1> QED BY <1>2, <1>3, <1>4, <1>5, <1>6, <1>7

LEMMA CInvStep == IInv /\ CInv /\ DeletionsApart /\ [Next]_vars => CInv'
<1> SUFFICES ASSUME IInv, CInv, DeletionsApart, [Next]_vars PROVE CInv'
  OBVIOUS
<1>1. CASE UNCHANGED vars
  BY <1>1 DEF vars, CInv, OwnersExist, DaughtersHaveParents, AllSound, Sound, Daughters,
     LiveKeys, LiveEntities
<1>2. ASSUME NEW t \in Tasks, Serve(t) \/ Abandon(t) PROVE CInv'
  <2>1. TypeOK /\ OperandsFit /\ ParentsUsed /\ AllSound
    BY DEF IInv, CInv
  <2>2. OwnersExist' /\ DaughtersHaveParents'
    BY <1>2, <2>1, NothingDangles
  <2>3. \A u \in Tasks \ {t} : Sound(task[u])'
    BY <1>2, <2>1, OthersSound
  <2>4. Sound(task[t])'
    BY <1>2, <2>1, OwnSound
  <2>5. AllSound'
    BY <2>3, <2>4 DEF AllSound
  <2> QED BY <2>2, <2>5 DEF CInv
<1> QED BY <1>1, <1>2 DEF Next

LEMMA CInvInit == Init => CInv
<1> SUFFICES ASSUME Init PROVE CInv
  OBVIOUS
<1>1. OwnersExist /\ DaughtersHaveParents
  BY DEF Init, OwnersExist, DaughtersHaveParents, LiveKeys, LiveEntities
<1>2. AllSound
  BY IdleFits DEF Init, AllSound, Sound, Deleting
<1> QED BY <1>1, <1>2 DEF CInv

LEMMA DeletionsAreClean == Spec /\ []DeletionsApart => []CInv
BY CInvInit, CInvStep, Invariance, PTL DEF Spec

\* Every owner_key_id names a key that exists, whatever else overlaps, as long as a
\* DELETE /keys is not overtaken by a creation, a handover or another such DELETE
\* (delete_api_key: inventory_owned_entities, migration 000008).
THEOREM OwnersKept == Spec /\ []DeletionsApart => []OwnersExist
<1>1. CInv => OwnersExist
  BY DEF CInv
<1> QED BY <1>1, DeletionsAreClean, PTL

\* Every daughter's parent exists, under the same hypothesis (collect_key_subtree
\* takes the whole subtree).
THEOREM ParentsKept == Spec /\ []DeletionsApart => []DaughtersHaveParents
<1>1. CInv => DaughtersHaveParents
  BY DEF CInv
<1> QED BY <1>1, DeletionsAreClean, PTL

-----------------------------------------------------------------------------
(* Elevation *)

\* No two PUT /keys are about to write the scopes of the same key.
ScopeWritesApart ==
    \A t, u \in Tasks :
        t # u /\ At(t, "writeScopes") /\ At(u, "writeScopes") => task[t].on # task[u].on

\* A tenant about to write scopes adds none that the target lacks now.
GivesNothingNew == \A t \in Tasks :
    By(t) # Master =>
        /\ At(t, "insertKey") => task[t].give = {}
        /\ At(t, "writeScopes") => task[t].give \subseteq scopes[task[t].on]

LEMMA GivesStep ==
    ASSUME IInv, GivesNothingNew, ScopeWritesApart, NEW t \in Tasks, Serve(t) \/ Abandon(t)
    PROVE  GivesNothingNew'
<1> USE DEF At, By, LiveKeys
<1>0. TypeOK /\ OperandsFit
  BY DEF IInv
<1>1. \A u \in Tasks \ {t} : task'[u] = task[u]
  BY <1>0, OthersRest
<1>2. CASE Quiet(t)
  BY <1>1, <1>2 DEF Quiet, GivesNothingNew
<1>3. CASE RequestKey(t)
  <2>1. /\ UNCHANGED scopes
        /\ task'[t].step = "insertKey"
        /\ task'[t].by # Master => task'[t].give = {}
    BY <1>0, <1>3, IdleFits DEF RequestKey, Authenticate, Become, TypeOK, Task
  <2> QED BY <1>1, <2>1 DEF GivesNothingNew
<1>4. CASE InsertKey(t)
  <2>1. PICK k \in Keys \ used : scopes' = [scopes EXCEPT ![k] = task[t].give]
    BY <1>4 DEF InsertKey
  <2>2. task'[t] = Idle
    BY <1>0, <1>4 DEF InsertKey, Done, Become, TypeOK
  <2> QED BY <1>0, <1>1, <2>1, <2>2, IdleFits DEF GivesNothingNew, OperandsFit, Fits, TypeOK
<1>5. CASE FindEdited(t)
  <2>1. CASE Done(t)
    <3>1. task'[t] = Idle
      BY <1>0, <2>1 DEF Done, Become, TypeOK
    <3> QED BY <1>1, <1>5, <3>1, IdleFits DEF FindEdited, GivesNothingNew
  <2>2. CASE Goto(t, "writeScopes") /\ MayElevate(t)
    <3>1. task'[t] = [task[t] EXCEPT !.step = "writeScopes"] /\ task[t] \in Task
      BY <1>0, <2>2 DEF Goto, Become, TypeOK
    <3>2. /\ task'[t].step = "writeScopes" /\ task'[t].by = task[t].by
          /\ task'[t].on = task[t].on /\ task'[t].give = task[t].give
      BY <3>1 DEF Task
    <3> QED BY <1>1, <1>5, <2>2, <3>2 DEF FindEdited, MayElevate, GivesNothingNew
  <2> QED BY <1>5, <2>1, <2>2 DEF FindEdited
<1>6. CASE WriteScopes(t)
  <2>1. /\ task'[t] = Idle
        /\ \A k \in Keys : k # task[t].on => scopes'[k] = scopes[k]
    BY <1>0, <1>6 DEF WriteScopes, Done, Become, TypeOK
  <2>2. ASSUME NEW u \in Tasks \ {t}, task[u].by # Master, task[u].step = "writeScopes"
        PROVE  task[u].give \subseteq scopes'[task[u].on]
    <3>1. task[u].on # task[t].on /\ task[u].on \in Keys
      BY <1>0, <1>6, <2>2 DEF ScopeWritesApart, WriteScopes, OperandsFit, Fits
    <3> QED BY <2>1, <2>2, <3>1 DEF GivesNothingNew
  <2> QED BY <1>1, <2>1, <2>2, IdleFits DEF GivesNothingNew
<1> QED BY <1>0, <1>2, <1>3, <1>4, <1>5, <1>6, QuietSteps

\* What one step adds to a key's scopes.
LEMMA ElevationStep ==
    ASSUME IInv, GivesNothingNew, NEW t \in Tasks, Serve(t) \/ Abandon(t),
           NEW k \in rows' \cap Keys
    PROVE  \/ scopes'[k] \subseteq IF k \in rows THEN scopes[k] ELSE {}
           \/ Acts(t) /\ By(t) = Master
<1> USE DEF At, By, LiveKeys, Acts
<1>0. TypeOK
  BY DEF IInv
<1>1. CASE Quiet(t)
  BY <1>1 DEF Quiet
<1>2. CASE RequestKey(t) \/ FindEdited(t)
  BY <1>2 DEF RequestKey, FindEdited, Authenticate
<1>3. CASE InsertKey(t)
  <2>1. PICK j \in Keys \ used : /\ rows' = rows \cup {j}
                                /\ scopes' = [scopes EXCEPT ![j] = task[t].give]
    BY <1>3 DEF InsertKey
  <2>2. task'[t] = Idle /\ task[t].step = "insertKey"
    BY <1>0, <1>3 DEF InsertKey, Done, Become, TypeOK
  <2>3. task[t].by # Master => task[t].give = {}
    BY <2>2 DEF GivesNothingNew
  <2> QED BY <1>0, <2>1, <2>2, <2>3, IdleFits DEF TypeOK
<1>4. CASE WriteScopes(t)
  <2>1. task'[t] = Idle /\ task[t].step = "writeScopes" /\ UNCHANGED rows
    BY <1>0, <1>4 DEF WriteScopes, Done, Become, TypeOK
  <2>2. task[t].by # Master => task[t].give \subseteq scopes[task[t].on]
    BY <2>1 DEF GivesNothingNew
  <2>3. \/ UNCHANGED scopes
        \/ scopes' = [scopes EXCEPT ![task[t].on] = (@ \ task[t].take) \cup task[t].give]
    BY <1>4 DEF WriteScopes
  <2> QED BY <1>0, <2>1, <2>2, <2>3, IdleFits DEF TypeOK
<1> QED BY <1>0, <1>1, <1>2, <1>3, <1>4, QuietSteps

\* R4 holds step by step while no two edits of one key's scopes overlap: a key gains
\* a scope only by the master's hand (guard_scope_elevation, update_api_key).
THEOREM ElevationIsMasters == Spec /\ []ScopeWritesApart => OnlyMasterElevates
<1>1. Init => GivesNothingNew
  BY IdleFits DEF Init, GivesNothingNew, At, By
<1>2. IInv /\ GivesNothingNew /\ ScopeWritesApart /\ [Next]_vars => GivesNothingNew'
  <2>1. CASE UNCHANGED vars
    BY <2>1 DEF vars, GivesNothingNew, At, By
  <2> QED BY <2>1, GivesStep DEF Next
<1>3. IInv /\ GivesNothingNew /\ [Next]_vars =>
        [\A k \in rows' \cap Keys :
            \/ scopes'[k] \subseteq IF k \in rows THEN scopes[k] ELSE {}
            \/ \E t \in Tasks : Acts(t) /\ By(t) = Master]_vars
  <2> SUFFICES ASSUME IInv, GivesNothingNew, Next, NEW k \in rows' \cap Keys
               PROVE  \/ scopes'[k] \subseteq IF k \in rows THEN scopes[k] ELSE {}
                      \/ \E t \in Tasks : Acts(t) /\ By(t) = Master
    OBVIOUS
  <2>1. PICK t \in Tasks : Serve(t) \/ Abandon(t)
    BY DEF Next
  <2> QED BY <2>1, ElevationStep
<1> QED BY <1>1, <1>2, <1>3, Invariance, PTL DEF Spec, OnlyMasterElevates

-----------------------------------------------------------------------------
(* The end of groups and webhooks *)

\* What a handler is about to hand to another key, and what it is about to delete.
HandsOver(r) ==
    {e \in Entities : \/ r.step = "assign" /\ e = r.on
                      \/ r.step = "resolve" /\ e \in r.left /\ r.plan[e] \in Keys}

Ends(r) ==
    {e \in Entities : \/ r.step = "drop" /\ e = r.on
                      \/ r.step = "resolve" /\ e \in r.left /\ r.plan[e] = "delete"}

\* No handler is about to hand over what another is about to delete.
HandoversApart ==
    \A t, u \in Tasks : t # u => HandsOver(task[t]) \cap Ends(task[u]) = {}

\* A handler about to delete an entity still answers to its owner, or to the key
\* above its owner that is being deleted.
Warranted(r) ==
    /\ r.step = "drop" =>
          /\ r.on \in used
          /\ r.on \in rows => r.by = Master \/ owner[r.on] = r.by
    /\ r.step = "resolve" =>
          /\ r.left \subseteq used
          /\ \A e \in Ends(r) \cap rows : owner[e] \in r.doomed

AllWarranted == \A t \in Tasks : Warranted(task[t])

\* webhook_configs.group_id: every webhook's group exists.
GroupsExist == \A h \in rows \cap Hooks : group[h] \in rows

LInv == AllWarranted /\ GroupsExist

\* Ownership changes by insertion and by the two handovers, of ids that are in use.
LEMMA OwnerChanges ==
    ASSUME TypeOK, OperandsFit, NEW t \in Tasks, Serve(t) \/ Abandon(t),
           NEW e \in used \cap Entities, owner'[e] # owner[e]
    PROVE  e \in HandsOver(task[t])
<1>0. task[t] \in Task /\ Fits(task[t], used)
  BY DEF TypeOK, OperandsFit
<1>1. CASE InsertGroup(t) \/ InsertHook(t)
  BY <1>1 DEF InsertGroup, InsertHook, TypeOK
<1>2. CASE Assign(t)
  <2>1. task[t].step = "assign" /\ owner' = [owner EXCEPT ![task[t].on] = task[t].to]
    BY <1>2 DEF Assign, At
  <2> QED BY <2>1 DEF HandsOver, TypeOK
<1>3. CASE Resolve(t)
  <2>1. PICK x \in task[t].left :
           /\ task[t].plan[x] # "delete"
           /\ owner' = [owner EXCEPT ![x] = task[t].plan[x]]
    BY <1>3, Zenon DEF Resolve
  <2>2. x \in Entities /\ task[t].step = "resolve" /\ task[t].plan[x] \in Keys
    BY <1>0, <1>3, <2>1 DEF Resolve, At, Task, Fits, Resolutions
  <2>3. e = x
    BY <2>1 DEF TypeOK
  <2> QED BY <2>2, <2>3 DEF HandsOver
<1>4. CASE ~(InsertGroup(t) \/ InsertHook(t) \/ Assign(t) \/ Resolve(t))
  BY <1>4 DEF Serve, Abandon, Authenticate, RequestKey, InsertKey, RequestScopes, FindEdited,
     WriteScopes, RequestDeletion, FindDoomed, Walk, Plan, Purge, RequestGroup, RequestHook,
     RequestDrop, FindEntity, Drop, RequestOwner
<1> QED BY <1>1, <1>2, <1>3, <1>4

\* No id that has been handed out gets a row again.
LEMMA NoReturn ==
    ASSUME TypeOK, NEW t \in Tasks, Serve(t) \/ Abandon(t)
    PROVE  used \subseteq used' /\ rows' \cap used \subseteq rows
BY DEF TypeOK, Serve, Abandon, Authenticate, RequestKey, InsertKey, RequestScopes, FindEdited,
   WriteScopes, RequestDeletion, FindDoomed, Walk, Plan, Resolve, Purge, RequestGroup,
   InsertGroup, RequestHook, InsertHook, RequestDrop, FindEntity, Drop, RequestOwner, Assign

LEMMA WarrantLasts ==
    ASSUME TypeOK, OperandsFit, NEW t \in Tasks, Serve(t) \/ Abandon(t),
           NEW r \in Task, Warranted(r), r.step = "drop" => r.on \in Entities,
           HandsOver(task[t]) \cap Ends(r) = {}
    PROVE  Warranted(r)'
<1>1. used \subseteq used' /\ rows' \cap used \subseteq rows
  BY NoReturn
<1>2. \A e \in used \cap Ends(r) : owner'[e] = owner[e]
  BY OwnerChanges DEF Ends
<1>3. Ends(r)' = Ends(r)
  BY DEF Ends
<1>4. CASE r.step = "drop"
  <2>1. r.on \in used \cap Ends(r)
    BY <1>4 DEF Warranted, Ends
  <2> QED BY <1>1, <1>2, <1>4, <2>1 DEF Warranted
<1>5. CASE r.step = "resolve"
  <2>1. Ends(r) \subseteq used
    BY <1>5 DEF Warranted, Ends
  <2> QED BY <1>1, <1>2, <1>3, <1>5, <2>1 DEF Warranted
<1> QED BY <1>4, <1>5 DEF Warranted

LEMMA OwnWarrant ==
    ASSUME IInv, AllWarranted, NEW t \in Tasks, Serve(t) \/ Abandon(t)
    PROVE  Warranted(task[t])'
<1>0. TypeOK /\ OperandsFit /\ task[t] \in Task /\ Warranted(task[t])
  BY DEF IInv, TypeOK, AllWarranted
<1> PICK r : r = task'[t]
  OBVIOUS
<1> SUFFICES Warranted(r)'
  OBVIOUS
<1>1. CASE r.step \notin {"drop", "resolve"}
  BY <1>1 DEF Warranted
<1>2. CASE FindEntity(t)
  <2>1. CASE Done(t)
    <3>1. r = Idle
      BY <1>0, <2>1 DEF Done, Become, TypeOK
    <3> QED BY <1>1, <3>1, IdleFits
  <2>2. CASE task[t].on \in rows /\ MayEndLife(t) /\ Goto(t, "drop")
    <3>1. r = [task[t] EXCEPT !.step = "drop"]
      BY <1>0, <2>2 DEF Goto, Become, TypeOK
    <3>2. r.step = "drop" /\ r.on = task[t].on /\ r.by = task[t].by
      BY <1>0, <3>1 DEF Task
    <3>3. UNCHANGED <<rows, used, owner>>
      BY <1>2 DEF FindEntity
    <3> QED BY <1>0, <2>2, <3>2, <3>3 DEF Warranted, MayEndLife, By, TypeOK
  <2> QED BY <1>2, <2>1, <2>2 DEF FindEntity
<1>3. CASE Plan(t)
  <2>1. CASE Done(t)
    <3>1. r = Idle
      BY <1>0, <2>1 DEF Done, Become, TypeOK
    <3> QED BY <1>1, <3>1, IdleFits
  <2>2. CASE ~Done(t)
    <3> DEFINE step == IF Inventory(t) = {} THEN "purge" ELSE "resolve"
               plan(choice) == [e \in Entities |-> IF e \in Inventory(t) THEN choice[e]
                                                                         ELSE "keep"]
    <3>1. PICK choice \in [Inventory(t) -> Heirs(t) \cup {"delete"}] :
             Become(t, [task[t] EXCEPT !.step = step, !.left = Inventory(t),
                                       !.plan = plan(choice)])
      BY <1>3, <2>2 DEF Plan
    <3> PICK p : p = plan(choice)
      OBVIOUS
    <3> PICK I : I = Inventory(t)
      OBVIOUS
    <3>2. I \subseteq rows /\ \A e \in I : owner[e] \in task[t].doomed
      BY DEF Inventory, LiveEntities
    <3>3. step \in {"resolve", "purge"}
      OBVIOUS
    <3>4. r = [task[t] EXCEPT !.step = step, !.left = I, !.plan = p]
      BY <1>0, <3>1 DEF Become, TypeOK
    <3> HIDE DEF step, plan
    <3>5. r.step = step /\ r.left = I /\ r.doomed = task[t].doomed
      BY <1>0, <3>4 DEF Task
    <3>6. UNCHANGED <<rows, used, owner>>
      BY <1>3 DEF Plan
    <3> QED BY <1>0, <3>2, <3>3, <3>5, <3>6 DEF Warranted, Ends, TypeOK
  <2> QED BY <2>1, <2>2
<1>4. CASE Resolve(t)
  <2>1. PICK e \in task[t].left :
           /\ Become(t, [task[t] EXCEPT
                 !.left = @ \ {e},
                 !.step = IF task[t].left = {e} THEN "purge" ELSE "resolve"])
           /\ \/ rows' = rows \ Dropped(e) /\ UNCHANGED owner
              \/ /\ UNCHANGED rows
                 /\ owner' = owner \/ owner' = [owner EXCEPT ![e] = task[t].plan[e]]
    BY <1>4, Zenon DEF Resolve
  <2> DEFINE step == IF task[t].left = {e} THEN "purge" ELSE "resolve"
  <2>2. step \in {"resolve", "purge"}
    OBVIOUS
  <2>3. r = [task[t] EXCEPT !.left = @ \ {e}, !.step = step]
    BY <1>0, <2>1 DEF Become, TypeOK
  <2> HIDE DEF step
  <2>4. /\ r.step = step /\ r.left = task[t].left \ {e} /\ r.plan = task[t].plan
        /\ r.doomed = task[t].doomed
    BY <1>0, <2>3 DEF Task
  <2>5. At(t, "resolve") /\ UNCHANGED used
    BY <1>4 DEF Resolve
  <2>6. \A x \in Ends(r) : r.step = "resolve" => x \in Ends(task[t]) /\ owner'[x] = owner[x]
    BY <1>0, <2>1, <2>2, <2>4, <2>5 DEF Ends, At, TypeOK
  <2>7. rows' \subseteq rows
    BY <2>1
  <2> QED BY <1>0, <2>2, <2>4, <2>5, <2>6, <2>7 DEF Warranted, At, Ends
<1>5. CASE ~(FindEntity(t) \/ Plan(t) \/ Resolve(t))
  <2>1. r.step \notin {"drop", "resolve"}
    <3>1. CASE \/ InsertKey(t) \/ WriteScopes(t) \/ Purge(t) \/ InsertGroup(t) \/ InsertHook(t)
               \/ Drop(t) \/ Assign(t) \/ Abandon(t)
      <4>1. r = Idle
        BY <1>0, <3>1, StepAfter
      <4> QED BY <4>1, IdleFits
    <3>2. CASE \/ RequestKey(t) \/ RequestGroup(t) \/ RequestHook(t) \/ RequestOwner(t)
               \/ RequestScopes(t) \/ RequestDeletion(t) \/ RequestDrop(t)
               \/ FindEdited(t) \/ FindDoomed(t) \/ Walk(t)
      <4>1. r.step \in {"insertKey", "insertGroup", "insertHook", "assign", "findEdited",
                       "findDoomed", "findEntity", "writeScopes", "walk", "plan", "idle"}
        BY <1>0, <3>2, StepAfter
      <4> QED BY <4>1
    <3> QED BY <1>5, <3>1, <3>2 DEF Serve
  <2> QED BY <1>1, <2>1
<1> QED BY <1>2, <1>3, <1>4, <1>5

\* The foreign key: a group's webhooks go with it, and none is inserted without one.
LEMMA GroupsStep ==
    ASSUME TypeOK, OperandsFit, GroupsExist, NEW t \in Tasks, Serve(t) \/ Abandon(t)
    PROVE  GroupsExist'
<1>0. task[t] \in Task /\ Fits(task[t], used) /\ rows \subseteq used
  BY DEF TypeOK, OperandsFit
<1> DEFINE WithGroups == \A h \in rows' \cap Hooks : group'[h] \in rows'
<1>1. ASSUME NEW e \in Entities, rows' = rows \ Dropped(e), UNCHANGED group
      PROVE  WithGroups
  BY <1>1, IdAssumption DEF GroupsExist, Dropped, Entities, TypeOK
<1>2. CASE Resolve(t)
  <2>1. CASE UNCHANGED rows
    BY <1>2, <2>1 DEF Resolve, GroupsExist
  <2>2. CASE \E e \in Entities : rows' = rows \ Dropped(e)
    BY <1>1, <1>2, <2>2 DEF Resolve, GroupsExist
  <2> QED BY <1>0, <1>2, <2>1, <2>2 DEF Resolve, Task
<1>3. CASE Drop(t)
  <2>1. task[t].on \in Entities
    BY <1>0, <1>3 DEF Drop, At, Fits
  <2>2. UNCHANGED rows \/ rows' = rows \ Dropped(task[t].on)
    BY <1>3 DEF Drop
  <2> QED BY <1>1, <1>3, <2>1, <2>2 DEF Drop, GroupsExist
<1>4. CASE Purge(t)
  <2>1. rows' = rows \ task[t].doomed /\ task[t].doomed \subseteq Keys /\ UNCHANGED group
    BY <1>0, <1>4 DEF Purge, Task
  <2> QED BY <2>1, IdAssumption DEF GroupsExist, Entities, TypeOK
<1>5. CASE InsertHook(t)
  <2>1. CASE UNCHANGED <<rows, group>>
    BY <2>1 DEF GroupsExist
  <2>2. CASE \E h \in Hooks \ used : /\ task[t].on \in rows /\ rows' = rows \cup {h}
                                     /\ group' = [group EXCEPT ![h] = task[t].on]
    BY <1>0, <2>2 DEF GroupsExist, TypeOK
  <2> QED BY <1>5, <2>1, <2>2 DEF InsertHook
<1>6. CASE InsertKey(t) \/ InsertGroup(t)
  <2>1. \E x \in Keys \cup Groups : rows' = rows \cup {x}
    BY <1>6 DEF InsertKey, InsertGroup
  <2>2. UNCHANGED group
    BY <1>6 DEF InsertKey, InsertGroup
  <2> QED BY <2>1, <2>2, IdAssumption DEF GroupsExist, Entities
<1>7. CASE ~(\/ InsertKey(t) \/ InsertGroup(t) \/ InsertHook(t)
             \/ Resolve(t) \/ Purge(t) \/ Drop(t))
  <2>1. UNCHANGED <<rows, group>>
    BY <1>7 DEF Serve, Abandon, Authenticate, RequestKey, RequestScopes, FindEdited,
       WriteScopes, RequestDeletion, FindDoomed, Walk, Plan, RequestGroup, RequestHook,
       RequestDrop, FindEntity, RequestOwner, Assign
  <2> QED BY <2>1 DEF GroupsExist
<1> QED BY <1>2, <1>3, <1>4, <1>5, <1>6, <1>7 DEF GroupsExist

LEMMA LInvStep == IInv /\ LInv /\ HandoversApart /\ [Next]_vars => LInv'
<1> SUFFICES ASSUME IInv, LInv, HandoversApart, [Next]_vars PROVE LInv'
  OBVIOUS
<1>0. TypeOK /\ OperandsFit /\ AllWarranted /\ GroupsExist
  BY DEF IInv, LInv
<1>1. CASE UNCHANGED vars
  BY <1>0, <1>1 DEF vars, LInv, AllWarranted, Warranted, Ends, GroupsExist
<1>2. ASSUME NEW t \in Tasks, Serve(t) \/ Abandon(t) PROVE LInv'
  <2>1. Warranted(task[t])'
    BY <1>0, <1>2, OwnWarrant
  <2>2. ASSUME NEW u \in Tasks \ {t} PROVE Warranted(task[u])'
    <3> PICK r : r = task[u]
      OBVIOUS
    <3>1. task'[u] = r
      BY <1>0, <1>2, OthersRest
    <3>2. r \in Task /\ Warranted(r) /\ (r.step = "drop" => r.on \in Entities)
      BY <1>0 DEF TypeOK, AllWarranted, OperandsFit, Fits
    <3>3. HandsOver(task[t]) \cap Ends(r) = {}
      BY DEF HandoversApart
    <3>4. Warranted(r)'
      BY <1>0, <1>2, <3>2, <3>3, WarrantLasts
    <3> QED BY <3>1, <3>4
  <2>3. AllWarranted'
    BY <2>1, <2>2 DEF AllWarranted
  <2> QED BY <1>0, <1>2, <2>3, GroupsStep DEF LInv
<1> QED BY <1>1, <1>2 DEF Next

LEMMA LInvInit == Init => LInv
BY IdleFits DEF Init, LInv, AllWarranted, Warranted, GroupsExist

\* Whose hand an entity disappears by, in one step.
LEMMA LifecycleStep ==
    ASSUME IInv, LInv, NEW t \in Tasks, Serve(t) \/ Abandon(t),
           NEW e \in LiveEntities \ rows'
    PROVE  /\ Acts(t)
           /\ \/ By(t) = Master \/ owner[e] = By(t)
              \/ At(t, "resolve") /\ owner[e] \in task[t].doomed
              \/ e \in Hooks /\ group[e] \in rows \ rows'
<1>0. /\ TypeOK /\ task[t] \in Task /\ Warranted(task[t]) /\ GroupsExist
      /\ Fits(task[t], used)
  BY DEF IInv, LInv, TypeOK, AllWarranted, OperandsFit
<1>1. e \in Entities /\ e \in rows /\ e \notin rows' /\ e \notin Keys
  BY IdAssumption DEF LiveEntities
<1>2. ASSUME NEW x \in Entities, rows' = rows \ Dropped(x), e # x
      PROVE  e \in Hooks /\ group[e] \in rows \ rows'
  BY <1>0, <1>1, <1>2 DEF Dropped, GroupsExist
<1>3. CASE Resolve(t)
  <2>1. PICK x \in task[t].left :
           /\ task'[t].left = task[t].left \ {x}
           /\ task[t].plan[x] = "delete" \/ UNCHANGED rows
           /\ rows' = rows \ Dropped(x) \/ UNCHANGED rows
    <3>1. PICK x \in task[t].left :
             /\ Become(t, [task[t] EXCEPT
                   !.left = @ \ {x},
                   !.step = IF task[t].left = {x} THEN "purge" ELSE "resolve"])
             /\ task[t].plan[x] = "delete" \/ UNCHANGED rows
             /\ rows' = rows \ Dropped(x) \/ UNCHANGED rows
      BY <1>3 DEF Resolve
    <3> DEFINE step == IF task[t].left = {x} THEN "purge" ELSE "resolve"
    <3>2. task'[t] = [task[t] EXCEPT !.left = @ \ {x}, !.step = step]
      BY <1>0, <3>1 DEF Become, TypeOK
    <3> HIDE DEF step
    <3>3. task'[t].left = task[t].left \ {x}
      BY <1>0, <3>2 DEF Task
    <3> QED BY <3>1, <3>3
  <2>2. task[t].plan[x] = "delete" /\ rows' = rows \ Dropped(x) /\ x \in Entities
    BY <1>0, <1>1, <2>1 DEF Task
  <2>3. Acts(t)
    BY <2>1 DEF Acts
  <2>4. CASE e = x
    BY <1>0, <1>1, <1>3, <2>2, <2>3, <2>4 DEF Resolve, At, Warranted, Ends
  <2>5. CASE e # x
    BY <1>2, <2>2, <2>3, <2>5
  <2> QED BY <2>4, <2>5
<1>4. CASE Drop(t)
  <2>1. /\ task[t].step = "drop" /\ task[t].on \in Entities /\ task[t].on \in rows
        /\ rows' = rows \ Dropped(task[t].on)
    BY <1>0, <1>1, <1>4 DEF Drop, At, Fits
  <2>2. Acts(t)
    BY <1>0, <1>4, <2>1, StepAfter, IdleFits DEF Acts
  <2>3. CASE e = task[t].on
    BY <1>0, <1>1, <2>1, <2>2, <2>3 DEF Warranted, By
  <2>4. CASE e # task[t].on
    BY <1>2, <2>1, <2>2, <2>4
  <2> QED BY <2>3, <2>4
<1>5. CASE Purge(t)
  BY <1>0, <1>1, <1>5 DEF Purge, Task
<1>6. CASE ~(Resolve(t) \/ Purge(t) \/ Drop(t))
  BY <1>1, <1>6 DEF Serve, Abandon, Authenticate, RequestKey, InsertKey, RequestScopes,
     FindEdited, WriteScopes, RequestDeletion, FindDoomed, Walk, Plan, RequestGroup,
     InsertGroup, RequestHook, InsertHook, RequestDrop, FindEntity, RequestOwner, Assign
<1> QED BY <1>3, <1>4, <1>5, <1>6

\* RBAC 3 and 6 hold step by step while no handover of an entity overlaps a decided
\* deletion of it (guard_resource_lifecycle, delete_group, delete_webhook,
\* apply_entity_resolutions).
THEOREM LifecycleIsOwners == Spec /\ []HandoversApart => LifecycleByOwner
<1>1. IInv /\ LInv /\ [Next]_vars =>
        [\A e \in LiveEntities \ rows' :
            \E t \in Tasks :
               /\ Acts(t)
               /\ \/ By(t) = Master \/ owner[e] = By(t)
                  \/ At(t, "resolve") /\ owner[e] \in task[t].doomed
                  \/ e \in Hooks /\ group[e] \in rows \ rows']_vars
  <2> SUFFICES ASSUME IInv, LInv, Next, NEW e \in LiveEntities \ rows'
               PROVE  \E t \in Tasks :
                         /\ Acts(t)
                         /\ \/ By(t) = Master \/ owner[e] = By(t)
                            \/ At(t, "resolve") /\ owner[e] \in task[t].doomed
                            \/ e \in Hooks /\ group[e] \in rows \ rows'
    OBVIOUS
  <2>1. PICK t \in Tasks : Serve(t) \/ Abandon(t)
    BY DEF Next
  <2> QED BY <2>1, LifecycleStep
<1> QED BY <1>1, LInvInit, LInvStep, Invariance, PTL DEF Spec, LifecycleByOwner

\* With requests served one by one none of the overlaps exists, and the four
\* properties hold of every installation, however large, and however a request is
\* abandoned half-way.
THEOREM ServedOneByOne ==
    ASSUME \A t, u \in Tasks : t = u
    PROVE  Spec => /\ []OwnersExist /\ []DaughtersHaveParents
                   /\ OnlyMasterElevates /\ LifecycleByOwner
<1>1. DeletionsApart
  BY DEF DeletionsApart
<1>2. ScopeWritesApart
  BY DEF ScopeWritesApart
<1>3. HandoversApart
  BY DEF HandoversApart
<1> QED
  BY <1>1, <1>2, <1>3, OwnersKept, ParentsKept, ElevationIsMasters, LifecycleIsOwners, PTL
=============================================================================
