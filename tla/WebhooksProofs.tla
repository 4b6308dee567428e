---------------------------- MODULE WebhooksProofs ----------------------------
(***************************************************************************)
(* What holds of Webhooks for any number of keys, groups, webhooks and     *)
(* handlers in flight, whatever order their statements run in.             *)
(***************************************************************************)
EXTENDS Webhooks, TLAPS

KeyHeld(row) == row.mode = "key" => row.apikey # "none"

\* A copy was made of a row that the caller owned, or as the Master; a secret that was
\* there then is there still, or another in its place.
CopyFits(r) == r.step \notin {"idle", "insert"} =>
    /\ r.hook \in used
    /\ r.copy.secret # 0 => hook[r.hook].secret # 0
    /\ r.by = Master \/ r.copy.owner = r.by
    /\ ~stale => KeyHeld(r.copy)

\* What is about to be written was judged, on the copy.
WriteFits(r) == r.step = "write" =>
    /\ MustRotate(r.copy, r.put) => r.put.secret # 0
    /\ Sound(Merged(r.copy, r.put))
    /\ r.put.secret <= minted
    /\ Repointed(r.copy, r.put) \/ r.put.apikey # "keep" => r.copy.apikey = "none" \/ r.by = Master
    /\ r.by # Master /\ Or(r.put.group, r.copy.group) # r.copy.group =>
          <<r.by, r.put.group>> \in Readers

\* What is about to be inserted is its caller's, on a group the caller could read.
InsertFits(r) == r.step = "insert" =>
    /\ Signs(r.copy.mode) => r.copy.secret # 0
    /\ r.copy.secret <= minted
    /\ r.copy.owner # "unowned" => <<r.copy.owner, r.copy.group>> \in Readers
    /\ ~stale => KeyHeld(r.copy)

Fits(r) == CopyFits(r) /\ WriteFits(r) /\ InsertFits(r)

\* The secret that was made for the row a task is about to store, if one was.
Fresh(r) ==
    IF r.step = "write" /\ ~r.supplied THEN r.put.secret
    ELSE IF r.step = "insert" /\ ~r.supplied THEN r.copy.secret ELSE 0

\* A secret that was made is one webhook's, or on its way to one, but for what clients do.
SecretsHeldOnce ==
    /\ Coined < minted
    /\ \A h \in hooks : hook[h].secret <= minted
    /\ SecretsApart
    /\ \A t \in Tasks : Fresh(task[t]) # 0 =>
          /\ Fresh(task[t]) > Coined
          /\ \A h \in hooks : hook[h].secret = Fresh(task[t]) => <<h, hook[h].secret>> \in given
          /\ \A u \in Tasks \ {t} : Fresh(task[u]) # Fresh(task[t])

IInv ==
    /\ TypeOK /\ (\A t \in Tasks : Fits(task[t]))
    /\ SecretsHeldOnce /\ SigningHasSecret /\ CredentialsStayPut /\ ReachWasGranted

-----------------------------------------------------------------------------
(* Lemmas *)

LEMMA IdleFits == Idle \in Task /\ Idle.step = "idle" /\ Fits(Idle) /\ Fresh(Idle) = 0
BY DEF Idle, Task, Fits, CopyFits, WriteFits, InsertFits, Fresh

\* What a task carries at each step.
LEMMA Carries ==
    ASSUME NEW r \in Task
    PROVE  /\ r.step \in Reads \cup {"idle", "forget", "write", "insert"}
           /\ r.step # "idle" => r.by \in AllKeys /\ r.copy \in Rows(Nat)
           /\ r.step \notin {"idle", "insert"} => r.hook \in Hooks
           /\ r.step = "write" => r.put \in Puts(Nat)
           /\ r.step \in {"write", "insert"} => r.supplied \in BOOLEAN
BY DEF Task, Reads

LEMMA MergedIs ==
    ASSUME NEW row \in Rows(Nat), NEW put \in Puts(Nat)
    PROVE  /\ Merged(row, put) \in Rows(Nat)
           /\ Merged(row, put).aim = Or(put.aim, row.aim)
           /\ Merged(row, put).mode = Or(put.mode, row.mode)
           /\ Merged(row, put).group = Or(put.group, row.group)
           /\ Merged(row, put).apikey = Or(put.apikey, row.apikey)
           /\ Merged(row, put).secret = (IF put.secret = 0 THEN row.secret ELSE put.secret)
           /\ Merged(row, put).owner = row.owner
BY ZenonT(90) DEF Merged, Or, Rows, Puts

\* The database only moves on: ids, secrets, and what may have gone stale.
Later ==
    /\ used \subseteq used' /\ minted <= minted' /\ minted' \in Nat
    /\ stale => stale'
    /\ \A h \in used : hook[h].secret # 0 => hook'[h].secret # 0

LEMMA FitsLater ==
    ASSUME TypeOK, NEW r \in Task, Fits(r), Later
    PROVE  Fits(r)'
<1>1. CopyFits(r)'
  BY DEF Fits, CopyFits, Later, TypeOK
<1>2. WriteFits(r)'
  <2>1. r.step = "write" => r.put.secret \in Nat
    BY Carries DEF Puts
  <2>2. r.step = "write" /\ r.put.secret <= minted => r.put.secret <= minted'
    BY <2>1 DEF Later, TypeOK
  <2> QED BY <2>2 DEF Fits, WriteFits
<1>3. InsertFits(r)'
  <2>1. r.step = "insert" => r.copy.secret \in Nat
    BY Carries DEF Rows
  <2>2. r.step = "insert" /\ r.copy.secret <= minted => r.copy.secret <= minted'
    BY <2>1 DEF Later, TypeOK
  <2> QED BY <2>2 DEF Fits, InsertFits, Later, TypeOK
<1> QED BY <1>1, <1>2, <1>3 DEF Fits

\* The others keep what they carry when task t moves on to r.
LEMMA Frame ==
    ASSUME TypeOK, \A u \in Tasks : Fits(task[u]), Later,
           NEW t \in Tasks, NEW r \in Task, Become(t, r), Fits(r)'
    PROVE  /\ task' \in [Tasks -> Task] /\ task'[t] = r
           /\ \A u \in Tasks \ {t} : task'[u] = task[u]
           /\ \A u \in Tasks : Fits(task[u])'
<1>1. /\ task' \in [Tasks -> Task] /\ task'[t] = r
      /\ \A u \in Tasks \ {t} : task'[u] = task[u]
  BY DEF TypeOK, Become
<1>2. ASSUME NEW u \in Tasks PROVE Fits(task[u])'
  <2>1. CASE u = t
    BY <1>1, <2>1 DEF Fits, CopyFits, WriteFits, InsertFits
  <2>2. CASE u # t
    <3>1. task'[u] = task[u]
      BY <1>1, <2>2
    <3>2. PICK v \in Task : v = task[u]
      BY DEF TypeOK
    <3>3. Fits(v)'
      BY <3>2, FitsLater
    <3>4. task'[u] = v
      BY <3>1, <3>2
    <3> QED BY <3>3, <3>4 DEF Fits, CopyFits, WriteFits, InsertFits
  <2> QED BY <2>1, <2>2
<1> QED BY <1>1, <1>2

\* The tasks are as they were, but for one that may be done.
LEMMA Settled ==
    ASSUME TypeOK, \A u \in Tasks : Fits(task[u]), Later,
           task' = task \/ \E t \in Tasks : Answer(t)
    PROVE  /\ task' \in [Tasks -> Task]
           /\ \A u \in Tasks : task'[u] = task[u] \/ task'[u] = Idle
           /\ \A u \in Tasks : Fits(task[u])'
<1>1. CASE task' = task
  <2>1. ASSUME NEW u \in Tasks PROVE Fits(task[u])'
    <3>1. PICK v \in Task : v = task[u]
      BY DEF TypeOK
    <3>2. Fits(v)' /\ task'[u] = v
      BY <1>1, <3>1, FitsLater
    <3> QED BY <3>2 DEF Fits, CopyFits, WriteFits, InsertFits
  <2> QED BY <1>1, <2>1 DEF TypeOK
<1>2. ASSUME NEW t \in Tasks, Answer(t)
      PROVE  /\ task' \in [Tasks -> Task]
             /\ \A u \in Tasks : task'[u] = task[u] \/ task'[u] = Idle
             /\ \A u \in Tasks : Fits(task[u])'
  <2>1. Idle \in Task /\ Fits(Idle)'
    BY IdleFits DEF Fits, CopyFits, WriteFits, InsertFits
  <2> QED BY <1>2, <2>1, Frame DEF Answer
<1> QED BY <1>1, <1>2

\* Any fresh secret is a number that was minted.
LEMMA FreshMinted ==
    ASSUME TypeOK, NEW t \in Tasks, Fits(task[t])
    PROVE  Fresh(task[t]) \in Nat /\ Fresh(task[t]) <= minted
<1>1. PICK r \in Task : r = task[t]
  BY DEF TypeOK
<1>2. r.step = "write" => r.put.secret \in Nat
  BY Carries DEF Puts
<1>3. r.step = "insert" => r.copy.secret \in Nat
  BY Carries DEF Rows
<1> QED BY <1>1, <1>2, <1>3 DEF Fresh, Fits, WriteFits, InsertFits, TypeOK

-----------------------------------------------------------------------------
(* Steps that write no row *)

\* A task goes on, with a new secret or none; rows stay.
LEMMA Prepare ==
    ASSUME IInv, NEW t \in Tasks, NEW r \in Task, Become(t, r), Fits(r)',
           UNCHANGED <<stored, rights, past>>, minted' \in Nat, requests' \in Nat,
           \/ Fresh(r) = 0 /\ minted <= minted'
           \/ Fresh(r) = minted + 1 /\ minted' = minted + 1
    PROVE  IInv'
<1>0. TypeOK /\ (\A u \in Tasks : Fits(task[u])) /\ SecretsHeldOnce
  BY DEF IInv
<1>1. minted \in Nat /\ minted <= minted'
  BY <1>0 DEF TypeOK
<1>2. Later
  BY <1>1 DEF Later, stored, past
<1>3. /\ task' \in [Tasks -> Task] /\ task'[t] = r
      /\ \A u \in Tasks \ {t} : task'[u] = task[u]
      /\ \A u \in Tasks : Fits(task[u])'
  BY <1>0, <1>2, Frame
<1>4. TypeOK'
  BY <1>0, <1>3 DEF TypeOK, stored, rights, past
<1>5. SecretsHeldOnce'
  <2>1. ASSUME NEW h \in hooks PROVE hook[h].secret \in Nat /\ hook[h].secret <= minted
    BY <1>0 DEF TypeOK, Rows, SecretsHeldOnce
  <2>2. SecretsApart'
    BY <1>0 DEF SecretsHeldOnce, SecretsApart, stored, past
  <2>3. \A u \in Tasks : Fresh(task[u]) \in Nat /\ Fresh(task[u]) <= minted
    BY <1>0, FreshMinted
  <2>4. \A u \in Tasks \ {t} : Fresh(task'[u]) = Fresh(task[u])
    BY <1>3
  <2>5. ASSUME NEW u \in Tasks, Fresh(task'[u]) # 0
        PROVE  /\ Fresh(task'[u]) > Coined
               /\ \A h \in hooks :
                     hook[h].secret = Fresh(task'[u]) => <<h, hook[h].secret>> \in given
               /\ \A v \in Tasks \ {u} : Fresh(task'[v]) # Fresh(task'[u])
    <3>1. CASE u = t
      <4>1. Fresh(task'[u]) = minted + 1 /\ Fresh(task'[u]) > Coined
        BY <1>0, <1>1, <1>3, <2>5, <3>1, BoundAssumption DEF SecretsHeldOnce
      <4>2. \A v \in Tasks \ {u} : Fresh(task'[v]) <= minted /\ Fresh(task'[v]) \in Nat
        BY <2>3, <2>4, <3>1
      <4> QED BY <1>1, <2>1, <4>1, <4>2
    <3>2. CASE u # t
      <4>1. Fresh(task'[u]) = Fresh(task[u])
        BY <2>4, <3>2
      <4>2. \A v \in Tasks \ {u, t} : Fresh(task'[v]) # Fresh(task'[u])
        BY <1>0, <2>4, <2>5, <4>1 DEF SecretsHeldOnce
      <4>3. Fresh(task'[t]) # Fresh(task'[u])
        BY <1>1, <1>3, <2>3, <2>5, <4>1
      <4> QED BY <1>0, <2>5, <4>1, <4>2, <4>3 DEF SecretsHeldOnce
    <3> QED BY <3>1, <3>2
  <2>6. Coined < minted' /\ \A h \in hooks : hook[h].secret <= minted'
    BY <1>0, <1>1, <2>1, BoundAssumption DEF SecretsHeldOnce
  <2> QED BY <2>2, <2>5, <2>6 DEF SecretsHeldOnce, stored, past, Fresh
<1>6. SigningHasSecret' /\ CredentialsStayPut' /\ ReachWasGranted'
  BY DEF IInv, SigningHasSecret, CredentialsStayPut, Astray, ReachWasGranted, stored, past
<1> QED BY <1>3, <1>4, <1>5, <1>6 DEF IInv

\* Rows only disappear; the task that saw to it is done.
LEMMA Fewer ==
    ASSUME IInv, UNCHANGED <<used, hook, minted, past>>, requests' \in Nat,
           hooks' \subseteq hooks, logged' \subseteq hooks',
           groups' \subseteq Groups, reading' \subseteq Readers,
           \A h \in hooks' : hook[h].group \in groups',
           task' = task \/ \E t \in Tasks : Answer(t)
    PROVE  IInv'
<1>0. TypeOK /\ (\A u \in Tasks : Fits(task[u])) /\ SecretsHeldOnce
  BY DEF IInv
<1>1. Later
  BY <1>0 DEF Later, past, TypeOK
<1>2. /\ task' \in [Tasks -> Task] /\ \A u \in Tasks : Fits(task[u])'
      /\ \A u \in Tasks : task'[u] = task[u] \/ task'[u] = Idle
  BY <1>0, <1>1, Settled
<1>3. TypeOK'
  BY <1>0, <1>2 DEF TypeOK, past
<1>4. SecretsHeldOnce'
  <2>1. \A u \in Tasks : Fresh(task'[u]) = Fresh(task[u]) \/ Fresh(task'[u]) = 0
    BY <1>2, IdleFits
  <2>2. ASSUME NEW u \in Tasks, Fresh(task'[u]) # 0
        PROVE  /\ Fresh(task'[u]) > Coined
               /\ \A h \in hooks' :
                     hook[h].secret = Fresh(task'[u]) => <<h, hook[h].secret>> \in given
               /\ \A v \in Tasks \ {u} : Fresh(task'[v]) # Fresh(task'[u])
    BY <1>0, <2>1, <2>2 DEF SecretsHeldOnce
  <2>3. Coined < minted' /\ (\A h \in hooks' : hook[h].secret <= minted') /\ SecretsApart'
    BY <1>0 DEF SecretsHeldOnce, SecretsApart, past
  <2> QED BY <2>2, <2>3 DEF SecretsHeldOnce, Fresh, past
<1>5. SigningHasSecret' /\ CredentialsStayPut' /\ ReachWasGranted'
  BY DEF IInv, SigningHasSecret, CredentialsStayPut, Astray, ReachWasGranted, past
<1> QED BY <1>2, <1>3, <1>4, <1>5 DEF IInv

LEMMA OthersStep ==
    ASSUME IInv,
           Regrant \/ RemoveGroup \/ (\E t \in Tasks : Delete(t) \/ Test(t) \/ Forget(t))
    PROVE  IInv'
<1>0. TypeOK
  BY DEF IInv
<1>1. CASE Regrant
  BY <1>0, <1>1, Fewer DEF Regrant, TypeOK, stored, past
<1>2. CASE RemoveGroup
  BY <1>0, <1>2, Fewer DEF RemoveGroup, Drop, TypeOK, past
<1>3. ASSUME NEW t \in Tasks, Delete(t) PROVE IInv'
  BY <1>0, <1>3, Fewer DEF Delete, Drop, TypeOK, past, rights
<1>4. ASSUME NEW t \in Tasks, Test(t) PROVE IInv'
  BY <1>0, <1>4, Fewer DEF Test, TypeOK, past, rights
<1>5. ASSUME NEW t \in Tasks, Forget(t) PROVE IInv'
  BY <1>0, <1>5, Fewer DEF Forget, TypeOK, past, rights
<1> QED BY <1>1, <1>2, <1>3, <1>4, <1>5

LEMMA FindStep ==
    ASSUME IInv, NEW t \in Tasks, Find(t) \/ FindExecution(t)
    PROVE  IInv'
<1>0. TypeOK /\ CredentialsStayPut
  BY DEF IInv
<1>1. PICK step \in Reads \cup {"forget"}, by \in AllKeys, h \in hooks :
         /\ requests' = requests + 1 /\ MayTouch(by, h)
         /\ Become(t, [step |-> step, by |-> by, hook |-> h, copy |-> hook[h]])
         /\ UNCHANGED <<stored, rights, minted, past>>
  BY <1>0 DEF Find, FindExecution, Served, TypeOK
<1> DEFINE r == [step |-> step, by |-> by, hook |-> h, copy |-> hook[h]]
<1>2. PICK c \in Rows(Nat) : c = hook[h]
  BY <1>0 DEF TypeOK
<1> DEFINE q == [step |-> step, by |-> by, hook |-> h, copy |-> c]
<1>3. h \in Hooks /\ h \in used
  BY <1>0 DEF TypeOK
<1>4. q \in Task /\ q.step = step /\ q.by = by /\ q.hook = h /\ q.copy = c
  BY <1>3 DEF Task
<1>5. Become(t, q)
  BY <1>1, <1>2
<1> HIDE DEF q
<1>6. step # "write" /\ step # "insert" /\ step # "idle"
  BY DEF Reads
<1>7. Fits(q)'
  BY <1>0, <1>1, <1>2, <1>3, <1>4, <1>6
     DEF Fits, CopyFits, WriteFits, InsertFits, MayTouch, KeyHeld, CredentialsStayPut, stored, past
<1>8. Fresh(q) = 0
  BY <1>4, <1>6 DEF Fresh
<1> QED BY <1>0, <1>1, <1>4, <1>5, <1>7, <1>8, Prepare DEF TypeOK

LEMMA UpdateStep ==
    ASSUME IInv, NEW t \in Tasks, Update(t)
    PROVE  IInv'
<1>0. TypeOK /\ Fits(task[t]) /\ At(t, "update")
  BY DEF IInv, Update
<1>1. PICK put \in Payloads, sent \in Sent \cup {0} :
         LET make == sent = 0 /\ MustRotate(Copy(t), put)
             full == [put EXCEPT !.secret = IF make THEN Made ELSE sent] IN
         \/ /\ MayUpdate(By(t), Copy(t), full)
            /\ minted' = IF make THEN Made ELSE minted
            /\ Become(t, [step |-> "write", by |-> By(t), hook |-> task[t].hook,
                          copy |-> Copy(t), put |-> full, supplied |-> sent # 0])
         \/ Answer(t) /\ UNCHANGED minted
  BY DEF Update
<1> PICK make \in BOOLEAN : make = (sent = 0 /\ MustRotate(Copy(t), put))
  OBVIOUS
<1> PICK secret : secret = IF make THEN minted + 1 ELSE sent
  OBVIOUS
<1> PICK full : full = [put EXCEPT !.secret = secret]
  OBVIOUS
<1>2. UNCHANGED <<stored, rights, requests, past>>
  BY DEF Update
<1>3. /\ minted \in Nat /\ requests' \in Nat /\ secret \in Nat
      /\ sent \in Nat /\ sent <= minted
  BY <1>0, <1>2 DEF TypeOK, Sent
<1>4. PICK q \in Task : q = task[t]
  BY <1>0 DEF TypeOK
<1>5. q.by \in AllKeys /\ q.copy \in Rows(Nat) /\ q.hook \in Hooks /\ q.step = "update"
  BY <1>0, <1>4, Carries DEF At
<1>6. CASE Answer(t) /\ UNCHANGED minted
  <2>1. Fits(Idle)'
    BY IdleFits DEF Fits, CopyFits, WriteFits, InsertFits
  <2> QED BY <1>2, <1>3, <1>6, <2>1, IdleFits, Prepare DEF Answer
<1>7. CASE /\ MayUpdate(q.by, q.copy, full)
           /\ minted' = IF make THEN minted + 1 ELSE minted
           /\ Become(t, [step |-> "write", by |-> q.by, hook |-> q.hook,
                         copy |-> q.copy, put |-> full, supplied |-> sent # 0])
  <2> DEFINE r == [step |-> "write", by |-> q.by, hook |-> q.hook,
                   copy |-> q.copy, put |-> full, supplied |-> sent # 0]
  <2>1. put \in Puts({0}) /\ full \in Puts(Nat) /\ full.secret = secret
    BY <1>1, <1>3, PayloadsAssumption DEF Puts
  <2>2. full.aim = put.aim /\ full.mode = put.mode
    BY <1>1, <2>1 DEF Puts
  <2>3. /\ r \in Task /\ r.step = "write" /\ r.by = q.by /\ r.hook = q.hook
        /\ r.copy = q.copy /\ r.put = full /\ r.supplied = (sent # 0)
    BY <1>5, <2>1 DEF Task
  <2> HIDE DEF r
  <2>4. MustRotate(q.copy, full) => secret # 0
    <3>1. MustRotate(q.copy, full) <=> MustRotate(Copy(t), put)
      BY <1>4, <2>2 DEF MustRotate, Repointed, Copy
    <3>2. CASE make
      BY <1>3, <3>2
    <3>3. CASE ~make
      BY <3>1, <3>3
    <3> QED BY <3>2, <3>3
  <2>5. secret <= minted' /\ minted <= minted'
    BY <1>3, <1>7
  <2>6. CopyFits(r)'
    BY <1>0, <1>2, <1>4, <1>5, <2>3 DEF Fits, CopyFits, stored, past
  <2>7. /\ Sound(Merged(q.copy, full))
        /\ Repointed(q.copy, full) \/ full.apikey # "keep" => q.copy.apikey = "none" \/ q.by = Master
        /\ q.by # Master /\ Or(full.group, q.copy.group) # q.copy.group =>
              <<q.by, full.group>> \in Readers
    BY <1>0, <1>7 DEF MayUpdate, CanRead, TypeOK
  <2>8. WriteFits(r)'
    <3>1. MustRotate(r.copy, r.put) => r.put.secret # 0
      BY <1>3, <2>1, <2>3, <2>4
    <3> QED BY <2>1, <2>3, <2>5, <2>7, <3>1 DEF WriteFits
  <2>9. Fits(r)'
    BY <2>3, <2>6, <2>8 DEF Fits, InsertFits
  <2>10. minted' \in Nat /\ Fresh(r) = (IF make THEN minted + 1 ELSE 0)
    BY <1>3, <1>7, <2>1, <2>3 DEF Fresh
  <2>11. \/ Fresh(r) = 0 /\ minted <= minted'
         \/ Fresh(r) = minted + 1 /\ minted' = minted + 1
    BY <1>3, <1>7, <2>5, <2>10
  <2> QED BY <1>2, <1>3, <1>7, <2>3, <2>9, <2>10, <2>11, Prepare DEF r
<1> QED BY <1>1, <1>4, <1>6, <1>7 DEF By, Copy, Made

LEMMA CreateStep ==
    ASSUME IInv, NEW t \in Tasks, Create(t)
    PROVE  IInv'
<1>0. TypeOK
  BY DEF IInv
<1>1. PICK by \in AllKeys, row \in Rows(Sent \cup {0}) :
         /\ row.owner = Owned(by) /\ CanRead(by, row.group) /\ Sound(row)
         /\ Become(t, [step |-> "insert", by |-> by, copy |-> row, supplied |-> row.secret # 0])
  BY DEF Create
<1>2. UNCHANGED <<stored, rights, minted, past>> /\ requests' = requests + 1
  BY DEF Create, Served
<1>3. minted \in Nat /\ requests' \in Nat /\ minted' \in Nat /\ minted <= minted'
  BY <1>0, <1>2 DEF TypeOK
<1>4. row \in Rows(Nat) /\ row.secret <= minted'
  BY <1>2, <1>3 DEF Rows, Sent
<1> DEFINE r == [step |-> "insert", by |-> by, copy |-> row, supplied |-> row.secret # 0]
<1>5. /\ r \in Task /\ r.step = "insert" /\ r.by = by /\ r.copy = row
      /\ r.supplied = (row.secret # 0)
  BY <1>4 DEF Task
<1> HIDE DEF r
<1>6. InsertFits(r)'
  <2>1. row.owner # "unowned" => <<row.owner, row.group>> \in Readers
    BY <1>0, <1>1 DEF Owned, CanRead, TypeOK
  <2> QED BY <1>1, <1>4, <1>5, <2>1 DEF InsertFits, Sound, KeyHeld
<1>7. Fits(r)'
  BY <1>5, <1>6 DEF Fits, CopyFits, WriteFits
<1>8. Fresh(r) = 0
  BY <1>5 DEF Fresh
<1> QED BY <1>1, <1>2, <1>3, <1>5, <1>7, <1>8, Prepare DEF r

LEMMA CloneStep ==
    ASSUME IInv, NEW t \in Tasks, Clone(t)
    PROVE  IInv'
<1>0. TypeOK /\ Fits(task[t]) /\ At(t, "clone")
  BY DEF IInv, Clone
<1>1. UNCHANGED <<stored, rights, requests, past>>
  BY DEF Clone
<1>2. minted \in Nat /\ requests' \in Nat
  BY <1>0, <1>1 DEF TypeOK
<1>3. PICK q \in Task : q = task[t]
  BY <1>0 DEF TypeOK
<1>4. q.by \in AllKeys /\ q.copy \in Rows(Nat) /\ q.hook \in Hooks /\ q.step = "clone"
  BY <1>0, <1>3, Carries DEF At
<1>5. CASE Answer(t) /\ UNCHANGED minted
  <2>1. Fits(Idle)'
    BY IdleFits DEF Fits, CopyFits, WriteFits, InsertFits
  <2> QED BY <1>1, <1>2, <1>5, <2>1, IdleFits, Prepare DEF Answer
<1>6. CASE /\ CanRead(q.by, q.copy.group)
           /\ Become(t, [step |-> "insert", by |-> q.by, copy |-> CloneOf(t, q.copy),
                         supplied |-> FALSE])
           /\ minted' = IF Signs(q.copy.mode) THEN minted + 1 ELSE minted
  <2>0. PICK row : row = CloneOf(t, q.copy)
    OBVIOUS
  <2>1. /\ row \in Rows(Nat) /\ row.owner = Owned(q.by) /\ row.mode = q.copy.mode
        /\ row.group = q.copy.group /\ row.apikey = q.copy.apikey
        /\ row.secret = IF Signs(q.copy.mode) THEN minted + 1 ELSE 0
    <3>1. PICK n \in Nat : n = IF Signs(q.copy.mode) THEN minted + 1 ELSE 0
      BY <1>2
    <3>2. PICK o \in Keys \cup {"unowned"} : o = Owned(q.by)
      BY <1>4 DEF Owned, AllKeys
    <3>3. row = [q.copy EXCEPT !.owner = o, !.secret = n]
      BY <1>3, <2>0, <3>1, <3>2 DEF CloneOf, By, Made
    <3> QED BY <1>4, <3>1, <3>2, <3>3 DEF Rows
  <2> DEFINE r == [step |-> "insert", by |-> q.by, copy |-> row, supplied |-> FALSE]
  <2>2. r \in Task /\ r.step = "insert" /\ r.by = q.by /\ r.copy = row /\ r.supplied = FALSE
    BY <1>4, <2>1 DEF Task
  <2> HIDE DEF r
  <2>3. minted' \in Nat /\ minted <= minted' /\ row.secret <= minted'
    BY <1>2, <1>6, <2>1
  <2>4. row.owner # "unowned" => <<row.owner, row.group>> \in Readers
    BY <1>0, <1>6, <2>1 DEF Owned, CanRead, TypeOK
  <2>5. ~stale => KeyHeld(row)
    BY <1>0, <1>3, <1>4, <2>1 DEF Fits, CopyFits, KeyHeld
  <2>6. Signs(row.mode) => row.secret # 0
    BY <1>2, <2>1
  <2>7. InsertFits(r)'
    BY <1>1, <2>2, <2>3, <2>4, <2>5, <2>6 DEF InsertFits, past
  <2>8. Fits(r)'
    BY <2>2, <2>7 DEF Fits, CopyFits, WriteFits
  <2>9. \/ Fresh(r) = 0 /\ minted <= minted'
        \/ Fresh(r) = minted + 1 /\ minted' = minted + 1
    BY <1>2, <1>6, <2>1, <2>2, <2>3 DEF Fresh
  <2>10. Become(t, r)
    BY <1>6, <2>0 DEF r
  <2> QED BY <1>1, <1>2, <2>2, <2>3, <2>8, <2>9, <2>10, Prepare
<1> QED BY <1>3, <1>5, <1>6 DEF Clone, By, Copy, Made

-----------------------------------------------------------------------------
(* Steps that write a row *)

\* A row comes to hold no secret, its own, one that a client supplied for it, or one that
\* was made for it and that no task is about to store any more.
LEMMA SecretsKept ==
    ASSUME SecretsHeldOnce, NEW h, NEW secret,
           hooks' = hooks \cup {h}, hook'[h].secret = secret,
           \A i \in hooks \ {h} : hook'[i] = hook[i],
           given \subseteq given', minted' = minted, secret <= minted,
           \A u \in Tasks : task'[u] = task[u] \/ task'[u] = Idle,
           \/ secret = 0
           \/ h \in hooks /\ secret = hook[h].secret
           \/ <<h, secret>> \in given'
           \/ \E t \in Tasks : task'[t] = Idle /\ secret = Fresh(task[t])
    PROVE  SecretsHeldOnce'
<1>1. \A i \in hooks' : hook'[i].secret <= minted'
  BY DEF SecretsHeldOnce
<1>2. \A u \in Tasks : Fresh(task'[u]) # 0 => task'[u] = task[u]
  BY IdleFits
<1>3. \/ secret = 0
      \/ h \in hooks /\ secret = hook[h].secret
      \/ <<h, secret>> \in given'
      \/ /\ secret > Coined
         /\ \A i \in hooks : hook[i].secret = secret => <<i, secret>> \in given
         /\ \A u \in Tasks : Fresh(task'[u]) # 0 => Fresh(task'[u]) # secret
  <2>1. ASSUME NEW t \in Tasks, task'[t] = Idle, secret = Fresh(task[t]), secret # 0
        PROVE  /\ secret > Coined
               /\ \A i \in hooks : hook[i].secret = secret => <<i, secret>> \in given
               /\ \A u \in Tasks : Fresh(task'[u]) # 0 => Fresh(task'[u]) # secret
    <3>1. /\ secret > Coined
          /\ \A i \in hooks : hook[i].secret = secret => <<i, secret>> \in given
          /\ \A u \in Tasks \ {t} : Fresh(task[u]) # secret
      BY <2>1 DEF SecretsHeldOnce
    <3>2. Fresh(task'[t]) = 0
      BY <2>1, IdleFits
    <3> QED BY <1>2, <3>1, <3>2
  <2> QED BY <2>1
<1>4. SecretsApart'
  <2> SUFFICES ASSUME NEW x \in hooks', hook'[x].secret # 0, <<x, hook'[x].secret>> \notin given'
               PROVE  /\ hook'[x].secret > Coined
                      /\ \A i \in hooks' \ {x} : hook'[i].secret = hook'[x].secret =>
                            <<i, hook'[i].secret>> \in given'
    BY DEF SecretsApart
  <2>1. CASE x = h
    <3>1. CASE h \in hooks /\ secret = hook[h].secret
      BY <2>1, <3>1 DEF SecretsHeldOnce, SecretsApart
    <3> QED BY <1>3, <2>1, <3>1
  <2>2. CASE x # h
    <3>1. /\ x \in hooks /\ hook'[x] = hook[x] /\ hook[x].secret > Coined
          /\ \A i \in hooks \ {x} : hook[i].secret = hook[x].secret =>
                <<i, hook[i].secret>> \in given
      BY <2>2 DEF SecretsHeldOnce, SecretsApart
    <3>2. ASSUME secret = hook[x].secret PROVE <<h, secret>> \in given'
      BY <1>3, <2>2, <3>1, <3>2
    <3> QED BY <2>2, <3>1, <3>2
  <2> QED BY <2>1, <2>2
<1>5. ASSUME NEW u \in Tasks, Fresh(task'[u]) # 0
      PROVE  /\ Fresh(task'[u]) > Coined
             /\ \A i \in hooks' : hook'[i].secret = Fresh(task'[u]) =>
                   <<i, hook'[i].secret>> \in given'
             /\ \A v \in Tasks \ {u} : Fresh(task'[v]) # Fresh(task'[u])
  <2>1. /\ task'[u] = task[u] /\ Fresh(task[u]) # 0 /\ Fresh(task[u]) > Coined
        /\ \A i \in hooks : hook[i].secret = Fresh(task[u]) => <<i, hook[i].secret>> \in given
        /\ \A v \in Tasks \ {u} : Fresh(task[v]) # Fresh(task[u])
    BY <1>2, <1>5 DEF SecretsHeldOnce
  <2>2. secret = Fresh(task[u]) => <<h, secret>> \in given'
    BY <1>3, <1>5, <2>1
  <2>3. \A v \in Tasks \ {u} : Fresh(task'[v]) # Fresh(task'[u])
    BY <1>2, <1>5, <2>1
  <2>4. \A i \in hooks' : hook'[i].secret = Fresh(task'[u]) => <<i, hook'[i].secret>> \in given'
    BY <2>1, <2>2
  <2> QED BY <2>1, <2>3, <2>4
<1> QED BY <1>1, <1>4, <1>5 DEF SecretsHeldOnce, Fresh

LEMMA InsertStep ==
    ASSUME IInv, NEW t \in Tasks, Insert(t)
    PROVE  IInv'
<1>0. TypeOK /\ (\A u \in Tasks : Fits(task[u])) /\ SecretsHeldOnce /\ At(t, "insert")
  BY DEF IInv, Insert
<1>1. UNCHANGED <<logged, groups, reading, minted, requests>> /\ Answer(t)
  BY DEF Insert, rights
<1>2. CASE UNCHANGED <<hooks, used, hook, past>>
  BY <1>0, <1>1, <1>2, Fewer DEF TypeOK
<1>3. CASE /\ Copy(t).group \in groups
           /\ \E h \in Hooks \ used :
                 /\ hooks' = hooks \cup {h} /\ used' = used \cup {h}
                 /\ hook' = [hook EXCEPT ![h] = Copy(t)]
                 /\ chosen' = chosen \cup Asked(h, Copy(t), Copy(t).secret # 0, TRUE)
                 /\ given' = Supplied(h, Copy(t).secret, task[t].supplied)
           /\ UNCHANGED <<vouched, stale>>
  <2> PICK q \in Task : q = task[t]
    BY <1>0 DEF TypeOK
  <2> PICK row \in Rows(Nat) : row = q.copy
    BY <1>0, Carries DEF At
  <2>1. PICK h \in Hooks \ used :
           /\ hooks' = hooks \cup {h} /\ used' = used \cup {h}
           /\ hook' = [hook EXCEPT ![h] = row]
           /\ chosen' = chosen \cup Asked(h, row, row.secret # 0, TRUE)
           /\ given' = Supplied(h, row.secret, q.supplied)
    BY <1>3 DEF Copy
  <2>2. row.group \in groups /\ vouched' = vouched /\ stale' = stale
    BY <1>3 DEF Copy
  <2>3. /\ hook' \in [Hooks -> Rows(Nat)] /\ hook'[h] = row /\ h \notin hooks
        /\ \A i \in Hooks \ {h} : hook'[i] = hook[i]
    BY <1>0, <2>1 DEF TypeOK
  <2>4. /\ Signs(row.mode) => row.secret # 0
        /\ row.secret <= minted
        /\ row.owner # "unowned" => <<row.owner, row.group>> \in Readers
        /\ ~stale => KeyHeld(row)
    BY <1>0 DEF Fits, InsertFits, At
  <2>5. Later
    BY <1>0, <1>1, <2>1, <2>2, <2>3 DEF Later, TypeOK
  <2>6. Idle \in Task /\ Fits(Idle)' /\ Fresh(Idle) = 0
    BY IdleFits DEF Fits, CopyFits, WriteFits, InsertFits
  <2>7. /\ task' \in [Tasks -> Task] /\ task'[t] = Idle
        /\ \A u \in Tasks \ {t} : task'[u] = task[u]
        /\ \A u \in Tasks : Fits(task[u])'
    BY <1>0, <1>1, <2>5, <2>6, Frame DEF Answer
  <2>8. /\ chosen' \subseteq Hooks \X (Nat \cup ApiKeys) \X Aims
        /\ given \subseteq given' /\ given' \subseteq Hooks \X Nat
    BY <1>0, <2>1 DEF Asked, Supplied, TypeOK, Rows
  <2>9. TypeOK'
    BY <1>0, <1>1, <2>1, <2>2, <2>3, <2>7, <2>8 DEF TypeOK
  <2>10. SecretsHeldOnce'
    <3>2. ~q.supplied => row.secret = Fresh(task[t])
      BY <1>0 DEF Fresh, At
    <3>3. <<h, row.secret>> \in given' \/ row.secret = Fresh(task[t])
      BY <2>1, <3>2 DEF Supplied
    <3>4. \A i \in hooks \ {h} : hook'[i] = hook[i]
      BY <1>0, <2>3 DEF TypeOK
    <3>5. \A u \in Tasks : task'[u] = task[u] \/ task'[u] = Idle
      BY <2>7
    <3> QED BY <1>0, <1>1, <2>1, <2>3, <2>4, <2>7, <2>8, <3>3, <3>4, <3>5, SecretsKept
  <2>11. SigningHasSecret'
    BY <1>0, <2>1, <2>3, <2>4 DEF IInv, SigningHasSecret, TypeOK
  <2>12. CredentialsStayPut'
    <3> SUFFICES ASSUME ~stale, NEW i \in hooks'
                 PROVE  ~Astray(i)' /\ (hook'[i].mode = "key" => hook'[i].apikey # "none")
      BY <2>2 DEF CredentialsStayPut
    <3>1. CASE i = h
      BY <2>1, <2>2, <2>3, <2>4, <3>1 DEF Astray, Asked, KeyHeld
    <3>2. CASE i # h
      <4>1. i \in hooks /\ hook'[i] = hook[i] /\ chosen \subseteq chosen'
        BY <1>0, <2>1, <2>2, <2>3, <3>2 DEF TypeOK
      <4> QED BY <4>1 DEF IInv, CredentialsStayPut, Astray
    <3> QED BY <3>1, <3>2
  <2>13. ReachWasGranted'
    BY <1>0, <2>1, <2>2, <2>3, <2>4 DEF IInv, ReachWasGranted, TypeOK
  <2> QED BY <2>7, <2>9, <2>10, <2>11, <2>12, <2>13 DEF IInv
<1> QED BY <1>2, <1>3 DEF Insert

\* One row is written over, with its own secret, a client's, or the one made for it.
LEMMA Overwrite ==
    ASSUME IInv, NEW h \in hooks, NEW row \in Rows(Nat),
           hook' = [hook EXCEPT ![h] = row],
           UNCHANGED <<hooks, used, logged, rights, minted>>, requests' \in Nat,
           row.group \in groups, Signs(row.mode) => row.secret # 0,
           hook[h].secret # 0 => row.secret # 0, row.secret <= minted,
           \/ task' = task /\ row.secret = hook[h].secret
           \/ \E t \in Tasks : /\ Answer(t)
                               /\ \/ row.secret = hook[h].secret
                                  \/ <<h, row.secret>> \in given'
                                  \/ row.secret = Fresh(task[t]),
           chosen \subseteq chosen', chosen' \subseteq Hooks \X (Nat \cup ApiKeys) \X Aims,
           given \subseteq given', given' \subseteq Hooks \X Nat,
           vouched \subseteq vouched', vouched' \subseteq (Keys \cup {"unowned"}) \X Groups,
           stale' \in BOOLEAN, stale => stale',
           ~stale' => /\ Signs(row.mode) => <<h, row.secret, row.aim>> \in chosen'
                      /\ row.apikey # "none" => <<h, row.apikey, row.aim>> \in chosen'
                      /\ row.mode = "key" => row.apikey # "none"
                      /\ row.owner # "unowned" => <<row.owner, row.group>> \in Readers \cup vouched'
    PROVE  IInv'
<1>0. TypeOK /\ (\A u \in Tasks : Fits(task[u])) /\ SecretsHeldOnce
  BY DEF IInv
<1>1. UNCHANGED <<hooks, used, logged, groups, reading, minted>>
  BY DEF rights
<1>2. /\ hook' \in [Hooks -> Rows(Nat)] /\ hook'[h] = row
      /\ \A i \in Hooks \ {h} : hook'[i] = hook[i]
  BY <1>0 DEF TypeOK
<1>3. \A i \in used : hook[i].secret # 0 => hook'[i].secret # 0
  BY <1>0, <1>2 DEF TypeOK
<1>4. Later
  BY <1>0, <1>1, <1>3 DEF Later, TypeOK
<1>5. task' = task \/ \E t \in Tasks : Answer(t)
  OBVIOUS
<1>6. /\ task' \in [Tasks -> Task] /\ \A u \in Tasks : Fits(task[u])'
      /\ \A u \in Tasks : task'[u] = task[u] \/ task'[u] = Idle
  BY <1>0, <1>4, <1>5, Settled
<1>7. TypeOK'
  BY <1>0, <1>1, <1>2, <1>6 DEF TypeOK
<1>8. SecretsHeldOnce'
  <2>1. \A t \in Tasks : Answer(t) => task'[t] = Idle
    BY <1>0 DEF Answer, Become, TypeOK
  <2>2. \/ row.secret = hook[h].secret \/ <<h, row.secret>> \in given'
        \/ \E t \in Tasks : task'[t] = Idle /\ row.secret = Fresh(task[t])
    BY <2>1
  <2>3. hooks' = hooks \cup {h} /\ hook'[h].secret = row.secret
    BY <1>1, <1>2
  <2>4. \A i \in hooks \ {h} : hook'[i] = hook[i]
    BY <1>0, <1>2 DEF TypeOK
  <2> QED BY <1>0, <1>1, <1>6, <2>2, <2>3, <2>4, SecretsKept
<1>9. SigningHasSecret'
  BY <1>0, <1>1, <1>2 DEF IInv, SigningHasSecret, TypeOK
<1>10. CredentialsStayPut' /\ ReachWasGranted'
  <2> SUFFICES ASSUME ~stale', NEW i \in hooks
               PROVE  /\ ~Astray(i)' /\ (hook'[i].mode = "key" => hook'[i].apikey # "none")
                      /\ hook'[i].owner # "unowned" =>
                            <<hook'[i].owner, hook'[i].group>> \in Readers \cup vouched'
    BY <1>1 DEF CredentialsStayPut, ReachWasGranted
  <2>1. CASE i = h
    BY <1>2, <2>1 DEF Astray
  <2>2. CASE i # h
    <3>1. hook'[i] = hook[i] /\ ~stale
      BY <1>0, <1>2, <2>2 DEF TypeOK
    <3> QED BY <3>1 DEF IInv, CredentialsStayPut, ReachWasGranted, Astray
  <2> QED BY <2>1, <2>2
<1> QED BY <1>6, <1>7, <1>8, <1>9, <1>10 DEF IInv

LEMMA ReassignStep ==
    ASSUME IInv, NEW t \in Tasks, Reassign(t)
    PROVE  IInv'
<1>0. TypeOK /\ At(t, "reassign")
  BY DEF IInv, Reassign
<1>1. UNCHANGED <<hooks, used, logged, rights, minted, requests>> /\ Answer(t)
  BY DEF Reassign
<1>2. CASE UNCHANGED <<hook, past>>
  BY <1>0, <1>1, <1>2, Fewer DEF TypeOK, rights
<1>3. ASSUME NEW owner \in Keys \cup {"unowned"}, task[t].hook \in hooks,
             hook' = [hook EXCEPT ![task[t].hook].owner = owner],
             vouched' = vouched \cup {<<owner, Copy(t).group>>},
             stale' = (stale \/ hook[task[t].hook] # Copy(t)), UNCHANGED <<chosen, given>>
      PROVE  IInv'
  <2> PICK q \in Task : q = task[t]
    BY <1>0 DEF TypeOK
  <2> PICK h \in hooks : h = q.hook
    BY <1>3
  <2> PICK old \in Rows(Nat) : old = hook[h]
    BY <1>0 DEF TypeOK
  <2> PICK row : row = [old EXCEPT !.owner = owner]
    OBVIOUS
  <2>1. /\ row \in Rows(Nat) /\ row.owner = owner /\ row.group = old.group
        /\ row.mode = old.mode /\ row.secret = old.secret /\ row.aim = old.aim
        /\ row.apikey = old.apikey
    BY DEF Rows
  <2>2. hook' = [hook EXCEPT ![h] = row]
    BY <1>0, <1>3 DEF TypeOK
  <2>3. q.copy \in Rows(Nat) /\ q.copy.group \in Groups
    BY <1>0, Carries DEF At, Reads, Rows
  <2>4. vouched' = vouched \cup {<<owner, q.copy.group>>} /\ stale' = (stale \/ old # q.copy)
    BY <1>3 DEF Copy
  <2>5. vouched' \subseteq (Keys \cup {"unowned"}) \X Groups /\ stale' \in BOOLEAN
    BY <1>0, <2>3, <2>4 DEF TypeOK
  <2>6. row.group \in groups /\ (Signs(row.mode) => row.secret # 0)
    BY <1>0, <2>1 DEF IInv, TypeOK, SigningHasSecret
  <2>7. ASSUME ~stale'
        PROVE  /\ Signs(row.mode) => <<h, row.secret, row.aim>> \in chosen'
               /\ row.apikey # "none" => <<h, row.apikey, row.aim>> \in chosen'
               /\ row.mode = "key" => row.apikey # "none"
               /\ row.owner # "unowned" => <<row.owner, row.group>> \in Readers \cup vouched'
    <3>1. ~stale /\ old = q.copy
      BY <2>4, <2>7
    <3>2. ~Astray(h) /\ (old.mode = "key" => old.apikey # "none")
      BY <3>1 DEF IInv, CredentialsStayPut
    <3>3. /\ Signs(old.mode) => <<h, old.secret, old.aim>> \in chosen
          /\ old.apikey # "none" => <<h, old.apikey, old.aim>> \in chosen
      BY <3>2 DEF Astray
    <3>4. <<row.owner, row.group>> \in vouched'
      BY <2>1, <2>4, <3>1
    <3> QED BY <1>3, <2>1, <3>2, <3>3, <3>4
  <2>8. /\ vouched \subseteq vouched' /\ (stale => stale')
        /\ chosen \subseteq chosen' /\ chosen' \subseteq Hooks \X (Nat \cup ApiKeys) \X Aims
        /\ given \subseteq given' /\ given' \subseteq Hooks \X Nat
        /\ row.secret = hook[h].secret /\ row.secret <= minted /\ requests' \in Nat
    BY <1>0, <1>1, <1>3, <2>1, <2>4 DEF TypeOK, IInv, SecretsHeldOnce
  <2> HIDE DEF Answer
  <2> QED BY <1>1, <2>1, <2>2, <2>5, <2>6, <2>7, <2>8, Overwrite
<1> QED BY <1>1, <1>2, <1>3 DEF Reassign

LEMMA ResolveStep ==
    ASSUME IInv, Resolve
    PROVE  IInv'
<1>0. TypeOK
  BY DEF IInv
<1>1. UNCHANGED <<used, rights, minted, task>> /\ requests' \in Nat
  BY <1>0 DEF Resolve, Served, TypeOK
<1>2. ASSUME NEW h \in hooks, Drop({h}), UNCHANGED <<hook, past>>
      PROVE  IInv'
  BY <1>0, <1>1, <1>2, Fewer DEF TypeOK, Drop, rights
<1>3. ASSUME NEW h \in hooks, NEW heir \in Keys,
             hook' = [hook EXCEPT ![h].owner = heir],
             vouched' = vouched \cup {<<heir, hook[h].group>>},
             UNCHANGED <<hooks, logged, chosen, given, stale>>
      PROVE  IInv'
  <2> PICK old \in Rows(Nat) : old = hook[h]
    BY <1>0 DEF TypeOK
  <2> PICK row : row = [old EXCEPT !.owner = heir]
    OBVIOUS
  <2>1. /\ row \in Rows(Nat) /\ row.owner = heir /\ row.group = old.group
        /\ row.mode = old.mode /\ row.secret = old.secret /\ row.aim = old.aim
        /\ row.apikey = old.apikey
    BY DEF Rows
  <2>2. hook' = [hook EXCEPT ![h] = row]
    BY <1>0, <1>3 DEF TypeOK
  <2>3. vouched \subseteq vouched' /\ vouched' \subseteq (Keys \cup {"unowned"}) \X Groups
    BY <1>0, <1>3 DEF TypeOK, Rows
  <2>4. row.group \in groups /\ (Signs(row.mode) => row.secret # 0) /\ row.secret <= minted
    BY <1>0, <2>1 DEF IInv, TypeOK, SigningHasSecret, SecretsHeldOnce
  <2>5. ASSUME ~stale'
        PROVE  /\ Signs(row.mode) => <<h, row.secret, row.aim>> \in chosen'
               /\ row.apikey # "none" => <<h, row.apikey, row.aim>> \in chosen'
               /\ row.mode = "key" => row.apikey # "none"
               /\ row.owner # "unowned" => <<row.owner, row.group>> \in Readers \cup vouched'
    <3>1. ~Astray(h) /\ (old.mode = "key" => old.apikey # "none")
      BY <1>3, <2>5 DEF IInv, CredentialsStayPut
    <3>2. /\ Signs(old.mode) => <<h, old.secret, old.aim>> \in chosen
          /\ old.apikey # "none" => <<h, old.apikey, old.aim>> \in chosen
      BY <3>1 DEF Astray
    <3> QED BY <1>3, <2>1, <3>1, <3>2
  <2>6. /\ chosen' = chosen /\ given' = given /\ stale' = stale /\ stale' \in BOOLEAN
        /\ chosen' \subseteq Hooks \X (Nat \cup ApiKeys) \X Aims /\ given' \subseteq Hooks \X Nat
    BY <1>0, <1>3 DEF TypeOK
  <2>7. task' = task /\ row.secret = hook[h].secret /\ (hook[h].secret # 0 => row.secret # 0)
    BY <1>1, <2>1
  <2>8. UNCHANGED <<hooks, used, logged, rights, minted>>
    BY <1>1, <1>3
  <2> QED BY <1>1, <2>1, <2>2, <2>3, <2>4, <2>5, <2>6, <2>7, <2>8, Overwrite
<1> QED BY <1>2, <1>3 DEF Resolve

LEMMA WriteStep ==
    ASSUME IInv, NEW t \in Tasks, Write(t)
    PROVE  IInv'
<1>0. TypeOK /\ Fits(task[t]) /\ At(t, "write")
  BY DEF IInv, Write
<1>1. UNCHANGED <<hooks, used, logged, rights, minted, requests>> /\ Answer(t)
  BY DEF Write
<1>2. CASE UNCHANGED <<hook, past>>
  BY <1>0, <1>1, <1>2, Fewer DEF TypeOK, rights
<1> PICK q \in Task : q = task[t]
  BY SMTT(90), <1>0 DEF TypeOK
<1>3. CASE /\ q.hook \in hooks /\ Or(q.put.group, hook[q.hook].group) \in groups
           /\ hook' = [hook EXCEPT ![q.hook] = Merged(@, q.put)]
           /\ chosen' = chosen \cup Asked(q.hook, Merged(q.copy, q.put), q.put.secret # 0,
                                          q.put.apikey # "keep" \/ q.by = Master)
           /\ given' = Supplied(q.hook, q.put.secret, q.supplied)
           /\ vouched' = IF q.by = Master
                         THEN vouched \cup {<<Merged(q.copy, q.put).owner,
                                              Merged(q.copy, q.put).group>>}
                         ELSE vouched
           /\ stale' = (stale \/ hook[q.hook] # q.copy)
  <2> PICK h \in hooks : h = q.hook
    BY <1>3
  <2>1. q.by \in AllKeys /\ q.copy \in Rows(Nat) /\ q.put \in Puts(Nat) /\ q.step = "write"
    BY <1>0, Carries DEF At
  <2> PICK copy \in Rows(Nat), put \in Puts(Nat) : copy = q.copy /\ put = q.put
    BY <2>1
  <2> PICK old \in Rows(Nat) : old = hook[h]
    BY <1>0 DEF TypeOK
  <2> PICK view \in Rows(Nat), row \in Rows(Nat) : view = Merged(copy, put) /\ row = Merged(old, put)
    BY MergedIs
  <2>2. /\ view.aim = Or(put.aim, copy.aim) /\ view.mode = Or(put.mode, copy.mode)
        /\ view.group = Or(put.group, copy.group) /\ view.apikey = Or(put.apikey, copy.apikey)
        /\ view.secret = (IF put.secret = 0 THEN copy.secret ELSE put.secret)
        /\ view.owner = copy.owner
    BY MergedIs
  <2>3. /\ row.mode = Or(put.mode, old.mode) /\ row.group = Or(put.group, old.group)
        /\ row.secret = (IF put.secret = 0 THEN old.secret ELSE put.secret)
    BY MergedIs
  <2>4. /\ row.group \in groups /\ hook' = [hook EXCEPT ![h] = row]
        /\ chosen' = chosen \cup Asked(h, view, put.secret # 0,
                                       put.apikey # "keep" \/ q.by = Master)
        /\ given' = Supplied(h, put.secret, q.supplied)
        /\ vouched' = IF q.by = Master THEN vouched \cup {<<view.owner, view.group>>} ELSE vouched
        /\ stale' = (stale \/ old # copy)
    BY <1>3, <2>3
  <2>5. /\ copy.secret # 0 => old.secret # 0
        /\ q.by = Master \/ copy.owner = q.by
        /\ MustRotate(copy, put) => put.secret # 0
        /\ Sound(view)
        /\ Repointed(copy, put) \/ put.apikey # "keep" => copy.apikey = "none" \/ q.by = Master
        /\ q.by # Master /\ view.group # copy.group => <<q.by, put.group>> \in Readers
        /\ put.secret <= minted
    BY <1>0, <2>1, <2>2 DEF Fits, CopyFits, WriteFits
  <2>6. Signs(row.mode) => row.secret # 0
    BY <2>2, <2>3, <2>5 DEF IInv, SigningHasSecret, Sound, Or
  <2>7. /\ \/ row.secret = hook[h].secret \/ <<h, row.secret>> \in given'
           \/ row.secret = Fresh(task[t])
        /\ row.secret <= minted /\ (hook[h].secret # 0 => row.secret # 0)
    <3>1. CASE put.secret = 0
      BY <1>0, <2>3, <3>1 DEF IInv, SecretsHeldOnce
    <3>2. CASE put.secret # 0
      <4>1. row.secret = put.secret
        BY <2>3, <3>2
      <4>2. q.supplied => <<h, row.secret>> \in given'
        BY <2>4, <4>1 DEF Supplied
      <4>3. ~q.supplied => row.secret = Fresh(task[t])
        BY <2>1, <4>1 DEF Fresh
      <4> QED BY <2>5, <3>2, <4>1, <4>2, <4>3
    <3> QED BY <3>1, <3>2
  <2>8. /\ chosen \subseteq chosen' /\ chosen' \subseteq Hooks \X (Nat \cup ApiKeys) \X Aims
        /\ given \subseteq given' /\ given' \subseteq Hooks \X Nat /\ requests' \in Nat
    BY <1>0, <1>1, <2>4 DEF TypeOK, Asked, Supplied, Rows, Puts
  <2>9. vouched \subseteq vouched' /\ vouched' \subseteq (Keys \cup {"unowned"}) \X Groups
    BY <1>0, <2>4 DEF TypeOK, Rows
  <2>10. stale' \in BOOLEAN /\ (stale => stale')
    BY <1>0, <2>4 DEF TypeOK
  <2>11. ASSUME ~stale'
         PROVE  /\ Signs(row.mode) => <<h, row.secret, row.aim>> \in chosen'
                /\ row.apikey # "none" => <<h, row.apikey, row.aim>> \in chosen'
                /\ row.mode = "key" => row.apikey # "none"
                /\ row.owner # "unowned" => <<row.owner, row.group>> \in Readers \cup vouched'
    <3>1. ~stale /\ old = copy /\ row = view
      BY <2>4, <2>11
    <3>2. ASSUME Signs(view.mode) PROVE <<h, view.secret, view.aim>> \in chosen'
      <4>1. CASE put.secret # 0
        BY <2>4, <4>1 DEF Asked
      <4>2. CASE put.secret = 0
        <5>1. view.mode = copy.mode /\ view.aim = copy.aim /\ view.secret = copy.secret
          BY <2>2, <2>5, <3>2, <4>2 DEF MustRotate, Repointed
        <5>2. <<h, copy.secret, copy.aim>> \in chosen
          BY <3>1, <3>2, <5>1 DEF IInv, CredentialsStayPut, Astray
        <5> QED BY <2>8, <5>1, <5>2
      <4> QED BY <4>1, <4>2
    <3>3. ASSUME view.apikey # "none" PROVE <<h, view.apikey, view.aim>> \in chosen'
      <4>1. CASE put.apikey # "keep" \/ q.by = Master
        BY <2>4, <3>3, <4>1 DEF Asked
      <4>2. CASE put.apikey = "keep" /\ q.by # Master
        <5>1. view.apikey = copy.apikey /\ view.aim = copy.aim
          BY <2>2, <2>5, <3>3, <4>2 DEF Repointed, Or
        <5>2. <<h, copy.apikey, copy.aim>> \in chosen
          BY <3>1, <3>3, <5>1 DEF IInv, CredentialsStayPut, Astray
        <5> QED BY <2>8, <5>1, <5>2
      <4> QED BY <4>1, <4>2
    <3>4. ASSUME view.owner # "unowned"
          PROVE  <<view.owner, view.group>> \in Readers \cup vouched'
      <4>1. CASE q.by = Master
        BY <2>4, <4>1
      <4>2. CASE q.by # Master /\ view.group # copy.group
        BY <2>2, <2>5, <4>2 DEF Or
      <4>3. CASE view.group = copy.group
        <5>1. <<copy.owner, copy.group>> \in Readers \cup vouched
          BY ZenonT(90), <2>2, <3>1, <3>4 DEF IInv, ReachWasGranted
        <5> QED BY <2>2, <2>9, <4>3, <5>1
      <4> QED BY <4>1, <4>2, <4>3
    <3> QED BY <2>5, <3>1, <3>2, <3>3, <3>4 DEF Sound
  <2> HIDE DEF Answer
  <2> QED BY ZenonT(90), <1>1, <2>4, <2>6, <2>7, <2>8, <2>9, <2>10, <2>11, Overwrite
<1> QED BY <1>1, <1>2, <1>3 DEF Write, Copy, By

LEMMA InitInvariant == Init => IInv
<1> SUFFICES ASSUME Init PROVE IInv
  OBVIOUS
<1> PICK h \in Hooks, row \in Existing :
        /\ hooks = {h} /\ used = {h} /\ hook = [i \in Hooks |-> row]
        /\ chosen = Asked(h, row, row.secret # 0, TRUE)
        /\ given = IF row.secret \in 1..Coined THEN {<<h, row.secret>>} ELSE {}
  BY DEF Init
<1>1. /\ row \in Rows(Nat) /\ row.secret \in 0..(Coined + 1) /\ Sound(row)
      /\ row.owner # "unowned" => <<row.owner, row.group>> \in Readers
  BY ExistingAssumption, BoundAssumption DEF Rows
<1>2. \A t \in Tasks : task[t] = Idle
  BY DEF Init
<1>3. chosen \subseteq Hooks \X (Nat \cup ApiKeys) \X Aims /\ given \subseteq Hooks \X Nat
  <2>1. row.secret \in Nat /\ row.apikey \in ApiKeys \cup {"none"} /\ row.aim \in Aims
    BY <1>1 DEF Rows
  <2>2. given \subseteq Hooks \X Nat
    BY <2>1
  <2>3. chosen \subseteq Hooks \X (Nat \cup ApiKeys) \X Aims
    BY <2>1 DEF Asked
  <2> QED BY <2>2, <2>3
<1>4. task \in [Tasks -> Task] /\ \A t \in Tasks : Fits(task[t])
  BY IdleFits DEF Init
<1>5. \A i \in hooks : hook[i] = row
  OBVIOUS
<1>6. TypeOK
  <2>1. row.group \in Groups
    BY <1>1 DEF Rows
  <2>2. \A i \in hooks : hook[i].group \in groups
    BY <1>5, <2>1 DEF Init
  <2>3. hooks \subseteq used /\ used \subseteq Hooks /\ hook \in [Hooks -> Rows(Nat)]
    BY <1>1
  <2>4. minted \in Nat /\ requests \in Nat
    BY BoundAssumption DEF Init
  <2>5. logged \subseteq hooks /\ groups \subseteq Groups /\ reading \subseteq Readers
    BY DEF Init
  <2>6. vouched \subseteq (Keys \cup {"unowned"}) \X Groups /\ stale \in BOOLEAN
    BY DEF Init
  <2> QED BY <1>3, <1>4, <2>2, <2>3, <2>4, <2>5, <2>6 DEF TypeOK
<1>7. SecretsHeldOnce
  <2>1. Coined < minted /\ (\A i \in hooks : hook[i].secret <= minted) /\ SecretsApart
    BY <1>1, <1>5, BoundAssumption DEF Init, SecretsApart
  <2> QED BY <1>2, <2>1, IdleFits DEF SecretsHeldOnce
<1>8. SigningHasSecret
  BY <1>1, <1>5 DEF SigningHasSecret, Sound
<1>9. CredentialsStayPut
  BY <1>1, <1>5 DEF CredentialsStayPut, Astray, Asked, Sound
<1>10. ReachWasGranted
  BY <1>1, <1>5 DEF ReachWasGranted
<1> QED BY <1>4, <1>6, <1>7, <1>8, <1>9, <1>10 DEF IInv

LEMMA NextInvariant == IInv /\ [Next]_vars => IInv'
<1> SUFFICES ASSUME IInv, [Next]_vars PROVE IInv'
  OBVIOUS
<1>1. CASE UNCHANGED vars
  <2>1. TypeOK
    BY DEF IInv
  <2> QED BY <1>1, <2>1, Fewer DEF vars, stored, rights, past, TypeOK
<1>2. CASE Regrant \/ RemoveGroup \/ Resolve
  BY <1>2, OthersStep, ResolveStep
<1>3. ASSUME NEW t \in Tasks, Handle(t) PROVE IInv'
  <2>1. CASE Find(t) \/ FindExecution(t)
    BY <2>1, FindStep
  <2>2. CASE Update(t)
    BY <2>2, UpdateStep
  <2>3. CASE Create(t)
    BY <2>3, CreateStep
  <2>4. CASE Clone(t)
    BY <2>4, CloneStep
  <2>5. CASE Insert(t)
    BY <2>5, InsertStep
  <2>6. CASE Reassign(t)
    BY <2>6, ReassignStep
  <2>7. CASE Write(t)
    BY <2>7, WriteStep
  <2>8. CASE Delete(t) \/ Test(t) \/ Forget(t)
    BY <2>8, OthersStep
  <2> QED BY <1>3, <2>1, <2>2, <2>3, <2>4, <2>5, <2>6, <2>7, <2>8 DEF Handle
<1> QED BY <1>1, <1>2, <1>3 DEF Next

-----------------------------------------------------------------------------
(* Theorems *)

\* What the handlers of webhooks.rs keep true of the rows, and of what the tasks in flight
\* are about to write.
THEOREM WebhookInvariant == Spec => []IInv
BY InitInvariant, NextInvariant, PTL DEF Spec

\* Rows hold what the schema admits, and never name a group that is gone.
THEOREM TypesKept == Spec => []TypeOK
<1>1. IInv => TypeOK
  BY DEF IInv
<1> QED BY <1>1, WebhookInvariant, PTL

\* However many updates of its mode cross (update_webhook writes only the columns a request
\* names), a webhook that signs has a secret to sign with.
THEOREM SigningNeedsSecret == Spec => []SigningHasSecret
<1>1. IInv => SigningHasSecret
  BY DEF IInv
<1> QED BY <1>1, WebhookInvariant, PTL

\* Two webhooks hold one secret only where a client supplied it for one of them:
\* clone_webhook and the rotations of update_webhook never spread one.
THEOREM SecretsStayApart == Spec => []SecretsApart
<1>1. IInv => SecretsApart
  BY DEF IInv, SecretsHeldOnce
<1> QED BY <1>1, WebhookInvariant, PTL

\* A credential goes where somebody who may asked for it to go, as long as no update or
\* reassignment writes over a row that changed since it was read.
THEOREM CredentialsStay == Spec => []CredentialsStayPut
<1>1. IInv => CredentialsStayPut
  BY DEF IInv
<1> QED BY <1>1, WebhookInvariant, PTL

\* A tenant's webhook watches a group the tenant could once read, unless the webhook came to
\* it on that group, from the Master (reassign_webhook_owner, update_webhook) or from a key
\* that was deleted (delete_api_key), under the same condition.
THEOREM ReachGranted == Spec => []ReachWasGranted
<1>1. IInv => ReachWasGranted
  BY DEF IInv
<1> QED BY <1>1, WebhookInvariant, PTL

=============================================================================
