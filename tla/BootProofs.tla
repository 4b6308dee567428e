------------------------------ MODULE BootProofs ------------------------------
(***************************************************************************)
(* What holds of Boot for any number of instances, rows and encryption     *)
(* keys, however their starts, crashes and migrations overlap.             *)
(***************************************************************************)
EXTENDS Boot, FiniteSetTheorems, TLAPS

\* A Master is recognised only once pinned, and only the pinned row; the pin is what an
\* instance that has got past sole_master holds.
ActsAsPinned(r) ==
    /\ r.acted \subseteq {r.pin}
    /\ r.pin = "none" => r.acted = {}
    /\ r.pin # "none" => r.step \in {"verify", "serve"}

\* While the migration is one instance's, nobody gets past it before the record is written,
\* and the index is enforced by then.
BehindTheMigration(r) == ~schema.recorded =>
    /\ r.step \in {"down", "plan"} \cup Migrating
    /\ r.step = "record" => Enforced

\* Once somebody has been minted or found there is a row for the canary to try, and past
\* the canary an instance holds the one key in use.
HoldsTheKey(r) ==
    /\ r.step \in {"canary", "pin", "verify", "serve"} => masters # {}
    /\ r.step \in {"pin", "verify", "serve"} =>
          \A c \in Ciphers : sealedWith = {c} => r.cipher = c

Fits(r) ==
    /\ ActsAsPinned(r)
    /\ ~tampered => HoldsTheKey(r)
    /\ ~tampered /\ ~overlap =>
          BehindTheMigration(r) /\ (r.pin # "none" => masters = {r.pin})

\* What a secret is sealed with is remembered, whatever becomes of its row.
SealsRemembered == \A k \in keys : sealing[k] \in sealedWith

RowsFit ==
    /\ SealsRemembered
    /\ ~tampered /\ ~overlap => (schema.recorded => Enforced) /\ Cardinality(masters) <= 1

IInv == TypeOK /\ RowsFit /\ \A i \in Instances : Fits(instance[i])

-----------------------------------------------------------------------------
LEMMA DownIs == Down \in Instance /\ Down.step = "down" /\ Down.pin = "none" /\ Down.acted = {}
BY DEF Down, Instance, Steps, Sealings

\* The other instances keep what they are when i becomes r.
LEMMA Moved ==
    ASSUME TypeOK, NEW i \in Instances, NEW r \in Instance, Become(i, r)
    PROVE  /\ instance' \in [Instances -> Instance]
           /\ instance'[i] = r
           /\ \A j \in Instances \ {i} : instance'[j] = instance[j]
BY DEF TypeOK, Become

\* A jump to another step is a move that keeps the key, the pin and what was done.
LEMMA Went ==
    ASSUME TypeOK, NEW i \in Instances, NEW step \in Steps, Goto(i, step)
    PROVE  /\ instance' \in [Instances -> Instance]
           /\ instance'[i].step = step
           /\ instance'[i].pin = instance[i].pin
           /\ instance'[i].acted = instance[i].acted
           /\ instance'[i].cipher = instance[i].cipher
           /\ \A j \in Instances \ {i} : instance'[j] = instance[j]
<1> DEFINE r == [instance[i] EXCEPT !.step = step]
<1>1. /\ r \in Instance /\ r.step = step /\ r.pin = instance[i].pin
      /\ r.acted = instance[i].acted /\ r.cipher = instance[i].cipher
  BY DEF TypeOK, Instance
<1>2. Become(i, r)
  BY DEF Goto
<1> QED BY <1>1, <1>2, Moved

LEMMA Gave ==
    ASSUME TypeOK, NEW i \in Instances, GiveUp(i)
    PROVE  /\ instance' \in [Instances -> Instance]
           /\ instance'[i].step = "down" /\ instance'[i].pin = "none"
           /\ instance'[i].acted = {}
           /\ \A j \in Instances \ {i} : instance'[j] = instance[j]
BY DownIs, Moved DEF GiveUp

\* What a statement of the migration does, whichever it is: it fails; or it is not the only
\* migration, which is remembered; or it is, and the record comes after the index.
Failed(i) ==
    /\ schema' = schema /\ (overlap' = overlap) /\ instance'[i].step = "down"
    /\ instance'[i].pin = "none" /\ instance'[i].acted = {}

Alone(i) ==
    /\ ~schema.recorded /\ \A j \in Instances \ {i} : instance[j].step \notin Migrating
    /\ \/ ~schema'.recorded /\ instance'[i].step \in Migrating \ {"record"}
       \/ ~schema'.recorded /\ instance'[i].step = "record" /\ Enforced'
       \/ At(i, "record") /\ schema' = [schema EXCEPT !.recorded = TRUE]

LEMMA StatementDoes ==
    ASSUME TypeOK, NEW i \in Instances, NEW step \in Migrating, NEW may \in BOOLEAN,
           NEW becomes \in Schema, NEW next \in Migrating \cup {"find"},
           Statement(i, step, may, becomes, next)
    PROVE  /\ At(i, step) /\ UNCHANGED <<rows, starts, tampered>>
           /\ instance' \in [Instances -> Instance] /\ schema' \in Schema
           /\ overlap' \in BOOLEAN /\ (overlap => overlap')
           /\ \A j \in Instances \ {i} : instance'[j] = instance[j]
           /\ \/ Failed(i)
              \/ /\ may /\ schema' = becomes
                 /\ instance'[i].step = next /\ instance'[i].pin = instance[i].pin
                 /\ instance'[i].acted = instance[i].acted
                 /\ \/ overlap'
                    \/ /\ ~schema.recorded
                       /\ \A j \in Instances \ {i} : instance[j].step \notin Migrating
<1>1. schema \in Schema /\ overlap \in BOOLEAN
  BY DEF TypeOK
<1>2. next \in Steps
  BY DEF Steps, Migrating
<1>3. CASE ~may
  <2>1. GiveUp(i) /\ schema' = schema /\ (overlap' = overlap)
    BY <1>1, <1>3 DEF Statement
  <2> QED BY <1>1, <2>1, Gave DEF Statement, Failed
<1>4. CASE may
  <2>1. schema' = becomes /\ Goto(i, next)
    BY <1>4 DEF Statement
  <2>2. overlap' = (overlap \/ schema.recorded \/ Others(i))
    BY <1>4 DEF Statement
  <2> QED BY <1>1, <1>2, <1>4, <2>1, <2>2, Went DEF Statement, Others
<1> QED BY <1>3, <1>4

\* One of the five statements.
Statements(i) == DropIndex(i) \/ DropColumn(i) \/ AddColumn(i) \/ AddIndex(i) \/ Record(i)

LEMMA StatementsDo ==
    ASSUME TypeOK, NEW i \in Instances, Statements(i)
    PROVE  /\ UNCHANGED <<rows, starts, tampered>>
           /\ instance' \in [Instances -> Instance] /\ schema' \in Schema
           /\ overlap' \in BOOLEAN /\ (overlap => overlap')
           /\ \A j \in Instances \ {i} : instance'[j] = instance[j]
           /\ instance[i].step \in Migrating
           /\ instance'[i].step \in {"down", "find"} \cup Migrating
           /\ \/ Failed(i)
              \/ /\ instance'[i].pin = instance[i].pin
                 /\ instance'[i].acted = instance[i].acted
                 /\ overlap' \/ Alone(i)
<1>0. schema \in Schema
  BY DEF TypeOK
<1>1. CASE DropIndex(i)
  <2> DEFINE b == [schema EXCEPT !.index = FALSE]
  <2>1. b \in Schema /\ b.recorded = schema.recorded
    BY <1>0 DEF Schema
  <2>2. schema.index \in BOOLEAN
    BY <1>0 DEF Schema
  <2>3. Statement(i, "dropIndex", schema.index, b, "dropColumn")
    BY <1>1 DEF DropIndex
  <2> HIDE DEF b
  <2> QED BY SMTT(90), <2>1, <2>2, <2>3, StatementDoes DEF Migrating, Alone, At, Failed
<1>2. CASE DropColumn(i)
  <2> DEFINE b == [schema EXCEPT !.column = "none", !.index = FALSE]
  <2>1. b \in Schema /\ b.recorded = schema.recorded
    BY <1>0 DEF Schema
  <2>2. PICK may \in BOOLEAN : Statement(i, "dropColumn", may, b, "addColumn")
    BY <1>2 DEF DropColumn
  <2> HIDE DEF b
  <2> QED BY SMTT(90), <2>1, <2>2, StatementDoes DEF Migrating, Alone, At, Failed
<1>3. CASE AddColumn(i)
  <2> DEFINE b == [schema EXCEPT !.column = "derived"]
  <2>1. b \in Schema /\ b.recorded = schema.recorded
    BY <1>0 DEF Schema
  <2>2. PICK may \in BOOLEAN : Statement(i, "addColumn", may, b, "addIndex")
    BY <1>3 DEF AddColumn
  <2> HIDE DEF b
  <2> QED BY SMTT(90), <2>1, <2>2, StatementDoes DEF Migrating, Alone, At, Failed
<1>4. CASE AddIndex(i)
  <2> DEFINE b == [schema EXCEPT !.index = TRUE]
             may == schema.column = "derived" /\ ~schema.index /\ Cardinality(masters) <= 1
  <2>1. b \in Schema /\ b.recorded = schema.recorded /\ (may => b.index /\ b.column = "derived")
    BY <1>0 DEF Schema
  <2>2. may \in BOOLEAN /\ Statement(i, "addIndex", may, b, "record")
    BY <1>4 DEF AddIndex
  <2> HIDE DEF b, may
  <2> QED BY <2>1, <2>2, StatementDoes DEF Migrating, Alone, At, Failed, Enforced
<1>5. CASE Record(i)
  <2> DEFINE b == [schema EXCEPT !.recorded = TRUE]
  <2>1. b \in Schema
    BY <1>0 DEF Schema
  <2>2. PICK may \in BOOLEAN : Statement(i, "record", may, b, "find")
    BY <1>5 DEF Record
  <2>3. b = [schema EXCEPT !.recorded = TRUE]
    OBVIOUS
  <2> HIDE DEF b
  <2> QED BY SMTT(90), <2>1, <2>2, <2>3, StatementDoes DEF Migrating, Alone, At, Failed
<1> QED BY <1>1, <1>2, <1>3, <1>4, <1>5 DEF Statements

-----------------------------------------------------------------------------
LEMMA BootInit == Init => IInv
<1> SUFFICES ASSUME Init PROVE IInv
  OBVIOUS
<1>1. IsFiniteSet(masters)
  BY KeysAssumption, FS_Subset DEF Init
<1>2. Cardinality(masters) \in Nat
  BY <1>1, FS_CardinalityType
<1>3. TypeOK
  <2>1. keys \subseteq Keys /\ masters \subseteq keys
    BY DEF Init
  <2>2. sealing \in [Keys -> Sealings] /\ sealedWith \subseteq Sealings
    BY DEF Init, Sealings
  <2>3. schema \in Schema
    BY DEF Init, Schema
  <2>4. instance \in [Instances -> Instance] /\ starts \in 0 .. MaxStarts
    BY DownIs, StartsAssumption DEF Init
  <2>5. tampered \in BOOLEAN /\ overlap \in BOOLEAN
    BY DEF Init
  <2> QED BY <2>1, <2>2, <2>3, <2>4, <2>5 DEF TypeOK
<1>4. RowsFit
  <2>1. SealsRemembered
    BY <1>3 DEF Init, SealsRemembered, TypeOK
  <2>2. ~schema.recorded
    BY DEF Init
  <2>3. ~tampered => Cardinality(masters) <= 1
    BY <1>2 DEF Init
  <2> QED BY <2>1, <2>2, <2>3 DEF RowsFit
<1>5. \A i \in Instances : Fits(instance[i])
  BY DownIs DEF Init, Fits, ActsAsPinned, HoldsTheKey, BehindTheMigration, Migrating
<1> QED BY <1>3, <1>4, <1>5 DEF IInv

\* A step of one instance that leaves the database alone.
LEMMA Quiet ==
    ASSUME IInv, NEW i \in Instances, NEW r \in Instance, Become(i, r), Fits(r),
           UNCHANGED <<rows, schema, past>>, starts' \in 0 .. MaxStarts
    PROVE  IInv'
<1>1. /\ instance' \in [Instances -> Instance] /\ instance'[i] = r
      /\ \A j \in Instances \ {i} : instance'[j] = instance[j]
  BY Moved DEF IInv
<1>2. TypeOK' /\ RowsFit'
  BY <1>1 DEF IInv, TypeOK, RowsFit, SealsRemembered, Enforced, rows, past
<1>3. ASSUME NEW j \in Instances PROVE Fits(instance'[j])
  BY <1>1 DEF IInv
<1>4. ASSUME NEW j \in Instances PROVE Fits(instance[j])'
  BY <1>3 DEF Fits, ActsAsPinned, HoldsTheKey, BehindTheMigration, Enforced, rows, past
<1> QED BY <1>2, <1>4 DEF IInv

\* The sole master, when there is one.
LEMMA Sole ==
    ASSUME TypeOK
    PROVE  /\ Cardinality(masters) = 1 => \A k \in masters : masters = {k}
           /\ \A k : masters = {} => Cardinality(masters \cup {k}) <= 1
<1>1. IsFiniteSet(masters)
  BY KeysAssumption, FS_Subset DEF TypeOK
<1>2. ASSUME Cardinality(masters) = 1, NEW k \in masters PROVE masters = {k}
  BY <1>1, <1>2, FS_Singleton
<1>3. ASSUME masters = {}, NEW k PROVE Cardinality(masters \cup {k}) <= 1
  <2>1. masters \cup {k} = {k}
    BY <1>3
  <2> QED BY <2>1, FS_Singleton
<1> QED BY <1>2, <1>3

LEMMA StartOrExit ==
    ASSUME IInv, NEW i \in Instances, Start(i) \/ Exit(i)
    PROVE  IInv'
<1>0. TypeOK
  BY DEF IInv
<1>1. Fits(Down)
  BY DownIs DEF Fits, ActsAsPinned, HoldsTheKey, BehindTheMigration, Migrating
<1>2. CASE Start(i)
  <2>1. PICK cipher \in Sealings :
           /\ starts < MaxStarts /\ starts' = starts + 1
           /\ Become(i, [Down EXCEPT !.step = "plan", !.cipher = cipher])
    BY <1>2 DEF Start
  <2> DEFINE r == [Down EXCEPT !.step = "plan", !.cipher = cipher]
  <2>2. r \in Instance /\ r.step = "plan" /\ r.pin = "none" /\ r.acted = {}
    BY DownIs DEF Instance, Steps
  <2>3. starts' \in 0 .. MaxStarts
    BY <1>0, <2>1, StartsAssumption DEF TypeOK
  <2> HIDE DEF r
  <2>4. Fits(r)
    BY <2>2 DEF Fits, ActsAsPinned, HoldsTheKey, BehindTheMigration, Migrating
  <2> QED BY <1>2, <2>1, <2>2, <2>3, <2>4, Quiet DEF Start, r
<1>3. CASE Exit(i)
  BY <1>0, <1>1, <1>3, DownIs, Quiet DEF Exit, GiveUp, Unmoved, TypeOK
<1> QED BY <1>2, <1>3

LEMMA Given ==
    ASSUME IInv, NEW i \in Instances, GiveUp(i), UNCHANGED <<rows, schema>>, Unmoved
    PROVE  IInv'
<1>1. Fits(Down)
  BY DownIs DEF Fits, ActsAsPinned, HoldsTheKey, BehindTheMigration, Migrating
<1> QED BY <1>1, DownIs, Quiet DEF GiveUp, Unmoved, IInv, TypeOK

\* A jump is quiet if the step is one the instance may be at.
LEMMA Jump ==
    ASSUME IInv, NEW i \in Instances, NEW step \in Steps, Goto(i, step),
           UNCHANGED <<rows, schema>>, Unmoved,
           ASSUME NEW r \in Instance, r.step = step, r.pin = instance[i].pin,
                  r.acted = instance[i].acted, r.cipher = instance[i].cipher
           PROVE  Fits(r)
    PROVE  IInv'
<1> DEFINE r == [instance[i] EXCEPT !.step = step]
<1>1. /\ r \in Instance /\ r.step = step /\ r.pin = instance[i].pin
      /\ r.acted = instance[i].acted /\ r.cipher = instance[i].cipher
  BY DEF IInv, TypeOK, Instance
<1>2. Become(i, r)
  BY DEF Goto
<1> HIDE DEF r
<1>3. Fits(r)
  BY <1>1
<1> QED BY <1>1, <1>2, <1>3, Quiet DEF Unmoved, IInv, TypeOK

\* Plan, the check of the migration, and the steps from the search for a master to the
\* listener.
LEMMA BootSteps ==
    ASSUME IInv, NEW i \in Instances,
           Plan(i) \/ Check(i) \/ Find(i) \/ Canary(i) \/ Pin(i) \/ Verify(i)
    PROVE  IInv'
<1> USE DEF At
<1>0. TypeOK /\ RowsFit /\ Fits(instance[i]) /\ instance[i] \in Instance
  BY DEF IInv, TypeOK
<1>1. CASE Plan(i)
  <2>1. CASE schema.recorded
    <3>1. Goto(i, "find") /\ "find" \in Steps
      BY <1>1, <2>1 DEF Plan, Steps
    <3>2. ASSUME NEW r \in Instance, r.step = "find", r.pin = instance[i].pin,
                 r.acted = instance[i].acted, r.cipher = instance[i].cipher
          PROVE  Fits(r)
      BY <1>0, <1>1, <2>1, <3>2
         DEF Plan, Fits, ActsAsPinned, HoldsTheKey, BehindTheMigration
    <3> QED BY <1>1, <3>1, <3>2, Jump DEF Plan
  <2>2. CASE ~schema.recorded
    <3>1. Goto(i, "check") /\ "check" \in Steps
      BY <1>1, <2>2 DEF Plan, Steps, Migrating
    <3>2. ASSUME NEW r \in Instance, r.step = "check", r.pin = instance[i].pin,
                 r.acted = instance[i].acted, r.cipher = instance[i].cipher
          PROVE  Fits(r)
      BY <1>0, <1>1, <2>2, <3>2
         DEF Plan, Fits, ActsAsPinned, HoldsTheKey, BehindTheMigration, Migrating
    <3> QED BY <1>1, <3>1, <3>2, Jump DEF Plan
  <2> QED BY <2>1, <2>2
<1>2. CASE Check(i)
  <2>1. CASE Goto(i, "dropIndex")
    <3>1. "dropIndex" \in Steps
      BY DEF Steps, Migrating
    <3>2. ASSUME NEW r \in Instance, r.step = "dropIndex", r.pin = instance[i].pin,
                 r.acted = instance[i].acted, r.cipher = instance[i].cipher
          PROVE  Fits(r)
      BY <1>0, <1>2, <3>2
         DEF Check, Fits, ActsAsPinned, HoldsTheKey, BehindTheMigration, Migrating
    <3> QED BY <1>2, <2>1, <3>1, <3>2, Jump DEF Check
  <2> QED BY <1>2, <2>1, Given DEF Check
<1>3. CASE Find(i)
  <2>1. CASE masters = {}
    <3>1. Goto(i, "mint") /\ "mint" \in Steps
      BY <1>3, <2>1 DEF Find, Steps
    <3>2. ASSUME NEW r \in Instance, r.step = "mint", r.pin = instance[i].pin,
                 r.acted = instance[i].acted, r.cipher = instance[i].cipher
          PROVE  Fits(r)
      BY <1>0, <1>3, <3>2
         DEF Find, Fits, ActsAsPinned, HoldsTheKey, BehindTheMigration, Migrating
    <3> QED BY <1>3, <3>1, <3>2, Jump DEF Find
  <2>2. CASE masters # {}
    <3>1. Goto(i, "canary") /\ "canary" \in Steps
      BY <1>3, <2>2 DEF Find, Steps
    <3>2. ASSUME NEW r \in Instance, r.step = "canary", r.pin = instance[i].pin,
                 r.acted = instance[i].acted, r.cipher = instance[i].cipher
          PROVE  Fits(r)
      BY <1>0, <1>3, <2>2, <3>2
         DEF Find, Fits, ActsAsPinned, HoldsTheKey, BehindTheMigration, Migrating
    <3> QED BY <1>3, <3>1, <3>2, Jump DEF Find
  <2> QED BY <2>1, <2>2
<1>4. CASE Canary(i)
  <2>1. CASE Goto(i, "pin") /\ ((\E k \in keys : Opens(instance[i].cipher, sealing[k])) \/ keys = {})
    <3>1. "pin" \in Steps
      BY DEF Steps
    <3>2. ~tampered => masters # {} /\ \E k \in keys : Opens(instance[i].cipher, sealing[k])
      BY <1>0, <1>4, <2>1 DEF Canary, Fits, HoldsTheKey, TypeOK
    <3>3. ~tampered => \A c \in Ciphers : sealedWith = {c} => instance[i].cipher = c
      BY <1>0, <3>2, KeysAssumption DEF Opens, RowsFit, SealsRemembered
    <3>4. ASSUME NEW r \in Instance, r.step = "pin", r.pin = instance[i].pin,
                 r.acted = instance[i].acted, r.cipher = instance[i].cipher
          PROVE  Fits(r)
      BY <1>0, <1>4, <3>2, <3>3, <3>4
         DEF Canary, Fits, ActsAsPinned, HoldsTheKey, BehindTheMigration, Migrating
    <3> QED BY <1>4, <2>1, <3>1, <3>4, Jump DEF Canary
  <2> QED BY <1>4, <2>1, Given DEF Canary
<1>5. CASE Pin(i)
  <2>1. ASSUME NEW k \in masters, Cardinality(masters) = 1,
               Become(i, [instance[i] EXCEPT !.step = "verify", !.pin = k])
        PROVE  IInv'
    <3> DEFINE r == [instance[i] EXCEPT !.step = "verify", !.pin = k]
    <3>1. masters = {k} /\ k \in Keys
      BY <1>0, <2>1, Sole DEF TypeOK
    <3>2. /\ r \in Instance /\ r.step = "verify" /\ r.pin = k
          /\ r.acted = instance[i].acted /\ r.cipher = instance[i].cipher
      BY <1>0, <3>1 DEF Instance, Steps
    <3> HIDE DEF r
    <3>3. instance[i].acted = {}
      BY <1>0, <1>5 DEF Pin, Fits, ActsAsPinned
    <3>4. Fits(r)
      BY <1>0, <1>5, <3>1, <3>2, <3>3, KeysAssumption
         DEF Pin, Fits, ActsAsPinned, HoldsTheKey, BehindTheMigration, Migrating
    <3> QED BY <1>0, <1>5, <2>1, <3>2, <3>4, Quiet DEF Pin, Unmoved, TypeOK, r
  <2> QED BY <1>5, <2>1, Given DEF Pin
<1>6. CASE Verify(i)
  <2>1. CASE Goto(i, "serve")
    <3>1. "serve" \in Steps
      BY DEF Steps
    <3>2. ASSUME NEW r \in Instance, r.step = "serve", r.pin = instance[i].pin,
                 r.acted = instance[i].acted, r.cipher = instance[i].cipher
          PROVE  Fits(r)
      BY <1>0, <1>6, <3>2
         DEF Verify, Fits, ActsAsPinned, HoldsTheKey, BehindTheMigration, Migrating
    <3> QED BY <1>6, <2>1, <3>1, <3>2, Jump DEF Verify
  <2> QED BY <1>6, <2>1, Given DEF Verify
<1> QED BY <1>1, <1>2, <1>3, <1>4, <1>5, <1>6

\* A statement: the database was left to this migration, or overlap remembers otherwise.
LEMMA StatementStep ==
    ASSUME IInv, NEW i \in Instances, Statements(i)
    PROVE  IInv'
<1>0. TypeOK /\ RowsFit /\ \A j \in Instances : Fits(instance[j])
  BY DEF IInv
<1>1. TypeOK'
  BY <1>0, StatementsDo DEF TypeOK, rows
<1>2. ~overlap' /\ ~Failed(i) => Alone(i)
  BY <1>0, StatementsDo
<1>3. schema'.recorded /\ ~tampered /\ ~overlap' => Enforced'
  <2> SUFFICES ASSUME schema'.recorded, ~tampered, ~overlap' PROVE Enforced'
    OBVIOUS
  <2>1. ~overlap
    BY <1>0, StatementsDo
  <2>2. CASE Failed(i)
    BY <1>0, <2>1, <2>2 DEF Failed, RowsFit, Enforced
  <2>3. CASE At(i, "record") /\ schema' = [schema EXCEPT !.recorded = TRUE] /\ ~schema.recorded
    <3>1. Enforced
      BY <1>0, <2>1, <2>3 DEF At, Fits, BehindTheMigration
    <3>2. schema'.index = schema.index /\ schema'.column = schema.column
      BY <1>0, <2>3 DEF TypeOK, Schema
    <3> QED BY <3>1, <3>2 DEF Enforced
  <2> QED BY <1>2, <2>2, <2>3 DEF Alone
<1>4. RowsFit'
  BY <1>0, <1>3, StatementsDo DEF RowsFit, SealsRemembered, rows
<1>5. Fits(instance[i])'
  <2>1. ActsAsPinned(instance'[i])
    BY <1>0, StatementsDo DEF Fits, ActsAsPinned, Failed, Migrating
  <2>2. instance'[i].pin = "none"
    BY <1>0, StatementsDo DEF Fits, ActsAsPinned, Failed, Migrating
  <2>3. HoldsTheKey(instance[i])'
    BY <1>0, StatementsDo DEF HoldsTheKey, Migrating
  <2>4. ~tampered /\ ~overlap' => BehindTheMigration(instance[i])'
    BY <1>0, <1>2, StatementsDo
       DEF BehindTheMigration, Failed, Alone, Migrating, TypeOK, Schema, Enforced, At
  <2> QED BY <1>0, <2>1, <2>2, <2>3, <2>4, StatementsDo DEF Fits, ActsAsPinned
<1>6. ASSUME NEW j \in Instances \ {i} PROVE Fits(instance[j])'
  <2>1. instance'[j] = instance[j] /\ Fits(instance[j])
    BY <1>0, StatementsDo
  <2>2. ~tampered /\ ~overlap' => BehindTheMigration(instance[j])'
    BY <1>0, <1>2, <2>1, StatementsDo
       DEF BehindTheMigration, Failed, Alone, Migrating, TypeOK, Schema, Fits, Enforced
  <2> QED BY <1>0, <2>1, <2>2, StatementsDo DEF Fits, ActsAsPinned, HoldsTheKey, rows
<1> QED BY <1>1, <1>4, <1>5, <1>6 DEF IInv

\* The minting of a master: once the record is there the index is, and only where there is
\* none yet does the row go in.
LEMMA MintStep ==
    ASSUME IInv, NEW i \in Instances, Mint(i)
    PROVE  IInv'
<1>0. TypeOK /\ RowsFit /\ At(i, "mint") /\ \A j \in Instances : Fits(instance[j])
  BY DEF IInv, Mint
<1>1. CASE UNCHANGED rows /\ GiveUp(i)
  BY <1>1, Given DEF Mint
<1>2. ASSUME NEW k \in Keys \ keys, Stored(i, k), masters' = masters \cup {k},
             Goto(i, "canary"), masters = {} \/ ~Enforced
      PROVE  IInv'
  <2>0. UNCHANGED <<schema, starts, tampered, overlap>>
    BY DEF Mint, Unmoved, past
  <2>1. /\ instance' \in [Instances -> Instance] /\ instance'[i].step = "canary"
        /\ instance'[i].pin = instance[i].pin /\ instance'[i].acted = instance[i].acted
        /\ \A j \in Instances \ {i} : instance'[j] = instance[j]
    BY <1>0, <1>2, Went DEF Steps
  <2>2. instance[i].cipher \in Sealings
    BY <1>0 DEF TypeOK, Instance
  <2>3. /\ keys' \subseteq Keys /\ masters' \subseteq keys' /\ sealedWith' \subseteq Sealings
        /\ sealing' \in [Keys -> Sealings] /\ SealsRemembered'
    BY <1>0, <1>2, <2>2 DEF TypeOK, Stored, RowsFit, SealsRemembered
  <2>4. TypeOK'
    BY <1>0, <2>0, <2>1, <2>3 DEF TypeOK
  <2>5. ~tampered /\ ~overlap => masters = {} /\ schema.recorded
    BY <1>0, <1>2 DEF RowsFit, Fits, BehindTheMigration, At, Migrating
  <2>6. RowsFit'
    BY <1>0, <1>2, <2>0, <2>3, <2>5, Sole DEF RowsFit, Enforced
  <2>7. Fits(instance[i])'
    BY <1>0, <1>2, <2>0, <2>1, <2>5
       DEF Fits, ActsAsPinned, HoldsTheKey, BehindTheMigration, At
  <2>8. ASSUME NEW j \in Instances \ {i} PROVE Fits(instance[j])'
    <3>1. instance'[j] = instance[j] /\ Fits(instance[j])
      BY <1>0, <2>1
    <3>2. ~tampered => HoldsTheKey(instance[j])'
      <4> SUFFICES ASSUME ~tampered PROVE HoldsTheKey(instance[j])'
        OBVIOUS
      <4>1. masters' # {}
        BY <1>2
      <4>2. ASSUME instance[j].step \in {"pin", "verify", "serve"},
                   NEW c \in Ciphers, sealedWith' = {c}
            PROVE  instance[j].cipher = c
        <5>1. sealedWith # {}
          BY <1>0, <3>1, <4>2 DEF Fits, HoldsTheKey, TypeOK, RowsFit, SealsRemembered
        <5>2. sealedWith = {c}
          BY <1>2, <4>2, <5>1 DEF Stored
        <5> QED BY <3>1, <4>2, <5>2 DEF Fits, HoldsTheKey
      <4> QED BY <3>1, <4>1, <4>2 DEF HoldsTheKey
    <3>3. ~tampered /\ ~overlap => instance[j].pin = "none" /\ BehindTheMigration(instance[j])'
      BY <2>0, <2>5, <3>1 DEF Fits, BehindTheMigration
    <3> QED BY <2>0, <3>1, <3>2, <3>3 DEF Fits, ActsAsPinned
  <2> QED BY <2>4, <2>6, <2>7, <2>8 DEF IInv
<1> QED BY <1>1, <1>2 DEF Mint

\* What a serving instance does.
LEMMA ActStep ==
    ASSUME IInv, NEW i \in Instances, NEW k \in Keys, Act(i, k)
    PROVE  IInv'
<1>0. TypeOK /\ Fits(instance[i]) /\ instance[i] \in Instance
  BY DEF IInv, TypeOK
<1> DEFINE r == [instance[i] EXCEPT !.acted = @ \cup {k}]
<1>1. k = instance[i].pin /\ At(i, "serve") /\ Become(i, r)
  BY DEF Act, IsMaster
<1>2. /\ r \in Instance /\ r.step = instance[i].step /\ r.pin = instance[i].pin
      /\ r.acted = instance[i].acted \cup {k} /\ r.cipher = instance[i].cipher
  BY <1>0 DEF Instance
<1> HIDE DEF r
<1>3. Fits(r)
  BY <1>0, <1>1, <1>2, KeysAssumption
     DEF Fits, ActsAsPinned, HoldsTheKey, BehindTheMigration
<1> QED BY <1>0, <1>1, <1>2, <1>3, Quiet DEF Act, Unmoved, TypeOK

\* A secret sealed, or a row deleted, that is not a master's.
LEMMA KeyStep ==
    ASSUME IInv, NEW i \in Instances, NEW k \in Keys, Issue(i, k) \/ Rotate(i, k) \/ Delete(i, k)
    PROVE  IInv'
<1>0. TypeOK /\ RowsFit /\ At(i, "serve") /\ \A j \in Instances : Fits(instance[j])
  BY DEF IInv, Issue, Rotate, Delete
<1>1. UNCHANGED <<masters, schema, instance, starts, tampered, overlap>>
  BY DEF Issue, Rotate, Delete, Unmoved, past
<1>2. /\ keys' \subseteq Keys /\ masters' \subseteq keys' /\ sealing' \in [Keys -> Sealings]
      /\ sealedWith' \subseteq Sealings /\ SealsRemembered'
      /\ sealedWith \subseteq sealedWith'
  <2>1. CASE Issue(i, k) \/ Rotate(i, k)
    <3>1. Stored(i, k) /\ instance[i].cipher \in Sealings
      BY <1>0, <2>1 DEF Issue, Rotate, TypeOK, Instance
    <3> QED BY <1>0, <1>1, <3>1 DEF Stored, TypeOK, RowsFit, SealsRemembered
  <2>2. CASE Delete(i, k)
    BY <1>0, <1>1, <2>2 DEF Delete, TypeOK, RowsFit, SealsRemembered
  <2> QED BY <2>1, <2>2
<1>3. TypeOK' /\ RowsFit'
  BY <1>0, <1>1, <1>2 DEF TypeOK, RowsFit, Enforced
<1>4. ASSUME NEW j \in Instances PROVE Fits(instance[j])'
  <2>1. ~tampered => HoldsTheKey(instance[j])'
    <3>1. ~tampered => \A c \in Ciphers : sealedWith' = {c} =>
              sealedWith = {c} \/ keys = {}
      BY <1>0, <1>2 DEF RowsFit, SealsRemembered
    <3> QED BY <1>0, <1>1, <3>1 DEF Fits, HoldsTheKey, TypeOK
  <2> QED BY <1>0, <1>1, <2>1 DEF Fits, ActsAsPinned, BehindTheMigration, Enforced
<1> QED BY <1>3, <1>4 DEF IInv

\* Whatever the operator does, an instance acts as the one it has pinned.
LEMMA TamperStep == IInv /\ Tamper => IInv'
<1> SUFFICES ASSUME IInv, Tamper PROVE IInv'
  OBVIOUS
<1>0. TypeOK /\ RowsFit /\ \A j \in Instances : Fits(instance[j])
  BY DEF IInv
<1>1. tampered' = TRUE /\ UNCHANGED <<sealing, sealedWith, instance, starts, overlap>>
  BY DEF Tamper
<1>2. keys' \subseteq keys /\ masters' \subseteq keys' /\ schema' \in Schema
  BY <1>0 DEF Tamper, EditMasters, RemoveMaster, EditIndex, TypeOK, Schema
<1>3. TypeOK'
  BY <1>0, <1>1, <1>2 DEF TypeOK
<1>4. RowsFit'
  BY <1>0, <1>1, <1>2 DEF RowsFit, SealsRemembered
<1>5. ASSUME NEW j \in Instances PROVE Fits(instance[j])'
  BY <1>0, <1>1 DEF Fits, ActsAsPinned
<1> QED BY <1>3, <1>4, <1>5 DEF IInv

LEMMA BootStep == IInv /\ [Next]_vars => IInv'
<1> SUFFICES ASSUME IInv, [Next]_vars PROVE IInv'
  OBVIOUS
<1>1. CASE UNCHANGED vars
  BY <1>1 DEF vars, rows, past, IInv, TypeOK, RowsFit, SealsRemembered, Enforced, Fits,
     ActsAsPinned, HoldsTheKey, BehindTheMigration
<1>2. ASSUME NEW i \in Instances, Run(i) PROVE IInv'
  <2>1. CASE Start(i) \/ Exit(i)
    BY <2>1, StartOrExit
  <2>2. CASE Plan(i) \/ Check(i) \/ Find(i) \/ Canary(i) \/ Pin(i) \/ Verify(i)
    BY <2>2, BootSteps
  <2>3. CASE Statements(i)
    BY <2>3, StatementStep
  <2>4. CASE Mint(i)
    BY <2>4, MintStep
  <2>5. ASSUME NEW k \in Keys, Act(i, k) \/ Issue(i, k) \/ Rotate(i, k) \/ Delete(i, k)
        PROVE  IInv'
    BY <2>5, ActStep, KeyStep
  <2> QED BY <1>2, <2>1, <2>2, <2>3, <2>4, <2>5 DEF Run, Migrate, Statements
<1> QED BY <1>1, <1>2, TamperStep DEF Next

-----------------------------------------------------------------------------
(* The theorems *)

\* Starts, crashes, migrations and an operator's edits keep the strengthened invariant.
THEOREM BootInvariant == Spec => []IInv
BY BootInit, BootStep, PTL DEF Spec

\* Every variable keeps its type.
THEOREM TypesKept == Spec => []TypeOK
<1>1. IInv => TypeOK
  BY DEF IInv
<1> QED BY <1>1, BootInvariant, PTL

\* However rows are flagged behind its back, an instance serves one Master from its start
\* to its end (MasterPin::authenticate).
THEOREM OneMaster == Spec => []OneMasterPerLife
<1>1. IInv => OneMasterPerLife
  <2> SUFFICES ASSUME IInv, NEW i \in Instances PROVE Cardinality(instance[i].acted) <= 1
    BY DEF OneMasterPerLife
  <2>1. instance[i].acted = {} \/ instance[i].acted = {instance[i].pin}
    BY DEF IInv, Fits, ActsAsPinned
  <2>2. Cardinality(instance[i].acted) = 0 \/ Cardinality(instance[i].acted) = 1
    BY Zenon, <2>1, FS_EmptySet, FS_Singleton
  <2> QED BY <2>2
<1> QED BY <1>1, BootInvariant, PTL

\* Left alone, a database never has a second master, and its master is the one that each
\* instance has pinned, however many start together (bootstrap_master_key, pin_at_boot).
THEOREM PinnedAlone == Spec => []PinnedIsTheMaster
<1>1. IInv => PinnedIsTheMaster
  BY DEF IInv, RowsFit, Fits, PinnedIsTheMaster
<1> QED BY <1>1, BootInvariant, PTL

\* While secrets have only ever been sealed with one key, nothing serves with another
\* (verify_encryption_key).
THEOREM KeyProved == Spec => []ServesWithTheKey
<1>1. IInv => ServesWithTheKey
  BY DEF IInv, Fits, HoldsTheKey, ServesWithTheKey, At
<1> QED BY <1>1, BootInvariant, PTL

=============================================================================
