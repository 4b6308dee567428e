--------------------------------- MODULE Boot ---------------------------------
(***************************************************************************)
(* The start of an instance, and who is Master while it runs: main of      *)
(* src/src/main.rs, src/src/master.rs, the canary of src/src/crypto.rs,    *)
(* and the migration that makes the database derive master_marker          *)
(* (m20260808_000009), a statement at a time as SQLite and MySQL run it.   *)
(*                                                                         *)
(* Several instances may start on one database.  Each statement is a step; *)
(* an instance may be killed, or give up on an error, before any of them.  *)
(* An operator edits is_master, rows and the index with SQL.  Sealing is   *)
(* by the key it was done with: "plain" is no key.                         *)
(***************************************************************************)
EXTENDS Naturals, FiniteSets

CONSTANTS
    Instances,  \* processes on the one database
    Keys,       \* ids of rows of api_keys
    Ciphers,    \* what VAULT_ENCRYPTION_KEY may be set to, in one start or another
    MaxStarts   \* bound: starts in all

Sealings == Ciphers \cup {"plain"}

ASSUME KeysAssumption == IsFiniteSet(Keys) /\ "none" \notin Keys /\ "plain" \notin Ciphers
ASSUME StartsAssumption == MaxStarts \in Nat

VARIABLES
    keys,       \* the rows of api_keys
    masters,    \* those with is_master
    sealing,    \* what the signing_secret of each is sealed with
    schema,     \* master_marker, the index on it, and seaql_migrations
    instance,   \* what each process is doing
    starts,     \* starts so far
    tampered,   \* history: an operator has edited masters or the index
    overlap,    \* history: the migration ran while another instance ran it, or after one had
    sealedWith  \* history: what secrets have been sealed with

rows == <<keys, masters, sealing, sealedWith>>
past == <<tampered, overlap>>
vars == <<rows, schema, instance, starts, past>>

-----------------------------------------------------------------------------
Migrating == {"check", "dropIndex", "dropColumn", "addColumn", "addIndex", "record"}
Steps == {"down", "plan", "find", "mint", "canary", "pin", "verify", "serve"} \cup Migrating

Instance == [step : Steps, cipher : Sealings, pin : Keys \cup {"none"}, acted : SUBSET Keys]

Schema == [column : {"assigned", "none", "derived"}, index : BOOLEAN, recorded : BOOLEAN]

TypeOK ==
    /\ keys \subseteq Keys /\ masters \subseteq keys
    /\ sealing \in [Keys -> Sealings]
    /\ schema \in Schema
    /\ instance \in [Instances -> Instance]
    /\ starts \in 0 .. MaxStarts
    /\ tampered \in BOOLEAN /\ overlap \in BOOLEAN
    /\ sealedWith \subseteq Sealings

Down == [step |-> "down", cipher |-> "plain", pin |-> "none", acted |-> {}]

\* Before, a release whose marker the application wrote may have run, and some rows may
\* be flagged is_master with no marker on them; or nothing has, and there are no rows.
Init ==
    /\ keys \in {{}, Keys} \cup {{k} : k \in Keys}
    /\ masters \in SUBSET keys
    /\ sealing = [k \in Keys |-> "plain"]
    /\ sealedWith = IF keys = {} THEN {} ELSE {"plain"}
    /\ schema = [column |-> "assigned", index |-> TRUE, recorded |-> FALSE]
    /\ instance = [i \in Instances |-> Down]
    /\ starts = 0
    /\ tampered \in BOOLEAN /\ (tampered <=> Cardinality(masters) > 1) /\ overlap = FALSE

At(i, step) == instance[i].step = step
Become(i, record) == instance' = [instance EXCEPT ![i] = record]
Goto(i, step) == Become(i, [instance[i] EXCEPT !.step = step])
GiveUp(i) == Become(i, Down)
Unmoved == UNCHANGED <<starts, past>>

Bug_EnforcedByMarker == schema.index /\ schema.column = "assigned"

\* A second is_master row is refused whoever writes it.
Enforced == schema.index /\ schema.column = "derived"

-----------------------------------------------------------------------------
(* main: the environment, then the pool that migrates *)

\* SecretCipher::from_env: a malformed key ends the start there and then.
Start(i) == \E cipher \in Sealings :
    /\ At(i, "down") /\ starts < MaxStarts /\ starts' = starts + 1
    /\ Become(i, [Down EXCEPT !.step = "plan", !.cipher = cipher])
    /\ UNCHANGED <<rows, schema, past>>

\* Killed, or refused by the database, the environment or the network.
Exit(i) ==
    /\ ~At(i, "down") /\ GiveUp(i)
    /\ UNCHANGED <<rows, schema>> /\ Unmoved

\* Migrator::up reads what has been applied, then runs the rest.
Plan(i) ==
    /\ At(i, "plan") /\ Goto(i, IF schema.recorded THEN "find" ELSE "check")
    /\ UNCHANGED <<rows, schema>> /\ Unmoved

\* Several masters: an operator must choose, and nothing is altered.
Check(i) ==
    /\ At(i, "check")
    /\ IF Cardinality(masters) > 1 THEN GiveUp(i) ELSE Goto(i, "dropIndex")
    /\ UNCHANGED <<rows, schema>> /\ Unmoved

Others(i) == \E j \in Instances \ {i} : instance[j].step \in Migrating

\* A statement of the migration: it fails where the schema is not as it expects.
Statement(i, step, may, becomes, next) ==
    /\ At(i, step)
    /\ \/ may /\ schema' = becomes /\ Goto(i, next)
       \/ ~may /\ GiveUp(i) /\ UNCHANGED schema
    /\ overlap' = (overlap \/ (may /\ (schema.recorded \/ Others(i))))
    /\ UNCHANGED <<rows, starts, tampered>>

DropIndex(i) ==
    Statement(i, "dropIndex", schema.index, [schema EXCEPT !.index = FALSE], "dropColumn")

\* An index that another instance has put back goes with its column; SQLite refuses.
DropColumn(i) == \E refused \in {FALSE, schema.index} :
    Statement(i, "dropColumn", schema.column # "none" /\ ~refused,
              [schema EXCEPT !.column = "none", !.index = FALSE], "addColumn")

AddColumn(i) ==
    Statement(i, "addColumn", schema.column = "none", [schema EXCEPT !.column = "derived"],
              "addIndex")

AddIndex(i) ==
    Statement(i, "addIndex",
              schema.column = "derived" /\ ~schema.index /\ Cardinality(masters) <= 1,
              [schema EXCEPT !.index = TRUE], "record")

Record(i) ==
    Statement(i, "record", ~schema.recorded, [schema EXCEPT !.recorded = TRUE], "find")

Migrate(i) ==
    \/ Check(i) \/ DropIndex(i) \/ DropColumn(i) \/ AddColumn(i) \/ AddIndex(i) \/ Record(i)

-----------------------------------------------------------------------------
(* bootstrap_master_key, and verify_encryption_key *)

Bug_CanaryOnlyOnceMinted(i) ==
    /\ At(i, "find") /\ Goto(i, IF masters = {} THEN "mint" ELSE "pin")
    /\ UNCHANGED <<rows, schema>> /\ Unmoved

Find(i) ==
    /\ At(i, "find") /\ Goto(i, IF masters = {} THEN "mint" ELSE "canary")
    /\ UNCHANGED <<rows, schema>> /\ Unmoved

\* A row is stored with a secret sealed for the instance that writes it.
Stored(i, k) ==
    /\ keys' = keys \cup {k}
    /\ sealing' = [sealing EXCEPT ![k] = instance[i].cipher]
    /\ sealedWith' = sealedWith \cup {instance[i].cipher}

\* Another instance's master, if there is one by now, makes the insertion fail.
Mint(i) ==
    /\ At(i, "mint")
    /\ \/ /\ masters = {} \/ ~Enforced
          /\ \E k \in Keys \ keys : Stored(i, k) /\ masters' = masters \cup {k}
          /\ Goto(i, "canary")
       \/ masters # {} /\ Enforced /\ GiveUp(i) /\ UNCHANGED rows
    /\ UNCHANGED schema /\ Unmoved

\* SecretCipher::open: a plain secret opens under any key.
Opens(cipher, s) == s \in {"plain", cipher}

\* One row that has a secret is tried, whichever the query returns.
Canary(i) ==
    /\ At(i, "canary")
    /\ \/ \E k \in keys : IF Opens(instance[i].cipher, sealing[k]) THEN Goto(i, "pin") ELSE GiveUp(i)
       \/ keys = {} /\ Goto(i, "pin")
    /\ UNCHANGED <<rows, schema>> /\ Unmoved

-----------------------------------------------------------------------------
(* MasterPin::pin_at_boot, before the listener is bound *)

\* sole_master: none and several are both fatal.
Pin(i) ==
    /\ At(i, "pin")
    /\ IF Cardinality(masters) = 1
       THEN \E k \in masters : Become(i, [instance[i] EXCEPT !.step = "verify", !.pin = k])
       ELSE GiveUp(i)
    /\ UNCHANGED <<rows, schema>> /\ Unmoved

\* has_index, which asks for the name of the index.
Verify(i) ==
    /\ At(i, "verify")
    /\ IF schema.index THEN Goto(i, "serve") ELSE GiveUp(i)
    /\ UNCHANGED <<rows, schema>> /\ Unmoved

-----------------------------------------------------------------------------
(* Serving *)

Bug_MasterByFlag(i, k) == k \in masters

\* MasterPin::authenticate: of the rows that claim it, the pinned one is Master.
IsMaster(i, k) == k \in masters /\ k = instance[i].pin

\* A request of k that only the Master may make.
Act(i, k) ==
    /\ At(i, "serve") /\ k \in keys /\ IsMaster(i, k)
    /\ Become(i, [instance[i] EXCEPT !.acted = @ \cup {k}])
    /\ UNCHANGED <<rows, schema>> /\ Unmoved

\* Keys are created; any but the Master's may have its secret rotated, or be deleted.
Issue(i, k) ==
    /\ At(i, "serve") /\ k \notin keys /\ Stored(i, k)
    /\ UNCHANGED <<masters, schema, instance>> /\ Unmoved

Rotate(i, k) ==
    /\ At(i, "serve") /\ k \in keys \ masters /\ Stored(i, k)
    /\ UNCHANGED <<masters, schema, instance>> /\ Unmoved

Bug_DeleteAnyKey(i, k) ==
    /\ At(i, "serve") /\ k \in keys /\ keys' = keys \ {k}
    /\ UNCHANGED <<masters, sealing, sealedWith, schema, instance>> /\ Unmoved

Delete(i, k) ==
    /\ At(i, "serve") /\ k \in keys \ masters /\ keys' = keys \ {k}
    /\ UNCHANGED <<masters, sealing, sealedWith, schema, instance>> /\ Unmoved

-----------------------------------------------------------------------------
(* The operator's SQL *)

EditMasters == \E k \in keys :
    /\ \/ k \in masters /\ masters' = masters \ {k}
       \/ k \notin masters /\ (masters = {} \/ ~Enforced) /\ masters' = masters \cup {k}
    /\ UNCHANGED <<keys, schema>>

RemoveMaster == \E k \in masters :
    /\ masters' = masters \ {k} /\ keys' = keys \ {k}
    /\ UNCHANGED schema

EditIndex ==
    /\ \/ schema.index
       \/ schema.column # "none" /\ (schema.column = "derived" => Cardinality(masters) <= 1)
    /\ schema' = [schema EXCEPT !.index = ~@]
    /\ UNCHANGED <<keys, masters>>

Tamper ==
    /\ EditMasters \/ RemoveMaster \/ EditIndex
    /\ tampered' = TRUE
    /\ UNCHANGED <<sealing, sealedWith, instance, starts, overlap>>

-----------------------------------------------------------------------------
Run(i) ==
    \/ Start(i) \/ Exit(i) \/ Plan(i) \/ Migrate(i)
    \/ Find(i) \/ Mint(i) \/ Canary(i) \/ Pin(i) \/ Verify(i)
    \/ \E k \in Keys : Act(i, k) \/ Issue(i, k) \/ Rotate(i, k) \/ Delete(i, k)

Next == (\E i \in Instances : Run(i)) \/ Tamper

Spec == Init /\ [][Next]_vars

-----------------------------------------------------------------------------
(* Properties *)

\* However rows are flagged behind its back, an instance serves one Master from its start
\* to its end (master.rs: "is_master on any other row is inert").
OneMasterPerLife ==
    \A i \in Instances : Cardinality(instance[i].acted) <= 1

\* Left alone, a database never has a second master, whichever instances start together,
\* and the one master is the one that each of them has pinned (main.rs: "A second
\* bootstrap racing this one therefore loses at the database").
PinnedIsTheMaster ==
    ~tampered /\ ~overlap =>
        /\ Cardinality(masters) <= 1
        /\ \A i \in Instances : instance[i].pin # "none" => masters = {instance[i].pin}

\* While secrets have only ever been sealed with one key, and no operator removes the row
\* there is to try, no instance serves with another
\* (verify_encryption_key of main.rs).
ServesWithTheKey ==
    \A i \in Instances, c \in Ciphers :
        ~tampered /\ sealedWith = {c} /\ At(i, "serve") => instance[i].cipher = c

\* main.rs: "proves the configured key is the one api_keys.signing_secret was actually
\* sealed under, and refuses to start if it is not".  It tries one row: this fails, see
\* README 3.
CanaryProvesTheKey ==
    [][\A i \in Instances :
         At(i, "canary") /\ instance'[i].step = "pin" =>
             \A k \in keys : Opens(instance[i].cipher, sealing[k])]_vars

=============================================================================
