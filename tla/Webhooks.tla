------------------------------- MODULE Webhooks -------------------------------
(***************************************************************************)
(* The rows of webhook_configs, and what src/src/api/webhooks.rs lets      *)
(* their owners and the Master do to them: create, update, clone, delete,  *)
(* reassign, test, and drop a line of their history; and what the deletion *)
(* of a key may do to the webhooks it finds (src/src/api/keys.rs).         *)
(*                                                                         *)
(* A handler is a task.  None has a transaction: it copies the row, judges *)
(* the request on the copy, reads a permission row where a group is to be  *)
(* read, and then writes, in one UPDATE, the columns the request names.    *)
(* The payload is chosen where it is judged.  A request refused before it  *)
(* reads changes nothing and is left out.  `aim` stands for target_url and *)
(* hmac_template, which the code treats alike; columns that no guard looks *)
(* at are left out.                                                        *)
(***************************************************************************)
EXTENDS Naturals

CONSTANTS
    Master,      \* the one is_master key
    Keys,        \* tenant keys with can_manage_webhooks
    Groups,      \* ids of IP groups that exist at first
    Readers,     \* <<key, group>>: who may ever hold can_read on which
    Hooks,       \* ids of webhooks: Uuid::new_v4 never repeats one
    Aims,        \* where a webhook sends, and what it signs
    Modes,       \* the AuthModes exercised
    ApiKeys,     \* credentials that other systems issued
    Payloads,    \* what an update may ask for
    Existing,    \* what the webhook there is at first may be
    Coined,      \* how many secrets clients come up with by themselves
    Tasks,       \* handler tasks in flight at once
    MaxRequests  \* bound: requests served in all

AuthModes == {"canonical", "hmac", "key", "none"}
Signs(mode) == mode \in {"canonical", "hmac"}
AllKeys == Keys \cup {Master}

\* A secret is a number: 0 the empty one, up to Coined one that clients come up with,
\* above that one that generate_signing_secret made.
Rows(secrets) ==
    [aim : Aims, mode : Modes, secret : secrets, apikey : ApiKeys \cup {"none"},
     group : Groups, owner : Keys \cup {"unowned"}]

\* The columns an update writes: "keep", or 0, leaves one alone.
Puts(secrets) ==
    [aim : Aims \cup {"keep"}, mode : Modes \cup {"keep"}, secret : secrets,
     apikey : ApiKeys \cup {"none", "keep"}, group : Groups \cup {"keep"}]

\* The preconditions of each mode.
Sound(row) ==
    /\ Signs(row.mode) => row.secret # 0
    /\ row.mode = "key" => row.apikey # "none"

ASSUME KeysAssumption == Master \notin Keys /\ "unowned" \notin Keys
ASSUME GroupsAssumption == Readers \subseteq Keys \X Groups
ASSUME ModesAssumption == Modes \subseteq AuthModes
ASSUME ValuesAssumption ==
    "keep" \notin Groups \cup Aims \cup ApiKeys /\ "none" \notin ApiKeys
ASSUME ExistingAssumption ==
    /\ Existing \subseteq Rows(0..(Coined + 1)) /\ \A row \in Existing : Sound(row)
    /\ \A row \in Existing : row.owner # "unowned" => <<row.owner, row.group>> \in Readers
ASSUME PayloadsAssumption == Payloads \subseteq Puts({0})
ASSUME BoundAssumption == MaxRequests \in Nat /\ Coined \in Nat

VARIABLES
    hooks,     \* webhooks whose row exists
    used,      \* webhook ids handed out so far
    hook,      \* the row of each
    logged,    \* those with rows in webhook_executions
    groups,    \* groups whose row exists
    reading,   \* <<key, group>> with can_read
    minted,    \* the last secret made: those up to it exist
    task,      \* what each handler task is doing
    requests,  \* requests served so far
    chosen,    \* history: <<webhook, credential, aim>>: somebody who may asked for that
    given,     \* history: <<webhook, secret>>: a client supplied it for that webhook
    vouched,   \* history: <<key, group>>: the Master, or whoever deleted a key, gave the
               \* key a webhook on the group
    stale      \* history: a row was written over that had changed since it was copied

stored == <<hooks, used, hook, logged>>
rights == <<groups, reading>>
past == <<chosen, given, vouched, stale>>
vars == <<stored, rights, minted, task, requests, past>>

-----------------------------------------------------------------------------
Reads == {"update", "clone", "delete", "reassign", "test"}

Task == {[step |-> "idle"]}
        \cup [step : Reads \cup {"forget"}, by : AllKeys, hook : Hooks, copy : Rows(Nat)]
        \cup [step : {"write"}, by : AllKeys, hook : Hooks, copy : Rows(Nat), put : Puts(Nat),
               supplied : BOOLEAN]
        \cup [step : {"insert"}, by : AllKeys, copy : Rows(Nat), supplied : BOOLEAN]

TypeOK ==
    /\ hooks \subseteq used /\ used \subseteq Hooks /\ logged \subseteq hooks
    /\ hook \in [Hooks -> Rows(Nat)]
    /\ groups \subseteq Groups /\ reading \subseteq Readers
    /\ \A h \in hooks : hook[h].group \in groups
    /\ minted \in Nat /\ requests \in Nat
    /\ task \in [Tasks -> Task]
    /\ chosen \subseteq Hooks \X (Nat \cup ApiKeys) \X Aims
    /\ given \subseteq Hooks \X Nat
    /\ vouched \subseteq (Keys \cup {"unowned"}) \X Groups
    /\ stale \in BOOLEAN

Idle == [step |-> "idle"]

At(t, step) == task[t].step = step
By(t) == task[t].by
Copy(t) == task[t].copy
Become(t, record) == task' = [task EXCEPT ![t] = record]
Goto(t, step) == Become(t, [task[t] EXCEPT !.step = step])
Answer(t) == Become(t, Idle)
Served == requests < MaxRequests /\ requests' = requests + 1
CanRead(k, g) == k = Master \/ (g \in groups /\ <<k, g>> \in reading)
Owned(k) == IF k = Master THEN "unowned" ELSE k

-----------------------------------------------------------------------------
\* What a request asks for webhook h: what the row comes to, with a new secret, and with
\* a new credential or by the Master's will.
Asked(h, row, newSecret, newKey) ==
    (IF newSecret THEN {<<h, row.secret, row.aim>>} ELSE {})
    \cup (IF newKey /\ row.apikey # "none" THEN {<<h, row.apikey, row.aim>>} ELSE {})

\* What a task that stores a secret in webhook h leaves in the history.
Supplied(h, secret, supplied) == IF supplied THEN given \cup {<<h, secret>>} ELSE given

\* Secrets a client may send: one it comes up with, or one that was made, for another
\* webhook or this; nothing says that it does not know it.
Sent == 1..minted

\* What generate_signing_secret makes next.
Made == minted + 1

Init ==
    /\ \E h \in Hooks, row \in Existing :
          /\ hooks = {h} /\ used = {h} /\ hook = [i \in Hooks |-> row]
          /\ chosen = Asked(h, row, row.secret # 0, TRUE)
          /\ given = IF row.secret \in 1..Coined THEN {<<h, row.secret>>} ELSE {}
    /\ logged = {} /\ groups = Groups /\ reading = Readers
    /\ minted = Coined + 1 /\ requests = 0
    /\ task = [t \in Tasks |-> Idle]
    /\ vouched = {} /\ stale = FALSE

-----------------------------------------------------------------------------
(* Every handler on an existing webhook starts by finding it, which only its *)
(* owner and the Master can; only the Master reassigns it.                   *)

MayTouch(k, h) == k = Master \/ hook[h].owner = k

Find(t) ==
    /\ At(t, "idle") /\ Served
    /\ \E step \in Reads, by \in AllKeys, h \in hooks :
          /\ MayTouch(by, h) /\ (step = "reassign" => by = Master)
          /\ Become(t, [step |-> step, by |-> by, hook |-> h, copy |-> hook[h]])
    /\ UNCHANGED <<stored, rights, minted, past>>

-----------------------------------------------------------------------------
(* update_webhook *)

Or(new, old) == IF new = "keep" THEN old ELSE new

Merged(row, put) ==
    [row EXCEPT !.aim = Or(put.aim, @), !.mode = Or(put.mode, @), !.group = Or(put.group, @),
                !.apikey = Or(put.apikey, @), !.secret = IF put.secret = 0 THEN @ ELSE put.secret]

\* url_changed, template_changed, auth_mode_changed: against the copy.
Repointed(copy, put) == Or(put.aim, copy.aim) # copy.aim \/ Or(put.mode, copy.mode) # copy.mode

Bug_MustRotateOnRepoint(copy, put) ==
    Or(put.aim, copy.aim) # copy.aim /\ Signs(Or(put.mode, copy.mode))

MustRotate(copy, put) == Repointed(copy, put) /\ Signs(Or(put.mode, copy.mode))

Bug_MayUpdateUnread(by, copy, put) ==
    /\ Repointed(copy, put) \/ put.apikey # "keep" => copy.apikey = "none" \/ by = Master
    /\ Sound(Merged(copy, put))

\* can_read on a new group; the privileged-webhook gate; the preconditions of the mode.
MayUpdate(by, copy, put) ==
    /\ Or(put.group, copy.group) # copy.group => CanRead(by, put.group)
    /\ Repointed(copy, put) \/ put.apikey # "keep" => copy.apikey = "none" \/ by = Master
    /\ Sound(Merged(copy, put))

\* A secret is written if one is supplied, as it is, or must be made.
Update(t) ==
    /\ At(t, "update")
    /\ \E put \in Payloads, sent \in Sent \cup {0} :
          LET make == sent = 0 /\ MustRotate(Copy(t), put)
              full == [put EXCEPT !.secret = IF make THEN Made ELSE sent] IN
          IF MayUpdate(By(t), Copy(t), full)
          THEN /\ minted' = IF make THEN Made ELSE minted
               /\ Become(t, [step |-> "write", by |-> By(t), hook |-> task[t].hook,
                             copy |-> Copy(t), put |-> full, supplied |-> sent # 0])
          ELSE Answer(t) /\ UNCHANGED minted
    /\ UNCHANGED <<stored, rights, requests, past>>

\* One UPDATE by id, of the columns named, whatever has become of the rest.
Write(t) ==
    LET h == task[t].hook  put == task[t].put  view == Merged(Copy(t), put) IN
    /\ At(t, "write") /\ Answer(t)
    /\ \/ /\ h \in hooks /\ Or(put.group, hook[h].group) \in groups
          /\ hook' = [hook EXCEPT ![h] = Merged(@, put)]
          /\ chosen' = chosen \cup Asked(h, view, put.secret # 0,
                                         put.apikey # "keep" \/ By(t) = Master)
          /\ given' = Supplied(h, put.secret, task[t].supplied)
          /\ vouched' = IF By(t) = Master THEN vouched \cup {<<view.owner, view.group>>} ELSE vouched
          /\ stale' = (stale \/ hook[h] # Copy(t))
       \/ ~(h \in hooks /\ Or(put.group, hook[h].group) \in groups) /\ UNCHANGED <<hook, past>>
    /\ UNCHANGED <<hooks, used, logged, rights, minted, requests>>

-----------------------------------------------------------------------------
(* create_webhook and clone_webhook *)

\* The secret is the client's; NONE and API_KEY_ONLY may come with one as well.
Create(t) ==
    /\ At(t, "idle") /\ Served
    /\ \E by \in AllKeys, row \in Rows(Sent \cup {0}) :
          /\ row.owner = Owned(by) /\ CanRead(by, row.group) /\ Sound(row)
          /\ Become(t, [step |-> "insert", by |-> by, copy |-> row, supplied |-> row.secret # 0])
    /\ UNCHANGED <<stored, rights, minted, past>>

Bug_CloneOfSecret(t, row) == [row EXCEPT !.owner = Owned(By(t))]

Bug_CloneWithoutSecret(t, row) == [row EXCEPT !.owner = Owned(By(t)), !.secret = 0]

\* Everything is copied but the owner and the secret: a new one, if the mode signs.
CloneOf(t, row) ==
    [row EXCEPT !.owner = Owned(By(t)), !.secret = IF Signs(row.mode) THEN Made ELSE 0]

Clone(t) ==
    /\ At(t, "clone")
    /\ IF CanRead(By(t), Copy(t).group) /\ (Copy(t).apikey = "none" \/ By(t) = Master)
       THEN /\ Become(t, [step |-> "insert", by |-> By(t), copy |-> CloneOf(t, Copy(t)),
                          supplied |-> FALSE])
            /\ minted' = IF Signs(Copy(t).mode) THEN Made ELSE minted
       ELSE Answer(t) /\ UNCHANGED minted
    /\ UNCHANGED <<stored, rights, requests, past>>

\* The foreign key wants the group.
Insert(t) ==
    /\ At(t, "insert") /\ Answer(t)
    /\ \/ /\ Copy(t).group \in groups
          /\ \E h \in Hooks \ used :
                /\ hooks' = hooks \cup {h} /\ used' = used \cup {h}
                /\ hook' = [hook EXCEPT ![h] = Copy(t)]
                /\ chosen' = chosen \cup Asked(h, Copy(t), Copy(t).secret # 0, TRUE)
                /\ given' = Supplied(h, Copy(t).secret, task[t].supplied)
          /\ UNCHANGED <<vouched, stale>>
       \/ Copy(t).group \notin groups /\ UNCHANGED <<hooks, used, hook, past>>
    /\ UNCHANGED <<logged, rights, minted, requests>>

-----------------------------------------------------------------------------
(* reassign_webhook_owner, delete_webhook *)

Reassign(t) == \E owner \in Keys \cup {"unowned"} :
    LET h == task[t].hook IN
    /\ At(t, "reassign") /\ Answer(t)
    /\ \/ /\ h \in hooks
          /\ hook' = [hook EXCEPT ![h].owner = owner]
          /\ vouched' = vouched \cup {<<owner, Copy(t).group>>}
          /\ stale' = (stale \/ hook[h] # Copy(t))
          /\ UNCHANGED <<chosen, given>>
       \/ h \notin hooks /\ UNCHANGED <<hook, past>>
    /\ UNCHANGED <<hooks, used, logged, rights, minted, requests>>

Bug_DropConfigAlone(H) == hooks' = hooks \ H /\ UNCHANGED logged

\* Rows go with their executions.
Drop(H) == hooks' = hooks \ H /\ logged' = logged \ H

Delete(t) ==
    /\ At(t, "delete") /\ Answer(t)
    /\ Drop({task[t].hook})
    /\ UNCHANGED <<used, hook, rights, minted, requests, past>>

-----------------------------------------------------------------------------
(* test_webhook, and delete_webhook_execution *)

\* An execution is recorded once the receiver has answered, if the row is still there;
\* none if nothing was sent.
Test(t) ==
    /\ At(t, "test") /\ Answer(t)
    /\ logged' \in {logged, logged \cup ({task[t].hook} \cap hooks)}
    /\ UNCHANGED <<hooks, used, hook, rights, minted, requests, past>>

FindExecution(t) ==
    /\ At(t, "idle") /\ Served
    /\ \E by \in AllKeys, h \in logged :
          /\ MayTouch(by, h)
          /\ Become(t, [step |-> "forget", by |-> by, hook |-> h, copy |-> hook[h]])
    /\ UNCHANGED <<stored, rights, minted, past>>

\* The last one, or one of several.
Forget(t) ==
    /\ At(t, "forget") /\ Answer(t)
    /\ logged' \in {logged, logged \ {task[t].hook}}
    /\ UNCHANGED <<hooks, used, hook, rights, minted, requests, past>>

-----------------------------------------------------------------------------
(* Elsewhere: rights on groups come and go, groups go with their webhooks, keys are *)
(* deleted                                                                         *)

Regrant == \E r \in Readers :
    /\ reading' \in {reading \ {r}, reading \cup {r}}
    /\ UNCHANGED <<stored, groups, minted, task, requests, past>>

RemoveGroup == \E g \in groups :
    /\ groups' = groups \ {g}
    /\ Drop({h \in hooks : hook[h].group = g})
    /\ UNCHANGED <<used, hook, reading, minted, task, requests, past>>

\* delete_api_key: whoever deletes a key resolves what its inventory found there, each
\* webhook to another key or to its end, whatever has become of it since.  Nobody asks
\* what the new owner can read.
Resolve == \E h \in hooks :
    /\ Served
    /\ \/ /\ \E heir \in Keys :
                /\ hook' = [hook EXCEPT ![h].owner = heir]
                /\ vouched' = vouched \cup {<<heir, hook[h].group>>}
          /\ UNCHANGED <<hooks, logged, chosen, given, stale>>
       \/ Drop({h}) /\ UNCHANGED <<hook, past>>
    /\ UNCHANGED <<used, rights, minted, task>>

-----------------------------------------------------------------------------
Handle(t) ==
    \/ Find(t) \/ Update(t) \/ Write(t)
    \/ Create(t) \/ Clone(t) \/ Insert(t)
    \/ Reassign(t) \/ Delete(t)
    \/ Test(t) \/ FindExecution(t) \/ Forget(t)

Next == (\E t \in Tasks : Handle(t)) \/ Regrant \/ RemoveGroup \/ Resolve

Spec == Init /\ [][Next]_vars

-----------------------------------------------------------------------------
(* Properties *)

\* A webhook that signs never goes without a secret, however updates of its mode cross
\* (update_webhook: "keeps the invariant enforced on every path").
SigningHasSecret ==
    \A h \in hooks : Signs(hook[h].mode) => hook[h].secret # 0

\* A secret that clients came up with is only at webhooks it was supplied for, and one that
\* was made is at one webhook, but for those that a client supplied it for: neither a clone
\* nor a rotation spreads a secret (clone_webhook: "deliberately never copied").
SecretsApart ==
    \A h \in hooks : hook[h].secret # 0 /\ <<h, hook[h].secret>> \notin given =>
        /\ hook[h].secret > Coined
        /\ \A i \in hooks \ {h} :
              hook[i].secret = hook[h].secret => <<i, hook[i].secret>> \in given

\* The credentials a webhook sends go where somebody who may asked for them to: a secret
\* where it was made for, an api_key where whoever gave it or the Master wanted it; and
\* API_KEY_ONLY has one.  As long as no two updates cross.
Astray(h) ==
    \/ Signs(hook[h].mode) /\ <<h, hook[h].secret, hook[h].aim>> \notin chosen
    \/ hook[h].apikey # "none" /\ <<h, hook[h].apikey, hook[h].aim>> \notin chosen

CredentialsStayPut ==
    ~stale => \A h \in hooks : ~Astray(h) /\ (hook[h].mode = "key" => hook[h].apikey # "none")

\* A tenant's webhook watches a group the tenant could read at some time, unless the webhook
\* came to it on that group, from the Master or from a key that was deleted: whoever has a
\* webhook cannot turn it to what it may not read.  As long as no two updates cross.
ReachWasGranted ==
    ~stale => \A h \in hooks :
        hook[h].owner # "unowned" => <<hook[h].owner, hook[h].group>> \in Readers \cup vouched

\* webhooks.rs: "the secret a webhook holds is only ever usable against the destination
\* it was configured for".  Not where two updates cross: see README 3.
SecretKeepsItsDestination ==
    \A h \in hooks : Signs(hook[h].mode) => <<h, hook[h].secret, hook[h].aim>> \in chosen

=============================================================================
