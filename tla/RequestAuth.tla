------------------------------ MODULE RequestAuth ------------------------------
(***************************************************************************)
(* Authentication of one API key's requests: auth_middleware               *)
(* (src/src/middleware.rs) around the process-wide ReplayGuard             *)
(* (src/src/replay.rs).                                                    *)
(*                                                                         *)
(* A request is checked for freshness, has its body buffered and its HMAC  *)
(* verified, and then passes the guard's three lock sections one after the *)
(* other: read the map's size, decide whether to sweep, sweep, look up and *)
(* record.  Every lock section is a step, so handler tasks interleave      *)
(* between them exactly where the code releases a mutex or awaits.         *)
(*                                                                         *)
(* Time: `clock' is the monotonic clock (tokio::time::Instant) in whole    *)
(* seconds; the wall clock is clock + offset and may be stepped.           *)
(***************************************************************************)
EXTENDS Integers, FiniteSets

CONSTANTS
    Requests,         \* handler tasks that may be in flight at once
    Digests,          \* distinct signed contents (method, target, body) of the key
    Timestamps,       \* the X-Timestamp values clients sign with
    Window,           \* MAX_TIMESTAMP_SKEW_SECS: skew allowed and signature memory
    PruneInterval,    \* routine sweep interval (window / 4 in the code)
    CapacityBackoff,  \* spacing of capacity sweeps (window / 16 in the code)
    MaxTracked,       \* MAX_TRACKED_SIGNATURES
    WallOffsets,      \* wall clock minus monotonic clock: the values it may take
    MaxHold,          \* bound: seconds from the freshness check to the guard
    MaxStall,         \* bound: seconds a task spends inside check_and_record
    MaxClock          \* bound: how long the clock runs

ASSUME ClockAssumption ==
    /\ Digests # {} /\ Timestamps # {}
    /\ Timestamps \subseteq Int /\ WallOffsets \subseteq Int /\ 0 \in WallOffsets
    /\ MaxHold \in Nat /\ MaxStall \in Nat /\ MaxClock \in Nat

ASSUME GuardAssumption ==
    /\ Window \in Nat \ {0}
    /\ PruneInterval \in Nat /\ CapacityBackoff \in Nat /\ MaxTracked \in Nat

VARIABLES
    clock,     \* the monotonic clock
    offset,    \* wall clock - monotonic clock
    seen,      \* ReplayGuard.seen: signature -> instant it is forgotten, or Unseen
    schedule,  \* ReplayGuard.schedule
    req,       \* the request each handler task is serving
    answer,    \* what each task last answered
    uses,      \* history: verified acceptances of each signature since boot
    lastUse    \* history: the guard's clock reading at the last of them

vars == <<clock, offset, seen, schedule, req, answer, uses, lastUse>>

-----------------------------------------------------------------------------
\* The signed message contains the timestamp, so a signature determines it.
Signatures == [digest : Digests, ts : Timestamps]

Unseen == 0   \* no entry; real entries expire at now + Window > 0

Phases == {"idle", "reading", "sizing", "deciding", "sweeping", "checking", "authorizing"}
InGuard == {"sizing", "deciding", "sweeping", "checking"}
Sweeps == {"none", "routine", "capacity"}
Answers == {"none", "unauthorized", "replay", "forbidden", "next"}

Request == [phase : Phases, sig : Signatures, authentic : BOOLEAN, inNetwork : BOOLEAN,
            now : Int, over : BOOLEAN, sweep : Sweeps]

TypeOK ==
    /\ clock \in Nat
    /\ offset \in WallOffsets
    /\ seen \in [Signatures -> 0..(clock + Window)]
    /\ schedule \in [next : Nat, next_capacity : Nat]
    /\ req \in [Requests -> Request]
    /\ \A r \in Requests : req[r].now \in 0..clock
    /\ answer \in [Requests -> Answers]
    /\ uses \in [Signatures -> Nat]
    /\ lastUse \in [Signatures -> Nat]

WallClock == clock + offset

\* validate_timestamp: the skew is symmetric.
Abs(n) == IF n < 0 THEN -n ELSE n

Bug_FreshIfNotAhead(sig) == sig.ts - WallClock <= Window

Fresh(sig) == Abs(WallClock - sig.ts) <= Window

Tracked == Cardinality({s \in Signatures : seen[s] # Unseen})

FreshSchedule(now) == [next |-> now + PruneInterval, next_capacity |-> now]

NoRequest == [phase |-> "idle", sig |-> CHOOSE s \in Signatures : TRUE, authentic |-> TRUE,
              inNetwork |-> TRUE, now |-> 0, over |-> FALSE, sweep |-> "none"]

Init ==
    /\ clock = 0
    /\ offset = 0
    /\ seen = [s \in Signatures |-> Unseen]
    /\ schedule = FreshSchedule(0)
    /\ req = [r \in Requests |-> NoRequest]
    /\ answer = [r \in Requests |-> "none"]
    /\ uses = [s \in Signatures |-> 0]
    /\ lastUse = [s \in Signatures |-> 0]

-----------------------------------------------------------------------------
At(r, phase) == req[r].phase = phase

Reply(r, what) ==
    /\ req' = [req EXCEPT ![r] = NoRequest]
    /\ answer' = [answer EXCEPT ![r] = what]

\* A request arrives: any signature, a copy of an earlier one included.  A stale
\* timestamp or a malformed header is refused before any database round-trip.
\* Only then does the task look the key up and await the body.
Incoming(sig, authentic, inNetwork) ==
    [NoRequest EXCEPT !.phase = "reading", !.sig = sig, !.authentic = authentic,
                      !.inNetwork = inNetwork, !.now = clock]

Arrive(r) ==
    /\ At(r, "idle")
    /\ \/ \E s \in Signatures, authentic, inNetwork \in BOOLEAN :
             /\ Fresh(s)
             /\ req' = [req EXCEPT ![r] = Incoming(s, authentic, inNetwork)]
             /\ answer' = [answer EXCEPT ![r] = "none"]
       \/ /\ \E s \in Signatures, wellFormed \in BOOLEAN : ~(Fresh(s) /\ wellFormed)
          /\ Reply(r, "unauthorized")
    /\ UNCHANGED <<clock, offset, seen, schedule, uses, lastUse>>

\* The body has arrived and the HMAC is verified; check_and_record reads the
\* clock once and keeps that reading for all of its sections.
EnterGuard(r) ==
    req' = [req EXCEPT ![r].phase = "sizing", ![r].now = clock]

Bug_VerifyTrustsNetwork(r) ==
    /\ At(r, "reading")
    /\ \/ /\ (req[r].authentic \/ req[r].inNetwork)
          /\ EnterGuard(r) /\ UNCHANGED answer
       \/ ~req[r].authentic /\ ~req[r].inNetwork /\ Reply(r, "unauthorized")
    /\ UNCHANGED <<clock, offset, seen, schedule, uses, lastUse>>

Verify(r) ==
    /\ At(r, "reading")
    /\ \/ req[r].authentic /\ EnterGuard(r) /\ UNCHANGED answer
       \/ ~req[r].authentic /\ Reply(r, "unauthorized")
    /\ UNCHANGED <<clock, offset, seen, schedule, uses, lastUse>>

\* prune_if_due, first lock: how full the map is.
ReadSize(r) ==
    /\ At(r, "sizing")
    /\ req' = [req EXCEPT ![r].phase = "deciding", ![r].over = Tracked >= MaxTracked]
    /\ UNCHANGED <<clock, offset, seen, schedule, answer, uses, lastUse>>

\* prune_if_due, second lock: decide, and claim the sweep by moving the schedule.
RoutineDue(r) == req[r].now >= schedule.next
CapacityDue(r) == req[r].over /\ req[r].now >= schedule.next_capacity

Claimed(r) ==
    [next |-> req[r].now + PruneInterval,
     next_capacity |-> IF CapacityDue(r) THEN req[r].now + CapacityBackoff
                                         ELSE schedule.next_capacity]

Decide(r) ==
    /\ At(r, "deciding")
    /\ \/ /\ RoutineDue(r) \/ CapacityDue(r)
          /\ schedule' = Claimed(r)
          /\ req' = [req EXCEPT ![r].phase = "sweeping",
                                ![r].over = FALSE,
                                ![r].sweep = IF CapacityDue(r) THEN "capacity" ELSE "routine"]
       \/ /\ ~RoutineDue(r) /\ ~CapacityDue(r)
          /\ req' = [req EXCEPT ![r].phase = "checking", ![r].over = FALSE]
          /\ UNCHANGED schedule
    /\ UNCHANGED <<clock, offset, seen, answer, uses, lastUse>>

\* prune_if_due, third lock: retain the live entries.
Bug_RetainNothingAtCapacity(r, s) == req[r].sweep # "capacity" /\ seen[s] > req[r].now
Bug_RetainWhileSaturated(r, s) == seen[s] > req[r].now \/ req[r].sweep = "capacity"

Retained(r, s) == seen[s] > req[r].now

Sweep(r) ==
    /\ At(r, "sweeping")
    /\ seen' = [s \in Signatures |-> IF Retained(r, s) THEN seen[s] ELSE Unseen]
    /\ req' = [req EXCEPT ![r].phase = "checking", ![r].sweep = "none"]
    /\ UNCHANGED <<clock, offset, schedule, answer, uses, lastUse>>

Bug_ExpiryFromTimestamp(r) == req[r].sig.ts + Window

Expiry(r) == req[r].now + Window

\* check_and_record, last lock: an unexpired entry is a replay, anything else is
\* recorded for a window from the reading.
CheckAndRecord(r) ==
    LET s == req[r].sig IN
    /\ At(r, "checking")
    /\ \/ /\ seen[s] > req[r].now
          /\ Reply(r, "replay")
          /\ UNCHANGED <<seen, uses, lastUse>>
       \/ /\ seen[s] <= req[r].now
          /\ seen' = [seen EXCEPT ![s] = Expiry(r)]
          /\ req' = [req EXCEPT ![r].phase = "authorizing", ![r].now = 0]
          /\ uses' = [uses EXCEPT ![s] = IF req[r].authentic THEN @ + 1 ELSE @]
          /\ lastUse' = [lastUse EXCEPT ![s] = IF req[r].authentic THEN req[r].now ELSE @]
          /\ UNCHANGED answer
    /\ UNCHANGED <<clock, offset, schedule>>

\* bound_ips is judged last; a request inside the key's networks reaches the handler.
Authorize(r) ==
    /\ At(r, "authorizing")
    /\ Reply(r, IF req[r].inNetwork THEN "next" ELSE "forbidden")
    /\ UNCHANGED <<clock, offset, seen, schedule, uses, lastUse>>

-----------------------------------------------------------------------------
\* The environment: time passes, the wall clock is stepped, the process restarts.
Tick ==
    /\ clock < MaxClock
    /\ \A r \in Requests :
          /\ At(r, "reading") => clock - req[r].now < MaxHold
          /\ req[r].phase \in InGuard => clock - req[r].now < MaxStall
    /\ clock' = clock + 1
    /\ UNCHANGED <<offset, seen, schedule, req, answer, uses, lastUse>>

StepWallClock ==
    /\ offset' \in WallOffsets \ {offset}
    /\ UNCHANGED <<clock, seen, schedule, req, answer, uses, lastUse>>

\* ReplayGuard lives in memory: a restart builds a new one and drops every task.
Restart ==
    /\ seen' = [s \in Signatures |-> Unseen]
    /\ schedule' = FreshSchedule(clock)
    /\ req' = [r \in Requests |-> NoRequest]
    /\ answer' = [r \in Requests |-> "none"]
    /\ uses' = [s \in Signatures |-> 0]
    /\ lastUse' = [s \in Signatures |-> 0]
    /\ UNCHANGED <<clock, offset>>

Handle(r) ==
    \/ Arrive(r) \/ Verify(r) \/ ReadSize(r) \/ Decide(r) \/ Sweep(r)
    \/ CheckAndRecord(r) \/ Authorize(r)

Next ==
    \/ \E r \in Requests : Handle(r)
    \/ Tick \/ StepWallClock \/ Restart

Spec == Init /\ [][Next]_vars

-----------------------------------------------------------------------------
\* A signature accepted on a clock reading is not accepted again until a full
\* window after that reading, whatever the wall clock does and however full the
\* map is (replay.rs, "Monotonic expiry" and "Graceful saturation").
AcceptedOncePerWindow ==
    [][\A s \in Signatures :
          uses'[s] > uses[s] /\ uses[s] > 0 => clock >= lastUse[s] + Window]_vars

\* A request is called a replay only if its own signature was accepted, from a
\* verified request, less than a window before (replay.rs, "Ordering": nobody
\* can pre-insert a signature a client is about to send).
ReplayVerdictJustified ==
    [][\A r \in Requests :
          answer'[r] = "replay" /\ answer[r] # "replay" =>
              LET s == req[r].sig
              IN  uses[s] > 0 /\ req[r].now < lastUse[s] + Window]_vars

\* The 403 for a foreign network is answered only to a caller that has proven it
\* holds the signing secret and has spent its signature (auth_middleware,
\* "Ordering: authenticate, then authorize").
ForbiddenOnlyAfterProof ==
    [][\A r \in Requests :
          answer'[r] = "forbidden" /\ answer[r] # "forbidden" =>
              req[r].authentic /\ uses[req[r].sig] > 0]_vars

\* Whenever no sweep is in progress the map holds no entry that had expired by
\* the last sweep the schedule records: expired signatures are released within
\* one prune interval of traffic (replay.rs, PRUNE_INTERVAL_DIVISOR).
ExpiredAreReleased ==
    (\A r \in Requests : ~At(r, "sweeping")) =>
        \A s \in Signatures : seen[s] # Unseen => seen[s] > schedule.next - PruneInterval

\* A signature accepted later than its timestamp plus the time a request may be held
\* is spent for good, as far as the wall clock does not lag behind: the memory of the
\* guard and the freshness check meet (field doc of ReplayGuard.window).
AgedSignatureIsSpent ==
    [][\A s \in Signatures :
          /\ uses[s] > 0
          /\ \A o \in WallOffsets : lastUse[s] + o > s.ts + MaxHold + MaxStall
          => uses'[s] <= uses[s]]_vars

\* AGENT.MD: a (key, signature) pair already accepted inside the freshness
\* window is rejected, so no signature is accepted twice.
SingleUse == \A s \in Signatures : uses[s] <= 1
=============================================================================
