--------------------------- MODULE RequestAuthProofs ---------------------------
(***************************************************************************)
(* The replay guard's promise, for any number of tasks, signatures and     *)
(* clock steps.                                                            *)
(*                                                                         *)
(* The invariant ties the map to the history: an entry is exactly the last *)
(* acceptance of its signature plus a window, and it is still there while  *)
(* the window lasts.  Tasks inside the guard carry clock readings that may *)
(* be old but never lie in the future, which is why a sweep by a slow task *)
(* cannot remove an entry that is still live for a faster one.             *)
(*                                                                         *)
(* Then, from how long a request may be held before the guard and between  *)
(* its locks: that sweeps release what has expired, that a signature       *)
(* accepted late is spent for good, and how often one may be accepted.     *)
(***************************************************************************)
EXTENDS RequestAuth, TLAPS

EntryIsLastUse ==
    \A s \in Signatures : seen[s] # Unseen => uses[s] > 0 /\ seen[s] = lastUse[s] + Window

LiveIsRemembered ==
    \A s \in Signatures : uses[s] > 0 /\ clock < lastUse[s] + Window => seen[s] # Unseen

PastVerification == InGuard \cup {"authorizing"}

GuardedIsVerified ==
    \A r \in Requests : req[r].phase \in PastVerification => req[r].authentic

AcceptedIsUsed ==
    \A r \in Requests : At(r, "authorizing") => uses[req[r].sig] > 0

IInv ==
    /\ TypeOK
    /\ EntryIsLastUse
    /\ LiveIsRemembered
    /\ GuardedIsVerified
    /\ AcceptedIsUsed

-----------------------------------------------------------------------------
\* An idle task's record is a request record (a signature exists to put in it).
LEMMA NoRequestType ==
    NoRequest \in Request /\ NoRequest.now = 0 /\ NoRequest.phase = "idle"
<1>1. \E s \in Signatures : TRUE
  <2>1. PICK d \in Digests, t \in Timestamps : TRUE
    BY ClockAssumption
  <2>2. [digest |-> d, ts |-> t] \in Signatures
    BY DEF Signatures
  <2>3. QED
    BY <2>2
<1>2. QED
  BY <1>1 DEF NoRequest, Request, Phases, Sweeps

LEMMA IncomingType ==
    ASSUME TypeOK, NEW s \in Signatures, NEW a \in BOOLEAN, NEW n \in BOOLEAN
    PROVE  /\ Incoming(s, a, n) \in Request
           /\ Incoming(s, a, n).phase = "reading"
           /\ Incoming(s, a, n).now = clock
<1>1. clock \in Int
  BY DEF TypeOK
<1>2. QED
  BY <1>1, NoRequestType DEF Incoming, Request, Phases

\* Every step keeps the variables in their types: `answer' and `req' change for
\* one task at a time.
LEMMA TypeInit == Init => TypeOK
BY NoRequestType, ClockAssumption, GuardAssumption
   DEF Init, TypeOK, Answers, FreshSchedule, Unseen

LEMMA TypeHandle ==
    ASSUME TypeOK, NEW r \in Requests, Handle(r)
    PROVE  TypeOK'
<1> USE NoRequestType, ClockAssumption, GuardAssumption
<1>1. CASE Arrive(r)
  <2>1. PICK x \in Request : x.now \in 0..clock /\ req' = [req EXCEPT ![r] = x]
    BY <1>1, IncomingType DEF Arrive, Reply, TypeOK
  <2>2. answer' \in [Requests -> Answers]
    BY <1>1 DEF Arrive, Reply, TypeOK, Answers
  <2>3. QED
    BY <1>1, <2>1, <2>2 DEF Arrive, TypeOK
<1>2. CASE Verify(r)
  BY SMTT(90), <1>2 DEF Verify, EnterGuard, Reply, At, TypeOK, Request, Phases, Answers, Sweeps
<1>3. CASE ReadSize(r)
  <2>1. PICK full \in BOOLEAN :
           req' = [req EXCEPT ![r].phase = "deciding", ![r].over = full]
    <3>1. (Tracked >= MaxTracked) \in BOOLEAN
      OBVIOUS
    <3>2. QED
      BY <1>3, <3>1, Zenon DEF ReadSize
  <2>2. /\ req' \in [Requests -> Request]
        /\ \A q \in Requests : req'[q].now = req[q].now
    BY ZenonT(90), <2>1 DEF TypeOK, Request, Phases
  <2>3. QED
    BY <1>3, <2>2 DEF ReadSize, TypeOK
<1>4. CASE Decide(r)
  BY SMTT(90), <1>4 DEF Decide, Claimed, CapacityDue, RoutineDue, At, TypeOK, Request, Phases, Sweeps
<1>5. CASE Sweep(r)
  <2>1. seen' \in [Signatures -> 0..(clock + Window)]
    BY <1>5 DEF Sweep, Unseen, TypeOK
  <2>2. req' \in [Requests -> Request] /\ \A q \in Requests : req'[q].now \in 0..clock
    BY ZenonT(90), <1>5 DEF Sweep, TypeOK, Request, Phases, Sweeps
  <2>3. QED
    BY <1>5, <2>1, <2>2 DEF Sweep, TypeOK
<1>6. CASE CheckAndRecord(r)
  BY SMTT(90), <1>6 DEF CheckAndRecord, Expiry, Reply, At, TypeOK, Request, Phases, Answers, Sweeps
<1>7. CASE Authorize(r)
  BY <1>7 DEF Authorize, Reply, At, TypeOK, Request, Phases, Answers, Sweeps
<1>8. QED
  BY <1>1, <1>2, <1>3, <1>4, <1>5, <1>6, <1>7 DEF Handle

LEMMA TypeNext == TypeOK /\ [Next]_vars => TypeOK'
<1> SUFFICES ASSUME TypeOK, [Next]_vars PROVE TypeOK'
  OBVIOUS
<1> USE NoRequestType, ClockAssumption, GuardAssumption
<1>1. CASE \E r \in Requests : Handle(r)
  BY <1>1, TypeHandle
<1>2. CASE Tick
  BY <1>2 DEF Tick, TypeOK
<1>3. CASE StepWallClock
  BY <1>3 DEF StepWallClock, TypeOK
<1>4. CASE Restart
  BY <1>4 DEF Restart, FreshSchedule, Unseen, TypeOK, Answers
<1>5. CASE UNCHANGED vars
  BY <1>5 DEF vars, TypeOK
<1>6. QED
  BY <1>1, <1>2, <1>3, <1>4, <1>5 DEF Next

\* RequestAuth's variables keep their types; no entry outlives a window from now
\* and no task's clock reading lies in the future.
THEOREM TypeCorrect == Spec => []TypeOK
BY TypeInit, TypeNext, PTL DEF Spec

-----------------------------------------------------------------------------
LEMMA InvInit == Init => IInv
<1> SUFFICES ASSUME Init PROVE IInv
  OBVIOUS
<1>1. TypeOK
  BY TypeInit
<1>2. QED
  BY <1>1, NoRequestType
     DEF Init, IInv, EntryIsLastUse, LiveIsRemembered, GuardedIsVerified, AcceptedIsUsed,
         PastVerification, InGuard, At, Unseen

LEMMA InvHandle ==
    ASSUME IInv, NEW r \in Requests, Handle(r)
    PROVE  IInv'
<1> USE NoRequestType, GuardAssumption
<1> USE DEF EntryIsLastUse, LiveIsRemembered, GuardedIsVerified, AcceptedIsUsed, At,
            PastVerification, InGuard
<1>0. TypeOK /\ TypeOK'
  BY TypeHandle DEF IInv
<1>1. CASE Arrive(r)
  <2>1. PICK x \in Request : x.phase \in {"reading", "idle"} /\ req' = [req EXCEPT ![r] = x]
    BY <1>0, <1>1, IncomingType DEF Arrive, Reply
  <2>2. QED
    BY <1>0, <1>1, <2>1 DEF Arrive, IInv, TypeOK
<1>2. CASE Verify(r)
  <2>1. CASE req[r].authentic /\ EnterGuard(r)
    BY <1>0, <1>2, <2>1 DEF Verify, EnterGuard, IInv, TypeOK, Request
  <2>2. CASE Reply(r, "unauthorized")
    BY <1>0, <1>2, <2>2 DEF Verify, Reply, IInv, TypeOK
  <2>3. QED
    BY <1>2, <2>1, <2>2 DEF Verify
<1>3. CASE ReadSize(r)
  BY <1>0, <1>3 DEF ReadSize, IInv, TypeOK, Request
<1>4. CASE Decide(r)
  <2>1. /\ \A q \in Requests : req'[q].sig = req[q].sig /\ req'[q].authentic = req[q].authentic
        /\ \A q \in Requests \ {r} : req'[q] = req[q]
        /\ req'[r].phase \in {"sweeping", "checking"}
    <3>1. CASE req' = [req EXCEPT ![r].phase = "checking", ![r].over = FALSE]
      BY <1>0, <3>1 DEF TypeOK, Request
    <3>2. CASE RoutineDue(r) \/ CapacityDue(r)
      <4>1. PICK kind \in Sweeps :
               req' = [req EXCEPT ![r].phase = "sweeping", ![r].over = FALSE, ![r].sweep = kind]
        BY <1>4, <3>2 DEF Decide, Sweeps
      <4>2. QED
        BY <1>0, <4>1 DEF TypeOK, Request
    <3>3. QED
      BY <1>4, <3>1, <3>2 DEF Decide
  <2>2. QED
    BY <1>0, <1>4, <2>1 DEF Decide, IInv
<1>5. CASE Sweep(r)
  BY <1>0, <1>5 DEF Sweep, Retained, Unseen, IInv, TypeOK, Request
<1>6. CASE CheckAndRecord(r)
  <2> DEFINE s == req[r].sig
  <2>1. s \in Signatures /\ req[r].now \in Nat /\ req[r].authentic
    BY <1>0, <1>6 DEF CheckAndRecord, IInv, TypeOK, Request
  <2>2. CASE Reply(r, "replay") /\ UNCHANGED <<seen, uses, lastUse>>
    BY <1>0, <1>6, <2>2 DEF CheckAndRecord, Reply, IInv, TypeOK
  <2>3. CASE /\ seen' = [seen EXCEPT ![s] = Expiry(r)]
             /\ req' = [req EXCEPT ![r].phase = "authorizing", ![r].now = 0]
             /\ uses' = [uses EXCEPT ![s] = @ + 1]
             /\ lastUse' = [lastUse EXCEPT ![s] = req[r].now]
    <3>1. EntryIsLastUse' /\ LiveIsRemembered'
      BY <1>0, <1>6, <2>1, <2>3 DEF CheckAndRecord, Expiry, Unseen, IInv, TypeOK
    <3>2. GuardedIsVerified' /\ AcceptedIsUsed'
      BY <1>0, <2>1, <2>3 DEF IInv, TypeOK, Request
    <3>3. QED
      BY <1>0, <3>1, <3>2 DEF IInv
  <2>4. QED
    BY <1>6, <2>1, <2>2, <2>3 DEF CheckAndRecord
<1>7. CASE Authorize(r)
  BY <1>0, <1>7 DEF Authorize, Reply, IInv, TypeOK, Request
<1>8. QED
  BY <1>1, <1>2, <1>3, <1>4, <1>5, <1>6, <1>7 DEF Handle

LEMMA InvNext == IInv /\ [Next]_vars => IInv'
<1> SUFFICES ASSUME IInv, [Next]_vars PROVE IInv'
  OBVIOUS
<1> USE NoRequestType
<1> USE DEF EntryIsLastUse, LiveIsRemembered, GuardedIsVerified, AcceptedIsUsed, At,
            PastVerification, InGuard
<1>0. TypeOK /\ TypeOK'
  BY TypeNext DEF IInv
<1>1. CASE \E r \in Requests : Handle(r)
  BY <1>1, InvHandle
<1>2. CASE Tick
  BY <1>0, <1>2, GuardAssumption DEF Tick, IInv, TypeOK
<1>3. CASE StepWallClock
  BY <1>0, <1>3 DEF StepWallClock, IInv
<1>4. CASE Restart
  BY <1>0, <1>4 DEF Restart, IInv, Unseen
<1>5. CASE UNCHANGED vars
  BY <1>0, <1>5 DEF vars, IInv
<1>6. QED
  BY <1>1, <1>2, <1>3, <1>4, <1>5 DEF Next

\* auth_middleware and the guard's lock sections keep map and history in step.
THEOREM Invariance == Spec => []IInv
BY InvInit, InvNext, PTL DEF Spec

-----------------------------------------------------------------------------
\* A signature is not accepted again within a window of the reading it was last
\* accepted on (ReplayGuard::check_and_record).
THEOREM OncePerWindow == Spec => AcceptedOncePerWindow
<1> DEFINE Gap == \A s \in Signatures :
                     uses'[s] > uses[s] /\ uses[s] > 0 => clock >= lastUse[s] + Window
<1>1. IInv /\ [Next]_vars => [Gap]_vars
  <2> SUFFICES ASSUME IInv, Next PROVE Gap
    OBVIOUS
  <2>1. CASE \E r \in Requests : CheckAndRecord(r)
    <3>1. PICK r \in Requests : CheckAndRecord(r)
      BY <2>1
    <3>2. QED
      BY SMTT(90), <3>1, GuardAssumption
         DEF CheckAndRecord, Reply, At, IInv, TypeOK, Request, EntryIsLastUse, LiveIsRemembered
  <2>2. CASE \E r \in Requests : Handle(r) /\ ~CheckAndRecord(r)
    BY <2>2 DEF Handle, Arrive, Verify, ReadSize, Decide, Sweep, Authorize, IInv, TypeOK
  <2>3. CASE Tick \/ StepWallClock \/ Restart
    BY <2>3 DEF Tick, StepWallClock, Restart, IInv, TypeOK
  <2>4. QED
    BY <2>1, <2>2, <2>3 DEF Next
<1>2. QED
  BY <1>1, Invariance, PTL DEF Spec, AcceptedOncePerWindow

\* A replay verdict always rests on a verified acceptance less than a window old.
THEOREM VerdictJustified == Spec => ReplayVerdictJustified
<1> DEFINE Just == \A r \in Requests :
                      answer'[r] = "replay" /\ answer[r] # "replay" =>
                          LET s == req[r].sig
                          IN  uses[s] > 0 /\ req[r].now < lastUse[s] + Window
<1>1. IInv /\ [Next]_vars => [Just]_vars
  <2> SUFFICES ASSUME IInv, Next PROVE Just
    OBVIOUS
  <2>1. CASE \E r \in Requests : CheckAndRecord(r)
    <3>1. PICK r \in Requests : CheckAndRecord(r)
      BY <2>1
    <3>2. req[r].sig \in Signatures /\ req[r].now \in Nat
      BY DEF IInv, TypeOK, Request
    <3>3. QED
      BY <3>1, <3>2
         DEF CheckAndRecord, Reply, IInv, TypeOK, EntryIsLastUse, Unseen
  <2>2. CASE \E r \in Requests : Handle(r) /\ ~CheckAndRecord(r)
    BY <2>2 DEF Handle, Arrive, Verify, ReadSize, Decide, Sweep, Authorize, Reply, IInv, TypeOK
  <2>3. CASE Tick \/ StepWallClock \/ Restart
    BY <2>3 DEF Tick, StepWallClock, Restart, IInv, TypeOK
  <2>4. QED
    BY <2>1, <2>2, <2>3 DEF Next
<1>2. QED
  BY <1>1, Invariance, PTL DEF Spec, ReplayVerdictJustified

\* bound_ips is judged only for a caller whose signature was verified and spent.
THEOREM NetworkJudgedLast == Spec => ForbiddenOnlyAfterProof
<1> DEFINE Proven == \A r \in Requests :
                        answer'[r] = "forbidden" /\ answer[r] # "forbidden" =>
                            req[r].authentic /\ uses[req[r].sig] > 0
<1>1. IInv /\ [Next]_vars => [Proven]_vars
  <2> SUFFICES ASSUME IInv, Next PROVE Proven
    OBVIOUS
  <2>1. CASE \E r \in Requests : Authorize(r)
    BY <2>1 DEF Authorize, Reply, At, IInv, TypeOK, GuardedIsVerified, AcceptedIsUsed,
                PastVerification, InGuard
  <2>2. CASE \E r \in Requests : Handle(r) /\ ~Authorize(r)
    BY <2>2 DEF Handle, Arrive, Verify, ReadSize, Decide, Sweep, CheckAndRecord, Reply,
                IInv, TypeOK
  <2>3. CASE Tick \/ StepWallClock \/ Restart
    BY <2>3 DEF Tick, StepWallClock, Restart, IInv, TypeOK
  <2>4. QED
    BY <2>1, <2>2, <2>3 DEF Next
<1>2. QED
  BY <1>1, Invariance, PTL DEF Spec, ForbiddenOnlyAfterProof
-----------------------------------------------------------------------------
\* How long ago a task's clock reading was taken, and how stale the request it
\* serves may have become since validate_timestamp let it in.
HoldsAreBounded ==
    \A r \in Requests :
        /\ At(r, "reading") => clock - req[r].now <= MaxHold
        /\ req[r].phase \in InGuard => clock - req[r].now <= MaxStall

WasFresh ==
    \A r \in Requests :
        /\ At(r, "reading") =>
              \E o \in WallOffsets : req[r].now + o <= req[r].sig.ts + Window
        /\ req[r].phase \in InGuard =>
              \E o \in WallOffsets : req[r].now + o <= req[r].sig.ts + Window + MaxHold

HInv == TypeOK /\ HoldsAreBounded /\ WasFresh

\* What the schedule records of the last claim, and who still owes its sweep.
LastClaim == schedule.next - PruneInterval

Owed(r) == At(r, "sweeping") /\ req[r].now >= LastClaim

SweepIsOwed ==
    \/ \E r \in Requests : Owed(r)
    \/ \A s \in Signatures : seen[s] # Unseen => seen[s] > LastClaim

SInv == LastClaim \in 0..clock /\ SweepIsOwed

-----------------------------------------------------------------------------
\* Every step but Tick leaves the readings of the other tasks alone; a task's own
\* reading is set on arrival and on entering the guard, and cleared on leaving it.
LEMMA HoldInit == Init => HInv
BY TypeInit, NoRequestType DEF Init, HInv, HoldsAreBounded, WasFresh, At, InGuard

\* What a handler step does to one request, as far as HInv tells steps apart.
LEMMA HandleMoves ==
    ASSUME TypeOK, NEW r \in Requests, Handle(r)
    PROVE  /\ \A q \in Requests \ {r} : req'[q] = req[q]
           /\ \/ req'[r].phase \in {"idle", "authorizing"}
              \/ /\ At(r, "idle") /\ req'[r].phase = "reading"
                 /\ req'[r].now = clock /\ Fresh(req'[r].sig) /\ req'[r].sig \in Signatures
              \/ /\ At(r, "reading") /\ req'[r].phase = "sizing"
                 /\ req'[r].now = clock /\ req'[r].sig = req[r].sig
              \/ /\ req[r].phase \in InGuard /\ req'[r].phase \in InGuard
                 /\ req'[r].now = req[r].now /\ req'[r].sig = req[r].sig
           /\ UNCHANGED <<clock, offset>>
<1> USE NoRequestType DEF InGuard, At, TypeOK
<1>1. CASE Arrive(r)
  <2>1. CASE req' = [req EXCEPT ![r] = NoRequest]
    BY <1>1, <2>1 DEF Arrive
  <2>2. CASE \E s \in Signatures, a, n \in BOOLEAN :
                Fresh(s) /\ req' = [req EXCEPT ![r] = Incoming(s, a, n)]
    <3>1. PICK s \in Signatures, a \in BOOLEAN, n \in BOOLEAN :
             Fresh(s) /\ req' = [req EXCEPT ![r] = Incoming(s, a, n)]
      BY <2>2
    <3>2. Incoming(s, a, n).sig = s
      BY NoRequestType, ZenonT(90) DEF Incoming, Request
    <3>3. QED
      BY <1>1, <3>1, <3>2, IncomingType DEF Arrive
  <2>3. QED
    BY <1>1, <2>1, <2>2 DEF Arrive, Reply
<1>2. CASE Verify(r)
  BY SMTT(90), <1>2 DEF Verify, EnterGuard, Reply, Request
<1>3. CASE ReadSize(r)
  BY SMTT(90), <1>3 DEF ReadSize, Request
<1>4. CASE Decide(r)
  <2>1. CASE req' = [req EXCEPT ![r].phase = "checking", ![r].over = FALSE]
    BY SMTT(90), <1>4, <2>1 DEF Decide, Request
  <2>2. CASE RoutineDue(r) \/ CapacityDue(r)
    <3>1. PICK kind \in Sweeps :
             req' = [req EXCEPT ![r].phase = "sweeping", ![r].over = FALSE, ![r].sweep = kind]
      BY <1>4, <2>2 DEF Decide, Sweeps
    <3>2. QED
      BY SMTT(90), <1>4, <3>1 DEF Decide, Request
  <2>3. QED
    BY <1>4, <2>1, <2>2 DEF Decide
<1>5. CASE Sweep(r)
  BY SMTT(90), <1>5 DEF Sweep, Request
<1>6. CASE CheckAndRecord(r)
  BY SMTT(90), <1>6 DEF CheckAndRecord, Reply, Request
<1>7. CASE Authorize(r)
  BY SMTT(90), <1>7 DEF Authorize, Reply, Request
<1>8. QED
  BY <1>1, <1>2, <1>3, <1>4, <1>5, <1>6, <1>7 DEF Handle

LEMMA TimestampIsInt ==
    ASSUME NEW s \in Signatures
    PROVE  s.ts \in Int
<1>1. PICK d \in Digests, t \in Timestamps : s = [digest |-> d, ts |-> t]
  BY DEF Signatures
<1>2. s.ts = t
  BY <1>1
<1>3. QED
  BY <1>2, ClockAssumption

\* A timestamp that passes the skew test is at most a window behind the wall clock.
LEMMA FreshBound ==
    ASSUME TypeOK, NEW s \in Signatures, Fresh(s)
    PROVE  s.ts \in Int /\ clock + offset <= s.ts + Window
<1>1. s.ts \in Int
  BY TimestampIsInt
<1>2. clock \in Int /\ offset \in Int
  BY ClockAssumption DEF TypeOK
<1>3. DEFINE skew == clock + offset - s.ts
<1>4. skew \in Int /\ Abs(skew) <= Window
  BY <1>1, <1>2 DEF Fresh, WallClock
<1>5. skew <= Window
  BY <1>4, GuardAssumption DEF Abs
<1>6. QED
  BY <1>1, <1>2, <1>5, GuardAssumption

LEMMA HoldHandle ==
    ASSUME HInv, NEW r \in Requests, Handle(r)
    PROVE  HInv'
<1>0. TypeOK /\ TypeOK'
  BY TypeHandle DEF HInv
<1>1. \A q \in Requests : req[q].now \in Nat /\ req[q].sig \in Signatures /\ req[q].sig.ts \in Int
  <2>1. \A q \in Requests : req[q] \in Request /\ req[q].now \in Nat
    BY <1>0 DEF TypeOK
  <2>2. \A q \in Requests : req[q].sig \in Signatures
    BY <2>1 DEF Request
  <2>3. QED
    BY <2>1, <2>2, TimestampIsInt
<1>2. HoldsAreBounded'
  BY <1>0, <1>1, HandleMoves, ClockAssumption DEF HInv, HoldsAreBounded, InGuard, At, TypeOK
<1>3. WasFresh'
  <2> SUFFICES ASSUME NEW q \in Requests
               PROVE  /\ At(q, "reading")' =>
                            \E o \in WallOffsets : req'[q].now + o <= req'[q].sig.ts + Window
                      /\ req'[q].phase \in InGuard =>
                            \E o \in WallOffsets :
                                req'[q].now + o <= req'[q].sig.ts + Window + MaxHold
    BY DEF WasFresh, At
  <2>1. CASE q # r
    BY <1>0, <2>1, HandleMoves DEF HInv, WasFresh, At
  <2>2. CASE At(r, "idle") /\ q = r /\ req'[r].phase = "reading"
    <3>1. req'[r].now = clock /\ Fresh(req'[r].sig) /\ req'[r].sig \in Signatures
      BY <1>0, <2>2, HandleMoves DEF InGuard, At
    <3>2. clock + offset <= req'[r].sig.ts + Window
      BY <1>0, <3>1, FreshBound
    <3>3. QED
      BY <1>0, <2>2, <3>1, <3>2 DEF TypeOK, InGuard, At
  <2>3. CASE At(r, "reading") /\ q = r /\ req'[r].phase = "sizing"
    <3>1. req'[r].now = clock /\ req'[r].sig = req[r].sig
      BY <1>0, <2>3, HandleMoves DEF InGuard, At
    <3>2. PICK o \in WallOffsets : req[r].now + o <= req[r].sig.ts + Window
      BY <2>3 DEF HInv, WasFresh
    <3>3. clock - req[r].now <= MaxHold
      BY <2>3 DEF HInv, HoldsAreBounded
    <3>4. clock + o <= req[r].sig.ts + Window + MaxHold
      BY <1>0, <1>1, <3>2, <3>3, ClockAssumption, GuardAssumption DEF TypeOK
    <3>5. QED
      BY <2>3, <3>1, <3>4 DEF At
  <2>4. CASE req[r].phase \in InGuard /\ q = r /\ req'[r].phase \in InGuard
    BY <1>0, <2>4, HandleMoves DEF HInv, WasFresh, At, InGuard
  <2>5. QED
    BY <1>0, <2>1, <2>2, <2>3, <2>4, HandleMoves DEF At, InGuard
<1>4. QED
  BY <1>0, <1>2, <1>3 DEF HInv

LEMMA HoldNext == HInv /\ [Next]_vars => HInv'
<1> SUFFICES ASSUME HInv, [Next]_vars PROVE HInv'
  OBVIOUS
<1> USE DEF HoldsAreBounded, WasFresh, At
<1>0. TypeOK /\ TypeOK'
  BY TypeNext DEF HInv
<1>1. CASE \E r \in Requests : Handle(r)
  BY <1>1, HoldHandle
<1>2. CASE Tick
  BY <1>0, <1>2, ClockAssumption DEF Tick, HInv, TypeOK
<1>3. CASE StepWallClock
  BY <1>0, <1>3 DEF StepWallClock, HInv
<1>4. CASE Restart
  BY <1>0, <1>4, NoRequestType DEF Restart, HInv, InGuard
<1>5. CASE UNCHANGED vars
  BY <1>0, <1>5 DEF vars, HInv
<1>6. QED
  BY <1>1, <1>2, <1>3, <1>4, <1>5 DEF Next

\* Every request in the guard carries a reading at most MaxStall old, and was let
\* in by validate_timestamp at most MaxHold before that reading.
THEOREM HeldRequestsWereFresh == Spec => []HInv
BY HoldInit, HoldNext, PTL DEF Spec
-----------------------------------------------------------------------------
\* The sweeps.  A claim moves the schedule to its own reading and leaves the
\* claimant sweeping; a record made by a task that has not stalled for a whole
\* window outlives every claim that was ever made.
LEMMA ClaimInit == Init => SInv
BY GuardAssumption DEF Init, SInv, SweepIsOwed, LastClaim, FreshSchedule, Unseen

LEMMA ClaimHandle ==
    ASSUME MaxStall < Window, HInv, SInv, NEW r \in Requests, Handle(r)
    PROVE  SInv'
<1> USE DEF SInv, SweepIsOwed, Owed, LastClaim, At
<1>0. TypeOK /\ TypeOK'
  BY TypeHandle DEF HInv
<1>1. /\ clock \in Nat /\ schedule.next \in Int /\ PruneInterval \in Int /\ Window \in Nat
      /\ MaxStall \in Nat /\ \A q \in Requests : req[q].now \in 0..clock
      /\ \A s \in Signatures : seen[s] \in Nat
  BY <1>0, ClockAssumption, GuardAssumption DEF TypeOK
<1>2. CASE Arrive(r) \/ Verify(r) \/ ReadSize(r) \/ Authorize(r)
  <2>1. UNCHANGED <<clock, seen, schedule>> /\ ~At(r, "sweeping")
    BY <1>2 DEF Arrive, Verify, ReadSize, Authorize
  <2>2. \A q \in Requests : Owed(q) => req'[q] = req[q]
    BY <1>0, <2>1, HandleMoves
  <2>3. QED
    BY <2>1, <2>2
<1>3. CASE Decide(r)
  <2>1. CASE RoutineDue(r) \/ CapacityDue(r)
    <3>1. schedule' = Claimed(r) /\ At(r, "sweeping")'
      BY <1>0, <1>3, <2>1 DEF Decide, TypeOK, Request
    <3>2. LastClaim' = req[r].now
      BY <1>1, <3>1 DEF Claimed
    <3>3. req'[r].now = req[r].now /\ clock' = clock
      BY <1>0, <1>3, <3>1, HandleMoves DEF Decide, InGuard
    <3>4. Owed(r)'
      BY <1>1, <3>1, <3>2, <3>3
    <3>5. QED
      BY <1>1, <3>2, <3>3, <3>4
  <2>2. CASE UNCHANGED schedule
    <3>1. UNCHANGED <<clock, seen, schedule>> /\ ~At(r, "sweeping")
      BY <1>3, <2>2 DEF Decide
    <3>2. \A q \in Requests : Owed(q) => req'[q] = req[q]
      BY <1>0, <3>1, HandleMoves
    <3>3. QED
      BY <3>1, <3>2
  <2>3. QED
    BY <1>3, <2>1, <2>2 DEF Decide
<1>4. CASE Sweep(r)
  <2>1. UNCHANGED <<clock, schedule>>
    BY <1>4 DEF Sweep
  <2>2. \A s \in Signatures : seen'[s] # Unseen => seen'[s] = seen[s] /\ seen[s] > req[r].now
    BY <1>0, <1>4 DEF Sweep, Retained, TypeOK
  <2>3. CASE req[r].now >= LastClaim
    BY <1>1, <2>1, <2>2, <2>3
  <2>4. CASE ~(req[r].now >= LastClaim) /\ \E q \in Requests : Owed(q)
    <3>1. PICK q \in Requests \ {r} : Owed(q)
      BY <2>4
    <3>2. req'[q] = req[q]
      BY <1>0, HandleMoves
    <3>3. QED
      BY <2>1, <3>1, <3>2
  <2>5. CASE \A s \in Signatures : seen[s] # Unseen => seen[s] > LastClaim
    BY <2>1, <2>2, <2>5
  <2>6. QED
    BY <2>3, <2>4, <2>5
<1>5. CASE CheckAndRecord(r)
  <2>1. UNCHANGED <<clock, schedule>> /\ ~At(r, "sweeping") /\ req[r].phase \in InGuard
    BY <1>5 DEF CheckAndRecord, InGuard
  <2>2. \A q \in Requests : Owed(q) => req'[q] = req[q]
    BY <1>0, <2>1, HandleMoves
  <2>3. clock - req[r].now <= MaxStall
    BY <2>1 DEF HInv, HoldsAreBounded
  <2>4. Expiry(r) > LastClaim
    BY <1>1, <2>3 DEF Expiry
  <2>5. \A s \in Signatures : seen'[s] = seen[s] \/ seen'[s] = Expiry(r)
    BY <1>0, <1>5 DEF CheckAndRecord, TypeOK
  <2>6. QED
    BY <2>1, <2>2, <2>4, <2>5
<1>6. QED
  BY <1>2, <1>3, <1>4, <1>5 DEF Handle

LEMMA ClaimNext == MaxStall < Window /\ HInv /\ SInv /\ [Next]_vars => SInv'
<1> SUFFICES ASSUME MaxStall < Window, HInv, SInv, [Next]_vars PROVE SInv'
  OBVIOUS
<1> USE DEF SInv, SweepIsOwed, Owed, LastClaim, At
<1>0. TypeOK /\ clock \in Nat
  BY DEF HInv, TypeOK
<1>1. CASE \E r \in Requests : Handle(r)
  BY <1>1, ClaimHandle
<1>2. CASE Tick
  BY <1>0, <1>2, GuardAssumption DEF Tick, TypeOK
<1>3. CASE StepWallClock
  BY <1>3 DEF StepWallClock
<1>4. CASE Restart
  BY <1>0, <1>4, GuardAssumption DEF Restart, FreshSchedule, Unseen
<1>5. CASE UNCHANGED vars
  BY <1>5 DEF vars
<1>6. QED
  BY <1>1, <1>2, <1>3, <1>4, <1>5 DEF Next

\* Between sweeps the map holds nothing that had expired at the last claim
\* (ReplayGuard::prune_if_due), as long as no task stays a whole window inside
\* check_and_record, which awaits nothing but its own mutexes.
THEOREM SweepsRelease ==
    ASSUME MaxStall < Window
    PROVE  Spec => []ExpiredAreReleased
<1>1. Init => SInv
  BY ClaimInit
<1>2. HInv /\ SInv /\ [Next]_vars => SInv'
  BY ClaimNext
<1>3. SInv => ExpiredAreReleased
  BY DEF SInv, SweepIsOwed, Owed, LastClaim, ExpiredAreReleased
<1>4. QED
  BY <1>1, <1>2, <1>3, HeldRequestsWereFresh, PTL DEF Spec

\* A signature accepted late enough is never accepted again, on any wall clock
\* (ReplayGuard.window and validate_timestamp together).
THEOREM LateIsSpent == Spec => AgedSignatureIsSpent
<1> DEFINE Spent == \A s \in Signatures :
                       /\ uses[s] > 0
                       /\ \A o \in WallOffsets : lastUse[s] + o > s.ts + MaxHold + MaxStall
                       => uses'[s] <= uses[s]
<1>1. IInv /\ HInv /\ [Next]_vars => [Spent]_vars
  <2> SUFFICES ASSUME IInv, HInv, Next PROVE Spent
    OBVIOUS
  <2>0. TypeOK
    BY DEF IInv
  <2>1. CASE \E r \in Requests : CheckAndRecord(r)
    <3>1. PICK r \in Requests : CheckAndRecord(r)
      BY <2>1
    <3> DEFINE s == req[r].sig
    <3>2. s \in Signatures /\ req[r].now \in 0..clock /\ req[r].phase \in InGuard
      BY <2>0, <3>1 DEF TypeOK, Request, CheckAndRecord, At, InGuard
    <3>3. \A q \in Signatures : q # s => uses'[q] = uses[q]
      BY <2>0, <3>1 DEF CheckAndRecord, TypeOK
    <3>4. uses' = uses \/ seen[s] <= req[r].now
      BY <3>1 DEF CheckAndRecord
    <3>5. ASSUME uses[s] > 0, seen[s] <= req[r].now
          PROVE  \E o \in WallOffsets : ~(lastUse[s] + o > s.ts + MaxHold + MaxStall)
      <4>1. clock >= lastUse[s] + Window
        BY <2>0, <3>2, <3>5, GuardAssumption
           DEF IInv, LiveIsRemembered, EntryIsLastUse, TypeOK
      <4>2. PICK o \in WallOffsets : req[r].now + o <= s.ts + Window + MaxHold
        BY <3>2 DEF HInv, WasFresh
      <4>3. clock - req[r].now <= MaxStall
        BY <3>2 DEF HInv, HoldsAreBounded
      <4>4. /\ s.ts \in Int /\ o \in Int /\ clock \in Int /\ lastUse[s] \in Int
            /\ Window \in Int /\ MaxHold \in Int /\ MaxStall \in Int /\ req[r].now \in Int
        BY <2>0, <3>2, TimestampIsInt, ClockAssumption, GuardAssumption DEF TypeOK
      <4>5. lastUse[s] + o <= s.ts + MaxHold + MaxStall
        BY <4>1, <4>2, <4>3, <4>4
      <4>6. QED
        BY <4>4, <4>5
    <3>6. QED
      BY <2>0, <3>3, <3>4, <3>5 DEF TypeOK
  <2>2. CASE \E r \in Requests : Handle(r) /\ ~CheckAndRecord(r)
    BY <2>0, <2>2 DEF Handle, Arrive, Verify, ReadSize, Decide, Sweep, Authorize, TypeOK
  <2>3. CASE Tick \/ StepWallClock \/ Restart
    BY <2>0, <2>3 DEF Tick, StepWallClock, Restart, TypeOK
  <2>4. QED
    BY <2>1, <2>2, <2>3 DEF Next
<1>2. QED
  BY <1>1, Invariance, HeldRequestsWereFresh, PTL DEF Spec, AgedSignatureIsSpent
-----------------------------------------------------------------------------
\* How far single use can fail.  A request is let in no earlier than a window
\* before its timestamp, and each acceptance of a signature moves the reading of
\* the last one on by a window, less what a task may stall inside the guard.
NotEarly ==
    \A r \in Requests :
        At(r, "reading") \/ req[r].phase \in InGuard =>
            \E o \in WallOffsets : req[r].now + o >= req[r].sig.ts - Window

ReachedBy(s, t) == \E o \in WallOffsets : lastUse[s] + o >= t

UsesAdvance ==
    \A s \in Signatures :
        /\ uses[s] \in 0..3
        /\ uses[s] >= 1 => ReachedBy(s, s.ts - Window)
        /\ uses[s] >= 2 => ReachedBy(s, s.ts - MaxStall)
        /\ uses[s] >= 3 => ReachedBy(s, s.ts + Window - MaxStall - MaxStall)

EInv == NotEarly /\ UsesAdvance

\* No signature is accepted by check_and_record more than three times per boot.
AtMostThreeUses == \A s \in Signatures : uses[s] <= 3

\* validate_timestamp refuses a timestamp more than a window ahead.
LEMMA FreshLowerBound ==
    ASSUME TypeOK, NEW s \in Signatures, Fresh(s)
    PROVE  clock + offset >= s.ts - Window
<1>1. s.ts \in Int
  BY TimestampIsInt
<1>2. clock \in Int /\ offset \in Int
  BY ClockAssumption DEF TypeOK
<1>3. DEFINE skew == clock + offset - s.ts
<1>4. skew \in Int /\ Abs(skew) <= Window
  BY <1>1, <1>2 DEF Fresh, WallClock
<1>5. skew >= 0 - Window
  BY <1>4, GuardAssumption DEF Abs
<1>6. QED
  BY <1>1, <1>2, <1>5, GuardAssumption

LEMMA NotEarlyHandle ==
    ASSUME HInv, NotEarly, NEW r \in Requests, Handle(r)
    PROVE  NotEarly'
<1>0. TypeOK /\ TypeOK'
  BY TypeHandle DEF HInv
<1>1. SUFFICES ASSUME NEW q \in Requests, At(q, "reading")' \/ req'[q].phase \in InGuard
               PROVE  \E o \in WallOffsets : req'[q].now + o >= req'[q].sig.ts - Window
  BY DEF NotEarly, At
<1>2. CASE q # r
  BY <1>0, <1>1, <1>2, HandleMoves DEF NotEarly, At
<1>3. CASE q = r /\ At(r, "idle") /\ req'[r].phase = "reading"
  <2>1. req'[r].now = clock /\ Fresh(req'[r].sig) /\ req'[r].sig \in Signatures
    BY <1>0, <1>3, HandleMoves DEF InGuard, At
  <2>2. clock + offset >= req'[r].sig.ts - Window
    BY <1>0, <2>1, FreshLowerBound
  <2>3. QED
    BY <1>0, <1>3, <2>1, <2>2 DEF TypeOK
<1>4. CASE q = r /\ At(r, "reading") /\ req'[r].phase = "sizing"
  <2>1. req'[r].now = clock /\ req'[r].sig = req[r].sig
    BY <1>0, <1>4, HandleMoves DEF InGuard, At
  <2>2. PICK o \in WallOffsets : req[r].now + o >= req[r].sig.ts - Window
    BY <1>4 DEF NotEarly
  <2>3. /\ req[r].now \in 0..clock /\ clock \in Int /\ o \in Int
        /\ req[r].sig \in Signatures
    BY <1>0, ClockAssumption DEF TypeOK, Request
  <2>4. req[r].sig.ts \in Int
    BY <2>3, TimestampIsInt
  <2>5. clock + o >= req[r].sig.ts - Window
    BY <2>2, <2>3, <2>4, GuardAssumption
  <2>6. QED
    BY <1>4, <2>1, <2>5
<1>5. CASE q = r /\ req[r].phase \in InGuard /\ req'[r].phase \in InGuard
  BY <1>0, <1>5, HandleMoves DEF NotEarly, At, InGuard
<1>6. QED
  BY <1>0, <1>1, <1>2, <1>3, <1>4, <1>5, HandleMoves DEF At, InGuard

\* An acceptance finds the signature unused, or used a whole window ago.
LEMMA AcceptanceGap ==
    ASSUME IInv, HInv, NEW r \in Requests, CheckAndRecord(r), uses' # uses
    PROVE  LET s == req[r].sig
           IN  /\ s \in Signatures /\ req[r].now \in Nat
               /\ uses' = [uses EXCEPT ![s] = uses[s] + 1]
               /\ lastUse' = [lastUse EXCEPT ![s] = req[r].now]
               /\ uses[s] > 0 => req[r].now + MaxStall >= lastUse[s] + Window
<1> DEFINE s == req[r].sig
<1>0. TypeOK
  BY DEF IInv
<1>1. s \in Signatures /\ req[r].now \in 0..clock /\ req[r].phase \in InGuard
  BY <1>0 DEF TypeOK, Request, CheckAndRecord, At, InGuard
<1>2. seen[s] <= req[r].now /\ req[r].authentic
  BY <1>1 DEF CheckAndRecord, IInv, GuardedIsVerified, PastVerification
<1>3. uses[s] > 0 => clock >= lastUse[s] + Window
  BY <1>0, <1>1, <1>2, GuardAssumption
     DEF IInv, LiveIsRemembered, EntryIsLastUse, TypeOK
<1>4. clock - req[r].now <= MaxStall
  BY <1>1 DEF HInv, HoldsAreBounded
<1>5. uses[s] > 0 => req[r].now + MaxStall >= lastUse[s] + Window
  BY <1>0, <1>1, <1>3, <1>4, ClockAssumption, GuardAssumption DEF TypeOK
<1>6. QED
  BY <1>0, <1>1, <1>2, <1>5 DEF CheckAndRecord, TypeOK

LEMMA UsesStep ==
    ASSUME NEW d \in Nat, \A o, p \in WallOffsets : o - p <= d,
           MaxHold + MaxStall + MaxStall + MaxStall + d < Window,
           IInv, HInv, EInv, NEW r \in Requests, CheckAndRecord(r)
    PROVE  UsesAdvance'
<1>1. CASE uses' = uses
  BY <1>1 DEF CheckAndRecord, EInv, UsesAdvance, ReachedBy, IInv, TypeOK
<1>2. CASE uses' # uses
  <2>1. PICK s \in Signatures, n \in Nat :
        /\ s = req[r].sig /\ n = req[r].now
        /\ uses' = [uses EXCEPT ![s] = uses[s] + 1]
        /\ lastUse' = [lastUse EXCEPT ![s] = n]
        /\ uses[s] > 0 => n + MaxStall >= lastUse[s] + Window
    BY <1>2, AcceptanceGap
  <2>2. /\ s.ts \in Int /\ lastUse[s] \in Int /\ uses[s] \in 0..3
        /\ uses \in [Signatures -> Nat] /\ lastUse \in [Signatures -> Nat]
        /\ Window \in Int /\ MaxStall \in Nat /\ MaxHold \in Nat /\ WallOffsets \subseteq Int
    BY <2>1, TimestampIsInt, ClockAssumption, GuardAssumption
       DEF EInv, UsesAdvance, IInv, TypeOK
  <2>3. PICK late \in WallOffsets : n + late <= s.ts + Window + MaxHold
    BY <2>1 DEF HInv, WasFresh, CheckAndRecord, At, InGuard
  <2>4. PICK early \in WallOffsets : n + early >= s.ts - Window
    BY <2>1 DEF EInv, NotEarly, CheckAndRecord, At, InGuard
  <2>5. ASSUME NEW t \in Int, ReachedBy(s, t), uses[s] > 0
        PROVE  \E o \in WallOffsets : n + o >= t + Window - MaxStall
    <3>1. PICK o \in WallOffsets : lastUse[s] + o >= t
      BY <2>5 DEF ReachedBy
    <3>2. o \in Int
      BY <2>2
    <3>3. n + o >= t + Window - MaxStall
      BY <2>1, <2>2, <2>5, <3>1, <3>2
    <3>4. QED
      BY <3>3
  <2>6. uses[s] = 1 => \E o \in WallOffsets : n + o >= s.ts - MaxStall
    <3>1. uses[s] = 1 => ReachedBy(s, s.ts - Window)
      BY <2>1 DEF EInv, UsesAdvance
    <3>2. s.ts - Window \in Int /\ (s.ts - Window) + Window - MaxStall = s.ts - MaxStall
      BY <2>2
    <3>3. QED
      BY <2>2, <2>5, <3>1, <3>2
  <2>7. uses[s] = 2 => \E o \in WallOffsets : n + o >= s.ts + Window - MaxStall - MaxStall
    <3>1. uses[s] = 2 => ReachedBy(s, s.ts - MaxStall)
      BY <2>1 DEF EInv, UsesAdvance
    <3>2. /\ s.ts - MaxStall \in Int
          /\ (s.ts - MaxStall) + Window - MaxStall = s.ts + Window - MaxStall - MaxStall
      BY <2>2
    <3>3. QED
      BY <2>2, <2>5, <3>1, <3>2
  <2>8. uses[s] # 3
    <3> SUFFICES ASSUME uses[s] = 3 PROVE FALSE
      OBVIOUS
    <3> DEFINE t == s.ts + Window - MaxStall - MaxStall
    <3>1. ReachedBy(s, t) /\ t \in Int
      BY <2>1, <2>2 DEF EInv, UsesAdvance
    <3>2. PICK o \in WallOffsets : n + o >= t + Window - MaxStall
      BY <2>5, <3>1
    <3>3. o - late <= d /\ o \in Int /\ late \in Int
      BY <2>2
    <3>4. QED
      BY <2>1, <2>2, <2>3, <3>2, <3>3
  <2>9. QED
    <3> SUFFICES ASSUME NEW q \in Signatures
                 PROVE  /\ uses'[q] \in 0..3
                        /\ uses'[q] >= 1 => ReachedBy(q, q.ts - Window)'
                        /\ uses'[q] >= 2 => ReachedBy(q, q.ts - MaxStall)'
                        /\ uses'[q] >= 3 => ReachedBy(q, q.ts + Window - MaxStall - MaxStall)'
      BY DEF UsesAdvance
    <3>1. CASE q # s
      BY <2>1, <2>2, <3>1 DEF EInv, UsesAdvance, ReachedBy
    <3>2. CASE q = s
      <4>1. uses'[s] = uses[s] + 1 /\ lastUse'[s] = n
        BY <2>1, <2>2
      <4>2. ReachedBy(s, s.ts - Window)'
        BY <2>4, <4>1 DEF ReachedBy
      <4>3. uses[s] >= 1 => \E o \in WallOffsets : n + o >= s.ts - MaxStall
        <5>1. ASSUME uses[s] = 2 PROVE \E o \in WallOffsets : n + o >= s.ts - MaxStall
          <6>1. PICK o \in WallOffsets : n + o >= s.ts + Window - MaxStall - MaxStall
            BY <2>7, <5>1
          <6>2. o \in Int
            BY <2>2
          <6>3. n + o >= s.ts - MaxStall
            BY <2>1, <2>2, <6>1, <6>2
          <6>4. QED
            BY <6>3
        <5>2. QED
          BY <2>2, <2>6, <2>8, <5>1
      <4>4. QED
        BY <2>2, <2>7, <2>8, <3>2, <4>1, <4>2, <4>3 DEF ReachedBy
    <3>3. QED
      BY <3>1, <3>2
<1>3. QED
  BY <1>1, <1>2

LEMMA UsesNext ==
    ASSUME NEW d \in Nat, \A o, p \in WallOffsets : o - p <= d,
           MaxHold + MaxStall + MaxStall + MaxStall + d < Window
    PROVE  IInv /\ HInv /\ EInv /\ [Next]_vars => EInv'
<1> SUFFICES ASSUME IInv, HInv, EInv, [Next]_vars PROVE EInv'
  OBVIOUS
<1> USE DEF EInv, UsesAdvance, ReachedBy
<1>0. TypeOK
  BY DEF IInv
<1>1. CASE \E r \in Requests : CheckAndRecord(r)
  BY <1>1, UsesStep, NotEarlyHandle DEF Handle
<1>2. CASE \E r \in Requests : Handle(r) /\ ~CheckAndRecord(r)
  <2>1. PICK r \in Requests : Handle(r) /\ ~CheckAndRecord(r)
    BY <1>2
  <2>2. NotEarly'
    BY <2>1, NotEarlyHandle
  <2>3. UNCHANGED <<uses, lastUse>>
    BY <2>1 DEF Handle, Arrive, Verify, ReadSize, Decide, Sweep, Authorize
  <2>4. QED
    BY <2>2, <2>3
<1>3. CASE Tick
  BY <1>3 DEF Tick, NotEarly, At
<1>4. CASE StepWallClock
  BY <1>4 DEF StepWallClock, NotEarly, At
<1>5. CASE Restart
  BY <1>0, <1>5, NoRequestType DEF Restart, NotEarly, At, InGuard
<1>6. CASE UNCHANGED vars
  BY <1>6 DEF vars, NotEarly, At
<1>7. QED
  BY <1>1, <1>2, <1>3, <1>4, <1>5, <1>6 DEF Next

\* SingleUse fails by at most two: while the time a request may be held, three
\* stalls and the spread of the wall clock stay below a window, one boot of the
\* process accepts one signature three times at most (validate_timestamp and
\* check_and_record together; once at either end of the skew and once between).
THEOREM ThreeUsesAtMost ==
    ASSUME NEW d \in Nat, \A o, p \in WallOffsets : o - p <= d,
           MaxHold + MaxStall + MaxStall + MaxStall + d < Window
    PROVE  Spec => []AtMostThreeUses
<1>1. Init => EInv
  BY NoRequestType
     DEF Init, EInv, NotEarly, UsesAdvance, At, InGuard
<1>2. IInv /\ HInv /\ EInv /\ [Next]_vars => EInv'
  BY UsesNext
<1>3. EInv => AtMostThreeUses
  BY DEF EInv, UsesAdvance, AtMostThreeUses
<1>4. QED
  BY <1>1, <1>2, <1>3, Invariance, HeldRequestsWereFresh, PTL DEF Spec
=============================================================================
