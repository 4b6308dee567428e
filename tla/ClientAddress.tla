----------------------------- MODULE ClientAddress -----------------------------
(***************************************************************************)
(* Whose address is it?  TRUSTED_PROXIES and resolve_client_ip of          *)
(* src/src/config.rs: the cache of resolved proxy names behind a           *)
(* readers-writer lock, shared by all requests and the task that primed it *)
(* at the start, and the walk over X-Forwarded-For with what it hands out. *)
(*                                                                         *)
(* A step of a request goes from one await to the next.  Time is counted   *)
(* in the ages the code reads (Instant::elapsed), and each stops where     *)
(* nothing tells it from a greater one.                                    *)
(***************************************************************************)
EXTENDS Integers, Sequences, FiniteSets

CONSTANTS
    Addresses,     \* hosts of the network
    Literals,      \* the spellings that the configured networks contain
    Names,         \* the hostnames configured, in order
    Answers,       \* what the resolver may answer for a name; {}: a failure
    PositiveTTL, NegativeTTL,   \* POSITIVE_TTL, NEGATIVE_TTL
    Grace,         \* BOOT_GRACE_PERIOD
    MaxLookup,     \* bound: how long the resolver takes for one name
    Requests,      \* requests in flight
    Boot,          \* the task of prime_with_grace
    Routes,        \* bound: the ways requests come, a sequence from client to peer
    Claims,        \* bound: what a client may write into X-Forwarded-For and X-Real-IP
    Junk           \* an entry that is no address, or none

Spellings == Addresses \X {"plain", "mapped"}
Hosts == {Names[i] : i \in DOMAIN Names}
Tasks == Requests \cup {Boot}

ASSUME NamesAssumption == Names \in Seq(Hosts) /\ Names # <<>>
ASSUME TrustAssumption == Literals \subseteq Spellings
ASSUME AnswersAssumption == {} \in Answers /\ \A A \in Answers : A \subseteq Addresses \X {"plain"}
ASSUME TimesAssumption ==
    /\ NegativeTTL \in Nat /\ PositiveTTL \in Nat /\ NegativeTTL <= PositiveTTL
    /\ Grace \in Nat /\ MaxLookup \in Nat
ASSUME RoutesAssumption ==
    /\ Routes \subseteq Seq(Spellings) /\ <<>> \notin Routes
    /\ Claims \subseteq Spellings \cup {Junk} /\ Junk \notin Spellings
ASSUME TasksAssumption == Boot \notin Requests /\ "nobody" \notin Tasks

VARIABLES
    hosts,      \* ResolutionCache.hosts
    snapshot,   \* ResolutionCache.snapshot
    built,      \* ResolutionCache.built
    lock,       \* the task that holds the cache for writing, or "nobody"
    step,       \* where each task is
    given,      \* the networks handed to each request
    lookup,     \* the lookup its holder awaits
    primed,     \* whether the names have been primed
    nap,        \* how long the grace period has lasted
    dns,        \* what each name resolves to
    since,      \* history: how long all of that has been so
    quiet       \* history: how long since a lookup of each name began, and was not cut off

cache == <<hosts, snapshot, built, lookup>>
past == <<since, quiet>>
vars == <<cache, lock, step, given, primed, nap, dns, past>>

-----------------------------------------------------------------------------
(* The walk *)

Normal(ip) == <<ip[1], "plain">>

IsTrusted(ip, trusted) == ip \in trusted

\* The places of a line that hold the address of no trusted proxy.
Strangers(line, trusted) ==
    {i \in DOMAIN line : line[i] # Junk /\ ~IsTrusted(Normal(line[i]), trusted)}

Last(S) == CHOOSE i \in S : \A j \in S : j <= i

Bug_LeftmostHop(line, trusted) ==
    LET S == Strangers(line, trusted) IN Normal(line[CHOOSE i \in S : \A j \in S : i <= j])

RightmostHop(line, trusted) == Normal(line[Last(Strangers(line, trusted))])

\* Of several X-Forwarded-For lines the first is read, and of X-Real-IP too.
ResolveClientIp(peer, lines, realIp, trusted) ==
    IF ~IsTrusted(Normal(peer), trusted) THEN Normal(peer)
    ELSE IF lines # <<>> /\ Strangers(lines[1], trusted) # {} THEN RightmostHop(lines[1], trusted)
    ELSE IF realIp # Junk THEN Normal(realIp)
    ELSE Normal(peer)

-----------------------------------------------------------------------------
(* The cache *)

Attempt == [addresses : SUBSET Spellings, elapsed : 0..PositiveTTL]

\* A name without an entry is like one that failed long ago.
NoAttempt == [addresses |-> {}, elapsed |-> PositiveTTL]

IsFresh(attempt) ==
    attempt.elapsed < (IF attempt.addresses # {} THEN PositiveTTL ELSE NegativeTTL)

Merged(known) == Literals \cup UNION {known[h].addresses : h \in Hosts}

\* How long an address may outlive its name: lookups may come between.
Settling == PositiveTTL + Len(Names) * MaxLookup

NoLookup == [place |-> 0, asked |-> {}, elapsed |-> 0]

TypeOK ==
    /\ hosts \in [Hosts -> Attempt]
    /\ snapshot \in SUBSET Spellings /\ built \in BOOLEAN
    /\ lock \in Tasks \cup {"nobody"}
    /\ step \in [Tasks -> {"idle", "read", "write", "refresh", "resolved", "nap"}]
    /\ given \in [Requests -> SUBSET Spellings]
    /\ lookup \in [place : 0..Len(Names), asked : SUBSET Spellings, elapsed : 0..MaxLookup]
    /\ lookup.place # 0 <=> lock # "nobody"
    /\ \A t \in Tasks : step[t] = "refresh" <=> lock = t
    /\ primed \in BOOLEAN /\ nap \in 0..Grace
    /\ dns \in [Hosts -> Answers]
    /\ since \in 0..(Settling + 1) /\ quiet \in [Hosts -> 0..NegativeTTL]

Init ==
    /\ hosts = [h \in Hosts |-> NoAttempt] /\ snapshot = {} /\ built = FALSE
    /\ lock = "nobody" /\ lookup = NoLookup
    /\ step = [t \in Tasks |-> IF t = Boot THEN "write" ELSE "idle"]
    /\ given = [r \in Requests |-> {}]
    /\ primed = FALSE /\ nap = 0
    /\ dns \in [Hosts -> Answers]
    /\ since = Settling + 1
    /\ quiet = [h \in Hosts |-> NegativeTTL]

At(t, where) == step[t] = where
Goto(t, where) == step' = [step EXCEPT ![t] = where]

-----------------------------------------------------------------------------
(* TrustedProxies::resolved *)

Arrive(r) ==
    /\ At(r, "idle") \/ At(r, "resolved")
    /\ Goto(r, "read") /\ given' = [given EXCEPT ![r] = {}]
    /\ UNCHANGED <<cache, lock, primed, nap, dns, past>>

UpToDate == built /\ \A h \in Hosts : IsFresh(hosts[h])

Hand(r, networks) ==
    /\ given' = [given EXCEPT ![r] = networks]
    /\ Goto(r, "resolved")

Read(r) ==
    /\ At(r, "read") /\ lock = "nobody"
    /\ \/ UpToDate /\ Hand(r, snapshot)
       \/ ~UpToDate /\ Goto(r, "write") /\ UNCHANGED given
    /\ UNCHANGED <<cache, lock, primed, nap, dns, past>>

-----------------------------------------------------------------------------
(* TrustedProxies::refresh_locked *)

Bug_AllDue(known, from) == from..Len(Names)

Due(known, from) == {i \in from..Len(Names) : ~IsFresh(known[Names[i]])}

Begin(i) ==
    /\ lookup' = [place |-> i, asked |-> dns[Names[i]], elapsed |-> 0]
    /\ quiet' = [quiet EXCEPT ![Names[i]] = 0]

\* The rest of prime_with_grace.
Primed(known) ==
    /\ primed' = TRUE
    /\ Goto(Boot, IF ~primed /\ \E h \in Hosts : known[h].addresses = {} THEN "nap" ELSE "idle")
    /\ UNCHANGED given

\* As if prime kept its guard while the grace period lasts.
Bug_FinishNapsWithTheLock(t, known) ==
    /\ snapshot' = Merged(known) /\ built' = TRUE
    /\ lock' = (IF t = Boot THEN Boot ELSE "nobody") /\ lookup' = NoLookup
    /\ IF t = Boot THEN Primed(known) ELSE Hand(t, snapshot') /\ UNCHANGED primed

Finish(t, known) ==
    /\ snapshot' = Merged(known) /\ built' = TRUE
    /\ lock' = "nobody" /\ lookup' = NoLookup
    /\ IF t = Boot THEN Primed(known) ELSE Hand(t, snapshot') /\ UNCHANGED primed

\* Names that are fresh are passed over; the first that is not is looked up.
Continue(t, known, from) ==
    /\ hosts' = known
    /\ \/ \E i \in Due(known, from) :
            /\ \A j \in Due(known, from) : i <= j
            /\ Begin(i)
            /\ lock' = t /\ Goto(t, "refresh")
            /\ UNCHANGED <<snapshot, built, given, primed>>
       \/ Due(known, from) = {} /\ Finish(t, known) /\ UNCHANGED quiet

\* prime clears the attempts first.
Acquire(t) ==
    /\ At(t, "write") /\ lock = "nobody"
    /\ Continue(t, IF t = Boot THEN [h \in Hosts |-> NoAttempt] ELSE hosts, 1)
    /\ UNCHANGED <<nap, dns, since>>

Bug_RecordedUnlessFailed(h, found) ==
    IF found = {} /\ hosts[h].addresses # {} THEN [hosts EXCEPT ![h].elapsed = 0]
    ELSE [hosts EXCEPT ![h] = [addresses |-> found, elapsed |-> 0]]

Recorded(h, found) == [hosts EXCEPT ![h] = [addresses |-> found, elapsed |-> 0]]

\* The answer is of some moment of the lookup, its age that of its end.
Record(t) ==
    /\ At(t, "refresh")
    /\ LET h == Names[lookup.place] IN
       \E found \in {lookup.asked, dns[h]} :
          Continue(t, Recorded(h, found), lookup.place + 1)
    /\ UNCHANGED <<nap, dns, since>>

WakeUp ==
    /\ At(Boot, "nap") /\ nap = Grace
    /\ Goto(Boot, "write") /\ nap' = 0
    /\ UNCHANGED <<cache, lock, given, primed, dns, past>>

-----------------------------------------------------------------------------
(* Clients hang up; names move; time passes *)

\* The lock goes with the guard that is dropped; attempts made so far stay.
HangUp(r) ==
    /\ step[r] \in {"read", "write", "refresh"}
    /\ Goto(r, "idle")
    /\ \/ /\ lock = r /\ lock' = "nobody" /\ lookup' = NoLookup
          /\ quiet' = [quiet EXCEPT ![Names[lookup.place]] = NegativeTTL]
       \/ lock # r /\ UNCHANGED <<lock, lookup, quiet>>
    /\ UNCHANGED <<hosts, snapshot, built, given, primed, nap, dns, since>>

Move == \E h \in Hosts, A \in Answers :
    /\ A # dns[h]
    /\ dns' = [dns EXCEPT ![h] = A] /\ since' = 0
    /\ UNCHANGED <<cache, lock, step, given, primed, nap, quiet>>

Older(age, most) == IF age < most THEN age + 1 ELSE age

Tick ==
    /\ lock # "nobody" => lookup.elapsed < MaxLookup
    /\ lookup' = IF lock = "nobody" THEN lookup ELSE [lookup EXCEPT !.elapsed = @ + 1]
    /\ hosts' = [h \in Hosts |-> [hosts[h] EXCEPT !.elapsed = Older(@, PositiveTTL)]]
    /\ since' = Older(since, Settling + 1)
    /\ quiet' = [h \in Hosts |-> Older(quiet[h], NegativeTTL)]
    /\ nap' = IF At(Boot, "nap") THEN Older(nap, Grace) ELSE nap
    /\ UNCHANGED <<snapshot, built, lock, step, given, primed, dns>>

-----------------------------------------------------------------------------
Serve(r) == Arrive(r) \/ Read(r) \/ HangUp(r)

Next ==
    \/ \E r \in Requests : Serve(r)
    \/ \E t \in Tasks : Acquire(t) \/ Record(t)
    \/ WakeUp \/ Move \/ Tick

\* The lock is fair to those who wait for it; the resolver answers or fails.
Fairness ==
    /\ \A r \in Requests : SF_vars(Read(r)) /\ SF_vars(Acquire(r))
    /\ WF_vars(\E t \in Tasks : Record(t))

Spec == Init /\ [][Next]_vars /\ Fairness

-----------------------------------------------------------------------------
(* Properties *)

\* Whoever is served from the cache is served what its attempts found: a refresh cut off
\* half-way leaves a snapshot that nobody is handed (ResolutionCache.built).
SnapshotCurrent == UpToDate => snapshot = Merged(hosts)

\* When the names have not changed for a positive TTL, and what the lookups take, those
\* trusted are exactly those configured and those named: no address that was let go, and
\* none missing that came back (refresh_locked; "a container that is down should stop
\* being trusted rather than keep a stale grant alive").
TrustFollowsTheNames ==
    [][\A r \in Requests :
         /\ At(r, "read") \/ At(r, "write") \/ At(r, "refresh")
         /\ step'[r] = "resolved"
         /\ since > Settling
         => given'[r] = Literals \cup UNION {dns[h] : h \in Hosts}]_vars

\* However many requests arrive, a name is looked up once per negative TTL for them,
\* unless the one that did was cut off (NEGATIVE_TTL; resolved: "only the first should
\* pay for the lookup").
LookupsSpaced ==
    [][\A r \in Requests, h \in Hosts :
         /\ lock' = r /\ quiet'[h] = 0
         /\ lookup'.place # 0 /\ Names[lookup'.place] = h /\ lookup' # lookup /\ lookup'.elapsed = 0
         => quiet[h] >= NegativeTTL]_vars

\* Whatever a client writes ahead of it, the address decided on is the last on the way
\* that is no trusted proxy's, where each proxy appends the one it saw
\* (resolve_client_ip: "what makes the prefix unforgeable").
LastStrangerIsTheClient ==
    \A r \in Requests : At(r, "resolved") =>
        \A route \in Routes, forged \in {<<>>} \cup {<<e>> : e \in Claims}, realIp \in Claims :
            LET hops == Len(route)
                line == forged \o SubSeq(route, 1, hops - 1)
                S == Strangers(route, given[r])
            IN  S # {} => ResolveClientIp(route[hops], <<line>>, realIp, given[r])
                              = Normal(route[Last(S)])

\* No request waits for ever behind the lock, whatever becomes of the one that holds it.
EveryRequestGoesOn ==
    \A r \in Requests : At(r, "read") ~> (At(r, "resolved") \/ At(r, "idle"))

=============================================================================
