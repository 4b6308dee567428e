-------------------------- MODULE ClientAddressProofs --------------------------
(***************************************************************************)
(* What holds of ClientAddress for any configuration: any names, times to  *)
(* live and number of requests, however lookups, expiries and hang-ups     *)
(* fall, and any way through any proxies.                                  *)
(***************************************************************************)
EXTENDS ClientAddress, SequenceTheorems, WellFoundedInduction, TLAPS

Lookup(i) == [place |-> i, asked |-> dns[Names[i]], elapsed |-> 0]

\* What is being looked up was due, and stays so until it has been.
LookedUpIsDue == lookup.place # 0 => ~IsFresh(hosts[Names[lookup.place]])

\* A name may have been looked up later than its attempt tells while it is looked up
\* again, or is still to be after prime cleared the attempts.
Excused(h) ==
    /\ lookup.place # 0
    /\ \/ Names[lookup.place] = h
       \/ /\ lock = Boot /\ hosts[h] = NoAttempt
          /\ \E i \in lookup.place..Len(Names) : Names[i] = h

Spaced ==
    \A h \in Hosts : quiet[h] < NegativeTTL /\ quiet[h] < hosts[h].elapsed => Excused(h)

Wrong(h) == hosts[h].addresses # dns[h]

\* How long ago the names last changed, if what is known of one is wrong: a name has
\* not changed since its lookup ended, but for the time that lookup took; and one that
\* this refresh has passed was looked up in it, or fresh when it was passed.
WrongNotForLong ==
    /\ lookup.place # 0 /\ lookup.asked # dns[Names[lookup.place]] => since <= lookup.elapsed
    /\ \A h \in Hosts : Wrong(h) /\ hosts[h].elapsed < PositiveTTL =>
          since <= hosts[h].elapsed + MaxLookup
    /\ \A i \in 1..Len(Names) : i < lookup.place /\ Wrong(Names[i]) =>
          since <= PositiveTTL + (lookup.place - 1) * MaxLookup + lookup.elapsed

IInv == TypeOK /\ LookedUpIsDue /\ SnapshotCurrent /\ Spaced /\ WrongNotForLong

-----------------------------------------------------------------------------
(* Numbers *)

LEMMA TimesGrows == ASSUME NEW a \in Nat, NEW b \in Nat, NEW m \in Nat, a <= b
                    PROVE  a * m \in Nat /\ a * m <= b * m
OBVIOUS

LEMMA TimesNext == ASSUME NEW a \in Nat, NEW m \in Nat PROVE (a + 1) * m = a * m + m
OBVIOUS

LEMMA LeastOf == ASSUME NEW S, S \subseteq Nat, S # {} PROVE \E i \in S : \A j \in S : i <= j
<1>1. PICK x \in S : \A y \in S : ~(<<y, x>> \in OpToRel(<, Nat))
  BY NatLessThanWellFounded, WFMin
<1>2. \A y \in S : y < x => <<y, x>> \in OpToRel(<, Nat)
  BY DEF OpToRel
<1>3. \A y \in S : ~(y < x)
  BY <1>1, <1>2
<1>4. x \in Nat /\ \A y \in S : y \in Nat
  OBVIOUS
<1> HIDE <1>1
<1> QED BY <1>3, <1>4

LEMMA LastOf ==
    ASSUME NEW n \in Nat, NEW S, S \subseteq 1..n, S # {}
    PROVE  Last(S) \in S /\ \A j \in S : j <= Last(S)
<1>0. \A i \in S : i \in Int /\ 1 <= i /\ i <= n
  OBVIOUS
<1> DEFINE T == {m \in Nat : \E i \in S : m = n - i}
<1>1. T # {}
  <2> PICK i \in S : TRUE
    OBVIOUS
  <2>1. n - i \in Nat
    BY <1>0
  <2> QED BY <2>1
<1>2. PICK k \in T : \A j \in T : k <= j
  BY <1>1, LeastOf
<1>3. PICK i \in S : k = n - i
  OBVIOUS
<1>4. ASSUME NEW j \in S PROVE j <= i
  <2>1. n - j \in T
    BY <1>0
  <2>2. k <= n - j
    BY <1>2, <2>1
  <2> QED BY <1>0, <1>3, <2>2
<1>5. \E l \in S : \A j \in S : j <= l
  BY <1>4
<1> HIDE DEF T
<1> QED BY <1>5 DEF Last

LEMMA LastIs ==
    ASSUME NEW n \in Nat, NEW S, S \subseteq 1..n, NEW i \in S, \A j \in S : j <= i
    PROVE  Last(S) = i
<1>1. Last(S) \in S /\ i <= Last(S)
  BY LastOf
<1>2. PICK l \in S : l = Last(S)
  BY <1>1
<1>3. l <= i /\ i <= l /\ l \in Int /\ i \in Int
  BY <1>1, <1>2
<1>4. l = i
  BY <1>3
<1> QED BY <1>2, <1>4

-----------------------------------------------------------------------------
(* The walk *)

\* The line that reaches the last proxy, place by place: what was forged, and the way.
LEMMA LineIs ==
    ASSUME NEW route \in Routes, NEW forged \in {<<>>} \cup {<<e>> : e \in Claims}
    PROVE  LET hops == Len(route)  k == Len(forged)
               line == forged \o SubSeq(route, 1, hops - 1) IN
           /\ hops \in Nat /\ 1 <= hops /\ k \in Nat /\ route \in Seq(Spellings)
           /\ DOMAIN line = 1..(k + hops - 1)
           /\ \A i \in 1..(hops - 1) : line[k + i] = route[i]
<1>0. forged \in Seq(Spellings \cup {Junk})
  <2>1. CASE forged = <<>>
    BY <2>1
  <2>2. ASSUME NEW e \in Claims, forged = <<e>> PROVE forged \in Seq(Spellings \cup {Junk})
    <3>1. e \in Spellings \cup {Junk}
      BY RoutesAssumption
    <3> HIDE DEF Spellings
    <3> QED BY <2>2, <3>1
  <2> QED BY <2>1, <2>2
<1>1. /\ route \in Seq(Spellings) /\ route # <<>>
      /\ forged \in Seq(Spellings \cup {Junk}) /\ Len(forged) \in Nat
  <2>1. route \in Seq(Spellings) /\ route # <<>>
    BY RoutesAssumption
  <2> HIDE DEF Spellings
  <2> QED BY <1>0, <2>1, LenProperties
<1>2. Len(route) \in Nat /\ 1 <= Len(route)
  BY <1>1
<1>3. /\ SubSeq(route, 1, Len(route) - 1) \in Seq(Spellings \cup {Junk})
      /\ Len(SubSeq(route, 1, Len(route) - 1)) = Len(route) - 1
      /\ \A i \in 1..(Len(route) - 1) : SubSeq(route, 1, Len(route) - 1)[i] = route[i]
  <2>1. /\ SubSeq(route, 1, Len(route) - 1) \in Seq(Spellings)
        /\ Len(SubSeq(route, 1, Len(route) - 1)) = Len(route) - 1
        /\ \A i \in 1..(Len(route) - 1) : SubSeq(route, 1, Len(route) - 1)[i] = route[i]
    <3>1. /\ 1 \in Int /\ Len(route) - 1 \in Int /\ Len(route) - 1 - 1 + 1 = Len(route) - 1
          /\ \A i \in 1..(Len(route) - 1) : route[i] \in Spellings /\ 1 + i - 1 = i
      BY <1>1, <1>2, ElementOfSeq
    <3>2. /\ SubSeq(route, 1, Len(route) - 1) \in Seq(Spellings)
          /\ Len(SubSeq(route, 1, Len(route) - 1)) =
                 IF 1 <= Len(route) - 1 THEN Len(route) - 1 - 1 + 1 ELSE 0
          /\ \A i \in 1..(Len(route) - 1 - 1 + 1) :
                 SubSeq(route, 1, Len(route) - 1)[i] = route[1 + i - 1]
      BY <3>1, SubSeqProperties
    <3>3. Len(SubSeq(route, 1, Len(route) - 1)) = Len(route) - 1
      <4>1. PICK n \in Nat : n = Len(route) - 1
        BY <1>2
      <4>2. (IF 1 <= n THEN n - 1 + 1 ELSE 0) = n
        OBVIOUS
      <4> QED BY <3>2, <4>1, <4>2
    <3> QED BY <3>1, <3>2, <3>3
  <2> QED BY <2>1, SeqMonotonic
<1>4. PICK sub \in Seq(Spellings \cup {Junk}) : sub = SubSeq(route, 1, Len(route) - 1)
  BY <1>3
<1>5. /\ Len(forged \o sub) = Len(forged) + Len(sub) /\ forged \o sub \in Seq(Spellings \cup {Junk})
      /\ \A i \in 1..Len(sub) : (forged \o sub)[Len(forged) + i] = sub[i]
  BY <1>1, ConcatProperties, LenProperties
<1>6. DOMAIN (forged \o sub) = 1..(Len(forged) + Len(route) - 1)
  BY <1>1, <1>2, <1>3, <1>4, <1>5, LenProperties
<1> QED BY <1>1, <1>2, <1>3, <1>4, <1>5, <1>6

LEMMA Walk ==
    ASSUME NEW route \in Routes, NEW forged \in {<<>>} \cup {<<e>> : e \in Claims},
           NEW realIp, NEW trusted, Strangers(route, trusted) # {}
    PROVE  ResolveClientIp(route[Len(route)], <<forged \o SubSeq(route, 1, Len(route) - 1)>>,
                           realIp, trusted)
           = Normal(route[Last(Strangers(route, trusted))])
<1> DEFINE hops == Len(route)
           k == Len(forged)
           line == forged \o SubSeq(route, 1, hops - 1)
           S == Strangers(route, trusted)
           L == Strangers(line, trusted)
<1>1. /\ hops \in Nat /\ 1 <= hops /\ k \in Nat /\ DOMAIN route = 1..hops
      /\ DOMAIN line = 1..(k + hops - 1)
      /\ \A i \in 1..(hops - 1) : line[k + i] = route[i]
      /\ \A i \in 1..hops : route[i] # Junk
  BY LineIs, RoutesAssumption
<1>2. S \subseteq 1..hops /\ L \subseteq 1..(k + hops - 1)
  BY <1>1 DEF Strangers
<1>3. Last(S) \in S /\ \A j \in S : j <= Last(S)
  BY <1>1, <1>2, LastOf
<1>4. CASE ~IsTrusted(Normal(route[hops]), trusted)
  <2>1. hops \in S /\ \A j \in S : j <= hops
    BY <1>1, <1>2, <1>4 DEF Strangers
  <2>2. Last(S) = hops
    BY <1>1, <1>2, <2>1, LastIs
  <2> QED BY <1>4, <2>2 DEF ResolveClientIp
<1>5. CASE IsTrusted(Normal(route[hops]), trusted)
  <2> PICK m : m = Last(S)
    OBVIOUS
  <2>1. m \in 1..(hops - 1) /\ route[m] # Junk /\ ~IsTrusted(Normal(route[m]), trusted)
    BY <1>1, <1>2, <1>3, <1>5 DEF Strangers
  <2>2. k + m \in 1..(k + hops - 1) /\ line[k + m] = route[m]
    BY <1>1, <2>1
  <2>3. k + m \in L
    BY <1>1, <2>1, <2>2 DEF Strangers
  <2>4. ASSUME NEW x \in L PROVE x <= k + m
    <3>1. x \in 1..(k + hops - 1) /\ line[x] # Junk /\ ~IsTrusted(Normal(line[x]), trusted)
      BY <1>1 DEF Strangers
    <3>2. CASE x <= k
      BY <1>1, <2>1, <3>1, <3>2
    <3>3. CASE k < x
      <4> PICK y : y = x - k
        OBVIOUS
      <4>1. y \in 1..(hops - 1) /\ x = k + y
        BY <1>1, <3>1, <3>3
      <4>2. line[x] = route[y]
        BY <1>1, <4>1
      <4>3. y \in S
        BY <1>1, <3>1, <4>1, <4>2 DEF Strangers
      <4>4. y <= m
        BY <1>3, <4>3
      <4> QED BY <1>1, <2>1, <4>1, <4>4
    <3> QED BY <1>1, <3>1, <3>2, <3>3
  <2>5. k + hops - 1 \in Nat
    BY <1>1
  <2>6. Last(L) = k + m
    BY <1>2, <2>3, <2>4, <2>5, LastIs
  <2>7. RightmostHop(line, trusted) = Normal(route[m])
    BY <2>2, <2>6 DEF RightmostHop
  <2>8. <<line>> # <<>> /\ <<line>>[1] = line /\ L # {}
    BY <2>3
  <2> HIDE DEF line, L
  <2>9. ResolveClientIp(route[hops], <<line>>, realIp, trusted) = RightmostHop(line, trusted)
    BY <1>5, <2>8 DEF ResolveClientIp, L
  <2> QED BY <2>7, <2>9 DEF line
<1> QED BY <1>4, <1>5

-----------------------------------------------------------------------------
(* The cache *)

LEMMA NamesAre ==
    /\ Len(Names) \in Nat /\ 1 <= Len(Names)
    /\ \A i \in 1..Len(Names) : Names[i] \in Hosts
    /\ \A h \in Hosts : \E i \in 1..Len(Names) : Names[i] = h
<1>1. DOMAIN Names = 1..Len(Names) /\ Len(Names) \in Nat /\ Len(Names) # 0
  BY NamesAssumption, LenProperties, EmptySeq
<1>2. \A h \in Hosts : \E i \in 1..Len(Names) : Names[i] = h
  BY <1>1 DEF Hosts
<1>3. \A i \in 1..Len(Names) : Names[i] \in Hosts
  BY <1>1 DEF Hosts
<1> QED BY <1>1, <1>2, <1>3

\* What cannot be told fresh is as old as the negative TTL at least; what is fresh, younger
\* than the positive one.
LEMMA FreshIs ==
    ASSUME NEW a \in Attempt
    PROVE  /\ IsFresh(a) => a.elapsed < PositiveTTL
           /\ ~IsFresh(a) => NegativeTTL <= a.elapsed
           /\ a.elapsed \in Nat /\ a.elapsed <= PositiveTTL /\ a.addresses \subseteq Spellings
BY TimesAssumption DEF IsFresh, Attempt

LEMMA NoAttemptIs == NoAttempt \in Attempt /\ ~IsFresh(NoAttempt)
BY TimesAssumption DEF NoAttempt, Attempt, IsFresh

LEMMA MergedIs == ASSUME NEW known \in [Hosts -> Attempt] PROVE Merged(known) \in SUBSET Spellings
<1>1. \A h \in Hosts : known[h].addresses \subseteq Spellings
  BY FreshIs
<1> QED BY <1>1, TrustAssumption DEF Merged

LEMMA NumbersAre ==
    /\ PositiveTTL \in Nat /\ MaxLookup \in Nat /\ NegativeTTL \in Nat
    /\ NegativeTTL <= PositiveTTL /\ Len(Names) \in Nat /\ 1 <= Len(Names)
    /\ Len(Names) * MaxLookup \in Nat
    /\ TypeOK => since \in Nat /\ since <= Settling + 1
<1>1. /\ PositiveTTL \in Nat /\ MaxLookup \in Nat /\ NegativeTTL \in Nat
      /\ NegativeTTL <= PositiveTTL /\ Len(Names) \in Nat /\ 1 <= Len(Names)
  BY NamesAre, TimesAssumption
<1>2. Len(Names) * MaxLookup \in Nat
  BY <1>1, TimesGrows
<1> QED BY <1>1, <1>2 DEF TypeOK, Settling

\* What a task that holds the lock knows of the names, about to go on from a place.
PassSpaced(t, known, from) ==
    \A h \in Hosts : quiet[h] < NegativeTTL /\ quiet[h] < known[h].elapsed =>
        t = Boot /\ known[h] = NoAttempt /\ \E i \in from..Len(Names) : Names[i] = h

PassRight(known, from) ==
    /\ \A h \in Hosts : known[h].addresses # dns[h] /\ known[h].elapsed < PositiveTTL =>
          since <= known[h].elapsed + MaxLookup
    /\ \A i \in 1..Len(Names) : i < from /\ known[Names[i]].addresses # dns[Names[i]] =>
          since <= PositiveTTL + (from - 1) * MaxLookup

\* refresh_locked goes on to the next name that is due, or ends.
LEMMA Passes ==
    ASSUME NEW t \in Tasks, NEW known \in [Hosts -> Attempt],
           NEW from \in 1..(Len(Names) + 1), Continue(t, known, from)
    PROVE  /\ hosts' = known
           /\ \/ \E i \in from..Len(Names) :
                    /\ ~IsFresh(known[Names[i]])
                    /\ \A j \in from..Len(Names) : j < i => IsFresh(known[Names[j]])
                    /\ lookup' = Lookup(i) /\ quiet' = [quiet EXCEPT ![Names[i]] = 0]
                    /\ lock' = t /\ Goto(t, "refresh")
                    /\ UNCHANGED <<snapshot, built, given, primed>>
              \/ /\ \A j \in from..Len(Names) : IsFresh(known[Names[j]])
                 /\ Finish(t, known) /\ UNCHANGED quiet
<1>0. from \in Nat /\ Len(Names) \in Nat
  BY NamesAre
<1>1. CASE Due(known, from) = {} /\ Finish(t, known) /\ UNCHANGED quiet
  BY <1>1 DEF Continue, Due
<1>2. ASSUME NEW i \in Due(known, from), \A j \in Due(known, from) : i <= j,
             Begin(i), lock' = t, Goto(t, "refresh"),
             UNCHANGED <<snapshot, built, given, primed>>
      PROVE  \E k \in from..Len(Names) :
                    /\ ~IsFresh(known[Names[k]])
                    /\ \A j \in from..Len(Names) : j < k => IsFresh(known[Names[j]])
                    /\ lookup' = Lookup(k) /\ quiet' = [quiet EXCEPT ![Names[k]] = 0]
                    /\ lock' = t /\ Goto(t, "refresh")
                    /\ UNCHANGED <<snapshot, built, given, primed>>
  <2>1. i \in from..Len(Names) /\ ~IsFresh(known[Names[i]])
    BY DEF Due
  <2>2. ASSUME NEW j \in from..Len(Names), j < i PROVE IsFresh(known[Names[j]])
    <3>1. ~(i <= j)
      BY <1>0, <2>1, <2>2
    <3> QED BY <1>2, <3>1 DEF Due
  <2> QED BY <1>2, <2>1, <2>2 DEF Begin, Lookup
<1> QED BY <1>1, <1>2 DEF Continue

\* What is known when no name is due is what the names are, if they have settled.
LEMMA PassedIsRight ==
    ASSUME TypeOK, NEW known \in [Hosts -> Attempt], NEW from \in 1..(Len(Names) + 1),
           PassRight(known, from), \A j \in from..Len(Names) : IsFresh(known[Names[j]]),
           since > Settling
    PROVE  Merged(known) = Literals \cup UNION {dns[h] : h \in Hosts}
<1>0. /\ since \in Nat /\ PositiveTTL \in Nat /\ MaxLookup \in Nat /\ Len(Names) \in Nat
      /\ Len(Names) * MaxLookup \in Nat /\ from \in Nat /\ 1 <= from /\ from - 1 <= Len(Names)
      /\ from - 1 \in Nat
  BY NamesAre, TimesAssumption, TimesGrows DEF TypeOK, Settling
<1>1. MaxLookup <= Len(Names) * MaxLookup /\ (from - 1) * MaxLookup <= Len(Names) * MaxLookup
  <2>1. 1 * MaxLookup <= Len(Names) * MaxLookup
    BY <1>0, NamesAre, TimesGrows
  <2> QED BY <1>0, <2>1, TimesGrows
<1>2. since > PositiveTTL + Len(Names) * MaxLookup
  BY DEF Settling
<1>3. ASSUME NEW h \in Hosts PROVE known[h].addresses = dns[h]
  <2>1. PICK i \in 1..Len(Names) : Names[i] = h
    BY NamesAre
  <2>2. CASE i < from
    <3>1. (from - 1) * MaxLookup \in Nat
      BY <1>0, TimesGrows
    <3>2. ~(since <= PositiveTTL + (from - 1) * MaxLookup)
      BY <1>0, <1>1, <1>2, <3>1
    <3> QED BY <2>1, <2>2, <3>2 DEF PassRight
  <2>3. CASE from <= i
    <3>1. i \in from..Len(Names)
      BY <1>0, <2>3
    <3>2. known[h].elapsed < PositiveTTL /\ known[h].elapsed \in Nat
      BY <2>1, <3>1, FreshIs
    <3>3. ~(since <= known[h].elapsed + MaxLookup)
      BY <1>0, <1>1, <1>2, <3>2
    <3> QED BY <3>2, <3>3 DEF PassRight
  <2> QED BY <1>0, <2>2, <2>3
<1> QED BY <1>3 DEF Merged

\* A task that holds the lock, or takes it, and goes on.
LEMMA ContinueStep ==
    ASSUME IInv, NEW t \in Tasks, NEW known \in [Hosts -> Attempt],
           NEW from \in 1..(Len(Names) + 1), Continue(t, known, from),
           lock \in {"nobody", t}, PassSpaced(t, known, from), PassRight(known, from),
           UNCHANGED <<nap, dns, since>>
    PROVE  IInv'
<1>0. TypeOK /\ hosts' = known /\ UNCHANGED <<nap, dns, since>>
  BY Passes DEF IInv
<1>1. /\ since \in Nat /\ PositiveTTL \in Nat /\ MaxLookup \in Nat /\ NegativeTTL \in Nat
      /\ from \in Nat /\ 1 <= from /\ Len(Names) \in Nat /\ "nobody" \notin Tasks /\ Boot \in Tasks
  BY <1>0, NumbersAre, TasksAssumption DEF Tasks
<1>2. \A u \in Tasks \ {t} : step[u] # "refresh"
  BY <1>0, <1>1 DEF TypeOK
<1>3. ASSUME NEW i \in from..Len(Names),
             ~IsFresh(known[Names[i]]),
             \A j \in from..Len(Names) : j < i => IsFresh(known[Names[j]]),
             lookup' = Lookup(i), quiet' = [quiet EXCEPT ![Names[i]] = 0],
             lock' = t, Goto(t, "refresh"), UNCHANGED <<snapshot, built, given, primed>>
      PROVE  IInv'
  <2>1. /\ i \in Nat /\ i \in 1..Len(Names) /\ from <= i /\ i - 1 \in Nat /\ Names[i] \in Hosts
        /\ lookup'.place = i /\ lookup'.asked = dns[Names[i]] /\ lookup'.elapsed = 0
    BY <1>1, <1>3, NamesAre DEF Lookup
  <2>2. /\ quiet'[Names[i]] = 0 /\ quiet' \in [Hosts -> 0..NegativeTTL]
        /\ \A h \in Hosts \ {Names[i]} : quiet'[h] = quiet[h]
    BY <1>0, <1>1, <1>3, <2>1 DEF TypeOK
  <2>3. TypeOK'
    <3>1. lookup' \in [place : 0..Len(Names), asked : SUBSET Spellings, elapsed : 0..MaxLookup]
      <4>1. dns[Names[i]] \in Answers
        BY <1>0, <2>1 DEF TypeOK
      <4>2. dns[Names[i]] \in SUBSET Spellings
        BY <4>1, AnswersAssumption DEF Spellings
      <4> QED BY <1>1, <1>3, <2>1, <4>2 DEF Lookup
    <3>2. /\ step' \in [Tasks -> {"idle", "read", "write", "refresh", "resolved", "nap"}]
          /\ \A u \in Tasks : step'[u] = "refresh" <=> lock' = u
      BY <1>0, <1>2, <1>3 DEF TypeOK, Goto
    <3>3. lookup'.place # 0 /\ lock' # "nobody" /\ lock' \in Tasks \cup {"nobody"}
      BY <1>1, <1>3, <2>1
    <3> QED BY <1>0, <1>3, <2>2, <3>1, <3>2, <3>3 DEF TypeOK
  <2>4. LookedUpIsDue'
    BY <1>0, <1>3, <2>1 DEF LookedUpIsDue
  <2>5. SnapshotCurrent'
    BY <1>0, <1>3, <2>1 DEF SnapshotCurrent, UpToDate
  <2>6. Spaced'
    <3> SUFFICES ASSUME NEW h \in Hosts, quiet'[h] < NegativeTTL, quiet'[h] < known[h].elapsed
                 PROVE  Excused(h)'
      BY <1>0 DEF Spaced
    <3>1. CASE h = Names[i]
      BY <1>1, <2>1, <3>1 DEF Excused
    <3>2. CASE h # Names[i]
      <4>1. PICK j \in from..Len(Names) : t = Boot /\ known[h] = NoAttempt /\ Names[j] = h
        BY <2>2, <3>2 DEF PassSpaced
      <4>2. ~(j < i)
        BY <1>3, <4>1, NoAttemptIs
      <4>3. j \in i..Len(Names)
        BY <1>1, <2>1, <4>2
      <4> QED BY <1>0, <1>3, <2>1, <4>1, <4>3 DEF Excused
    <3> QED BY <3>1, <3>2
  <2>7. WrongNotForLong'
    <3>1. lookup'.asked = dns'[Names[lookup'.place]]
      BY <1>0, <2>1
    <3>2. \A h \in Hosts : Wrong(h)' /\ hosts'[h].elapsed < PositiveTTL =>
             since' <= hosts'[h].elapsed + MaxLookup
      BY <1>0 DEF PassRight, Wrong
    <3>3. ASSUME NEW j \in 1..Len(Names), j < i, known[Names[j]].addresses # dns[Names[j]]
          PROVE  since <= PositiveTTL + (i - 1) * MaxLookup + 0
      <4>1. (i - 1) * MaxLookup \in Nat
        BY <1>1, <2>1, TimesGrows
      <4>2. CASE j < from
        <5>1. since <= PositiveTTL + (from - 1) * MaxLookup
          BY <3>3, <4>2 DEF PassRight
        <5>2. from - 1 \in Nat /\ from - 1 <= i - 1
          BY <1>1, <2>1
        <5>3. (from - 1) * MaxLookup \in Nat /\ (from - 1) * MaxLookup <= (i - 1) * MaxLookup
          BY <1>1, <2>1, <5>2, TimesGrows
        <5> QED BY <1>1, <4>1, <5>1, <5>3
      <4>3. CASE from <= j
        <5>1. j \in from..Len(Names) /\ j \in 1..Len(Names)
          BY <1>1, <4>3
        <5>2. IsFresh(known[Names[j]])
          BY <1>3, <3>3, <5>1
        <5>3. known[Names[j]].elapsed < PositiveTTL /\ known[Names[j]].elapsed \in Nat
          BY <5>1, <5>2, NamesAre, FreshIs
        <5>4. since <= known[Names[j]].elapsed + MaxLookup
          BY <3>3, <5>1, <5>3, NamesAre DEF PassRight
        <5>5. 1 <= i - 1
          BY <2>1, <3>3
        <5>6. MaxLookup <= (i - 1) * MaxLookup
          <6>1. 1 * MaxLookup <= (i - 1) * MaxLookup
            BY <1>1, <2>1, <5>5, TimesGrows
          <6> QED BY <1>1, <6>1
        <5>7. PICK k \in Nat, e \in Nat :
                 k = (i - 1) * MaxLookup /\ e = known[Names[j]].elapsed
          BY <4>1, <5>3
        <5>8. e < PositiveTTL /\ since <= e + MaxLookup /\ MaxLookup <= k
          BY <5>3, <5>4, <5>6, <5>7
        <5>9. since <= PositiveTTL + k + 0
          BY <1>1, <5>8
        <5> QED BY <5>7, <5>9
      <4> QED BY <1>1, <4>2, <4>3
    <3>4. \A j \in 1..Len(Names) : j < lookup'.place /\ Wrong(Names[j])' =>
             since' <= PositiveTTL + (lookup'.place - 1) * MaxLookup + lookup'.elapsed
      BY <1>0, <2>1, <3>3 DEF Wrong
    <3> QED BY <3>1, <3>2, <3>4 DEF WrongNotForLong
  <2> QED BY <2>3, <2>4, <2>5, <2>6, <2>7 DEF IInv
<1>4. CASE /\ \A j \in from..Len(Names) : IsFresh(known[Names[j]])
           /\ Finish(t, known) /\ UNCHANGED quiet
  <2>1. /\ snapshot' = Merged(known) /\ built' = TRUE /\ lock' = "nobody" /\ lookup' = NoLookup
        /\ quiet' = quiet /\ snapshot' \in SUBSET Spellings
    BY <1>4, MergedIs DEF Finish
  <2>2. lookup'.place = 0
    BY <2>1 DEF NoLookup
  <2>3. /\ given' \in [Requests -> SUBSET Spellings] /\ primed' \in BOOLEAN
        /\ \E s \in {"nap", "idle", "resolved"} : step' = [step EXCEPT ![t] = s]
    <3>1. CASE t = Boot
      <4>1. Primed(known)
        BY <1>4, <3>1 DEF Finish
      <4>2. given' = given /\ primed' = TRUE
        BY <4>1 DEF Primed
      <4> QED BY <1>0, <3>1, <4>1, <4>2 DEF Primed, Goto, TypeOK
    <3>2. CASE t # Boot
      <4>1. Hand(t, snapshot') /\ primed' = primed
        BY <1>4, <3>2 DEF Finish
      <4>2. given' = [given EXCEPT ![t] = snapshot'] /\ step' = [step EXCEPT ![t] = "resolved"]
        BY <4>1 DEF Hand, Goto
      <4> QED BY <1>0, <2>1, <4>1, <4>2 DEF TypeOK
    <3> QED BY <3>1, <3>2
  <2>4. TypeOK'
    <3>1. lookup' \in [place : 0..Len(Names), asked : SUBSET Spellings, elapsed : 0..MaxLookup]
      BY <1>1, <2>1 DEF NoLookup
    <3>2. /\ step' \in [Tasks -> {"idle", "read", "write", "refresh", "resolved", "nap"}]
          /\ \A u \in Tasks : step'[u] = "refresh" <=> lock' = u
      BY <1>0, <1>1, <1>2, <2>1, <2>3 DEF TypeOK
    <3> QED BY <1>0, <2>1, <2>2, <2>3, <3>1, <3>2 DEF TypeOK
  <2>5. LookedUpIsDue' /\ SnapshotCurrent'
    BY <1>0, <2>1, <2>2 DEF LookedUpIsDue, SnapshotCurrent, Merged
  <2>6. Spaced'
    <3> SUFFICES ASSUME NEW h \in Hosts, quiet[h] < NegativeTTL, quiet[h] < known[h].elapsed
                 PROVE  FALSE
      BY <1>0, <2>1 DEF Spaced
    <3>1. PICK j \in from..Len(Names) : known[h] = NoAttempt /\ Names[j] = h
      BY DEF PassSpaced
    <3> QED BY <1>4, <3>1, NoAttemptIs
  <2>7. WrongNotForLong'
    <3>1. \A j \in 1..Len(Names) : ~(j < lookup'.place)
      BY <1>1, <2>2
    <3>2. \A h \in Hosts : Wrong(h)' /\ hosts'[h].elapsed < PositiveTTL =>
             since' <= hosts'[h].elapsed + MaxLookup
      BY <1>0 DEF PassRight, Wrong
    <3> QED BY <2>2, <3>1, <3>2 DEF WrongNotForLong
  <2> QED BY <2>4, <2>5, <2>6, <2>7 DEF IInv
<1> QED BY <1>3, <1>4, Passes

LEMMA AcquireStep ==
    ASSUME IInv, NEW t \in Tasks, Acquire(t)
    PROVE  \E known \in [Hosts -> Attempt] :
              /\ Continue(t, known, 1) /\ PassSpaced(t, known, 1) /\ PassRight(known, 1)
              /\ lock = "nobody" /\ UNCHANGED <<nap, dns, since>>
<1>0. TypeOK /\ lock = "nobody" /\ lookup.place = 0
  BY DEF IInv, Acquire, TypeOK
<1>1. PICK known : known = IF t = Boot THEN [h \in Hosts |-> NoAttempt] ELSE hosts
  OBVIOUS
<1>2. known \in [Hosts -> Attempt] /\ Continue(t, known, 1) /\ UNCHANGED <<nap, dns, since>>
  BY <1>0, <1>1, NoAttemptIs DEF TypeOK, Acquire
<1>3. PassSpaced(t, known, 1)
  <2>1. CASE t = Boot
    BY <1>1, <2>1, NamesAre DEF PassSpaced
  <2>2. CASE t # Boot
    BY <1>0, <1>1, <2>2 DEF IInv, Spaced, Excused, PassSpaced
  <2> QED BY <2>1, <2>2
<1>4. \A h \in Hosts : known[h].addresses # dns[h] /\ known[h].elapsed < PositiveTTL =>
          since <= known[h].elapsed + MaxLookup
  <2>1. CASE t = Boot
    <3>1. \A h \in Hosts : known[h].elapsed = PositiveTTL
      BY <1>1, <2>1 DEF NoAttempt
    <3> QED BY <3>1, NumbersAre
  <2>2. CASE t # Boot
    BY <1>1, <2>2 DEF IInv, WrongNotForLong, Wrong
  <2> QED BY <2>1, <2>2
<1>5. PassRight(known, 1)
  <2>1. \A i \in 1..Len(Names) : ~(i < 1)
    BY NumbersAre
  <2> QED BY <1>4, <2>1 DEF PassRight
<1> QED BY <1>0, <1>2, <1>3, <1>5

LEMMA RecordStep ==
    ASSUME IInv, NEW t \in Tasks, Record(t)
    PROVE  \E known \in [Hosts -> Attempt] :
              \E from \in 1..(Len(Names) + 1) :
                 /\ Continue(t, known, from) /\ PassSpaced(t, known, from) /\ PassRight(known, from)
                 /\ lock = t /\ UNCHANGED <<nap, dns, since>>
<1>0. /\ TypeOK /\ lock = t /\ since \in Nat /\ UNCHANGED <<nap, dns, since>>
      /\ PositiveTTL \in Nat /\ MaxLookup \in Nat /\ NegativeTTL \in Nat /\ Len(Names) \in Nat
  BY NumbersAre DEF IInv, Record, At, TypeOK
<1>1. PICK p : p = lookup.place
  OBVIOUS
<1>2. /\ p \in 1..Len(Names) /\ p \in Nat /\ p - 1 \in Nat /\ p + 1 \in 1..(Len(Names) + 1)
      /\ lookup.elapsed \in Nat /\ lookup.elapsed <= MaxLookup
      /\ lookup.asked \in SUBSET Spellings
  BY <1>0, <1>1, TasksAssumption DEF TypeOK
<1>3. PICK n \in Hosts : n = Names[p]
  BY <1>2, NamesAre
<1>4. PICK found \in {lookup.asked, dns[n]} : Continue(t, Recorded(n, found), p + 1)
  BY <1>1, <1>3 DEF Record
<1>5. found \in SUBSET Spellings
  <2>1. dns[n] \in Answers
    BY <1>0 DEF TypeOK
  <2>2. dns[n] \in SUBSET Spellings
    BY <2>1, AnswersAssumption DEF Spellings
  <2> QED BY <1>2, <1>4, <2>2
<1>6. PICK known : known = Recorded(n, found)
  OBVIOUS
<1>7. /\ known \in [Hosts -> Attempt] /\ known[n].addresses = found /\ known[n].elapsed = 0
      /\ \A h \in Hosts \ {n} : known[h] = hosts[h]
  <2>1. [addresses |-> found, elapsed |-> 0] \in Attempt
    BY <1>0, <1>5 DEF Attempt
  <2> QED BY <1>0, <1>6, <2>1 DEF TypeOK, Recorded
<1>8. found # dns[n] => since <= MaxLookup
  <2>1. found # dns[n] => since <= lookup.elapsed
    BY <1>1, <1>2, <1>3, <1>4 DEF IInv, WrongNotForLong
  <2> QED BY <1>0, <1>2, <2>1
<1>9. PassSpaced(t, known, p + 1)
  <2> SUFFICES ASSUME NEW h \in Hosts, quiet[h] < NegativeTTL, quiet[h] < known[h].elapsed
               PROVE  t = Boot /\ known[h] = NoAttempt /\ \E i \in (p + 1)..Len(Names) : Names[i] = h
    BY DEF PassSpaced
  <2>1. h # n /\ known[h] = hosts[h]
    <3>1. quiet[h] \in 0..NegativeTTL
      BY <1>0 DEF TypeOK
    <3>2. ~(quiet[h] < 0)
      BY <1>0, <3>1
    <3> QED BY <1>7, <3>2
  <2>2. Excused(h)
    BY <2>1 DEF IInv, Spaced
  <2>3. PICK i \in p..Len(Names) : Names[i] = h
    BY <1>1, <1>3, <2>1, <2>2 DEF Excused
  <2>4. i # p
    BY <1>3, <2>1, <2>3
  <2>5. i \in (p + 1)..Len(Names)
    BY <1>0, <1>2, <2>4
  <2> QED BY <1>0, <1>1, <1>3, <2>1, <2>2, <2>3, <2>5 DEF Excused
<1>10. PassRight(known, p + 1)
  <2>1. ASSUME NEW h \in Hosts, known[h].addresses # dns[h], known[h].elapsed < PositiveTTL
        PROVE  since <= known[h].elapsed + MaxLookup
    <3>1. CASE h = n
      BY <1>0, <1>7, <1>8, <2>1, <3>1
    <3>2. CASE h # n
      BY <1>7, <2>1, <3>2 DEF IInv, WrongNotForLong, Wrong
    <3> QED BY <3>1, <3>2
  <2>2. ASSUME NEW i \in 1..Len(Names), i < p + 1, known[Names[i]].addresses # dns[Names[i]]
        PROVE  since <= PositiveTTL + p * MaxLookup
    <3>1. /\ p * MaxLookup \in Nat /\ (p - 1) * MaxLookup \in Nat
          /\ p * MaxLookup = (p - 1) * MaxLookup + MaxLookup
      <4>1. (p - 1 + 1) * MaxLookup = (p - 1) * MaxLookup + MaxLookup
        BY <1>0, <1>2, TimesNext
      <4>2. p - 1 + 1 = p
        BY <1>2
      <4> QED BY <1>0, <1>2, <4>1, <4>2, TimesGrows
    <3>2. CASE Names[i] = n
      BY <1>0, <1>7, <1>8, <2>2, <3>1, <3>2
    <3>3. CASE Names[i] # n
      <4>1. i < p /\ Names[i] \in Hosts
        BY <1>2, <1>3, <2>2, <3>3, NamesAre
      <4>2. Wrong(Names[i])
        BY <1>7, <2>2, <3>3, <4>1 DEF Wrong
      <4>3. since <= PositiveTTL + (p - 1) * MaxLookup + lookup.elapsed
        BY <1>1, <4>1, <4>2 DEF IInv, WrongNotForLong
      <4> QED BY <1>0, <1>2, <3>1, <4>3
    <3> QED BY <3>2, <3>3
  <2>3. PICK q \in 1..(Len(Names) + 1) : q = p + 1 /\ q - 1 = p
    BY <1>2
  <2>4. PassRight(known, q)
    BY <2>1, <2>2, <2>3 DEF PassRight
  <2> QED BY <2>3, <2>4
<1> QED BY <1>0, <1>2, <1>4, <1>6, <1>7, <1>9, <1>10

LEMMA InitInvariant == Init => IInv
<1> SUFFICES ASSUME Init PROVE IInv
  OBVIOUS
<1>1. /\ "nobody" \notin Tasks /\ NoLookup.place = 0 /\ NoAttempt \in Attempt
      /\ NoLookup \in [place : 0..Len(Names), asked : SUBSET Spellings, elapsed : 0..MaxLookup]
      /\ NoAttempt.elapsed = PositiveTTL /\ \A h \in Hosts : hosts[h] = NoAttempt
  BY TasksAssumption, NumbersAre, NoAttemptIs DEF NoLookup, NoAttempt, Init
<1>2. Settling + 1 \in Nat
  BY NumbersAre DEF Settling
<1>3. TypeOK
  <2>1. hosts \in [Hosts -> Attempt] /\ quiet \in [Hosts -> 0..NegativeTTL]
    BY <1>1, NumbersAre DEF Init
  <2>2. /\ step \in [Tasks -> {"idle", "read", "write", "refresh", "resolved", "nap"}]
        /\ \A t \in Tasks : step[t] = "refresh" <=> lock = t
    BY <1>1 DEF Init
  <2>3. nap \in 0..Grace /\ since \in 0..(Settling + 1)
    BY <1>2, TimesAssumption DEF Init
  <2> QED BY <1>1, <2>1, <2>2, <2>3 DEF Init, TypeOK
<1>4. LookedUpIsDue /\ SnapshotCurrent
  BY <1>1 DEF Init, LookedUpIsDue, SnapshotCurrent, UpToDate
<1>5. Spaced
  <2>1. \A h \in Hosts : quiet[h] = NegativeTTL
    BY DEF Init
  <2> QED BY <2>1, NumbersAre DEF Spaced
<1>6. WrongNotForLong
  <2>1. \A i \in 1..Len(Names) : ~(i < lookup.place)
    BY <1>1, NumbersAre DEF Init
  <2>2. \A h \in Hosts : ~(hosts[h].elapsed < PositiveTTL)
    BY <1>1, NumbersAre
  <2> QED BY <1>1, <2>1, <2>2 DEF Init, WrongNotForLong
<1> QED BY <1>3, <1>4, <1>5, <1>6 DEF IInv

\* Steps that touch neither the cache nor the names.
LEMMA AsideStep ==
    ASSUME IInv, UNCHANGED <<cache, lock, dns, past>>, TypeOK'
    PROVE  IInv'
<1>1. LookedUpIsDue' /\ SnapshotCurrent'
  BY DEF IInv, LookedUpIsDue, SnapshotCurrent, UpToDate, Merged, cache
<1>2. Spaced'
  BY DEF IInv, Spaced, Excused, cache, past
<1>3. WrongNotForLong'
  BY DEF IInv, WrongNotForLong, Wrong, cache, past
<1> QED BY <1>1, <1>2, <1>3 DEF IInv

LEMMA RequestsStep ==
    ASSUME IInv, NEW r \in Requests, Arrive(r) \/ Read(r)
    PROVE  IInv'
<1>0. TypeOK /\ r \in Tasks /\ step[r] # "refresh"
  BY DEF IInv, Arrive, Read, At, Tasks
<1>1. UNCHANGED <<cache, lock, primed, nap, dns, past>>
  BY DEF Arrive, Read
<1>2. \E s \in {"read", "resolved", "write"} : step' = [step EXCEPT ![r] = s]
  BY DEF Arrive, Read, Hand, Goto
<1>3. given' \in [Requests -> SUBSET Spellings]
  BY <1>0 DEF Arrive, Read, Hand, TypeOK
<1>4. /\ step' \in [Tasks -> {"idle", "read", "write", "refresh", "resolved", "nap"}]
      /\ \A t \in Tasks : step'[t] = "refresh" <=> lock' = t
  BY <1>0, <1>1, <1>2 DEF TypeOK
<1>5. TypeOK'
  BY <1>0, <1>1, <1>3, <1>4 DEF TypeOK, cache, past
<1> QED BY <1>1, <1>5, AsideStep

LEMMA WakeUpStep ==
    ASSUME IInv, WakeUp
    PROVE  IInv'
<1>0. TypeOK /\ Boot \in Tasks /\ step[Boot] # "refresh"
  BY DEF IInv, WakeUp, At, Tasks
<1>1. UNCHANGED <<cache, lock, given, primed, dns, past>> /\ nap' = 0
      /\ step' = [step EXCEPT ![Boot] = "write"]
  BY DEF WakeUp, Goto
<1>2. /\ step' \in [Tasks -> {"idle", "read", "write", "refresh", "resolved", "nap"}]
      /\ \A t \in Tasks : step'[t] = "refresh" <=> lock' = t
  BY <1>0, <1>1 DEF TypeOK
<1>3. nap' \in 0..Grace
  BY <1>1, TimesAssumption
<1>4. TypeOK'
  BY <1>0, <1>1, <1>2, <1>3 DEF TypeOK, cache, past
<1> QED BY <1>1, <1>4, AsideStep

LEMMA HangUpStep ==
    ASSUME IInv, NEW r \in Requests, HangUp(r)
    PROVE  IInv'
<1>0. /\ TypeOK /\ r \in Tasks /\ r # Boot /\ "nobody" \notin Tasks
      /\ UNCHANGED <<hosts, snapshot, built, given, primed, nap, dns, since>>
      /\ step' = [step EXCEPT ![r] = "idle"]
  BY TasksAssumption DEF IInv, HangUp, Goto, Tasks
<1>1. CASE lock # r /\ UNCHANGED <<lock, lookup, quiet>>
  <2>1. /\ step' \in [Tasks -> {"idle", "read", "write", "refresh", "resolved", "nap"}]
        /\ \A t \in Tasks : step'[t] = "refresh" <=> lock' = t
    BY <1>0, <1>1 DEF TypeOK
  <2>2. TypeOK'
    BY <1>0, <1>1, <2>1 DEF TypeOK
  <2> QED BY <1>0, <1>1, <2>2, AsideStep DEF cache, past
<1>2. CASE /\ lock = r /\ lock' = "nobody" /\ lookup' = NoLookup
           /\ quiet' = [quiet EXCEPT ![Names[lookup.place]] = NegativeTTL]
  <2>1. PICK p : p = lookup.place
    OBVIOUS
  <2>2. p \in 1..Len(Names) /\ p \in Nat
    BY <1>0, <1>2, <2>1, NumbersAre DEF TypeOK
  <2>3. PICK n \in Hosts : n = Names[p]
    BY <2>2, NamesAre
  <2>4. /\ quiet' \in [Hosts -> 0..NegativeTTL] /\ quiet'[n] = NegativeTTL
        /\ \A h \in Hosts \ {n} : quiet'[h] = quiet[h]
    BY <1>0, <1>2, <2>1, <2>3, NumbersAre DEF TypeOK
  <2>5. /\ lookup'.place = 0
        /\ lookup' \in [place : 0..Len(Names), asked : SUBSET Spellings, elapsed : 0..MaxLookup]
    BY <1>2, NumbersAre DEF NoLookup
  <2>6. /\ step' \in [Tasks -> {"idle", "read", "write", "refresh", "resolved", "nap"}]
        /\ \A t \in Tasks : step'[t] = "refresh" <=> lock' = t
    BY <1>0, <1>2 DEF TypeOK
  <2>7. TypeOK'
    BY <1>0, <1>2, <2>4, <2>5, <2>6 DEF TypeOK
  <2>8. LookedUpIsDue' /\ SnapshotCurrent'
    BY <1>0, <2>5 DEF IInv, LookedUpIsDue, SnapshotCurrent, UpToDate, Merged
  <2>9. Spaced'
    <3> SUFFICES ASSUME NEW h \in Hosts, quiet'[h] < NegativeTTL, quiet'[h] < hosts[h].elapsed
                 PROVE  FALSE
      BY <1>0 DEF Spaced
    <3>1. h # n
      BY <2>4, NumbersAre
    <3>2. Excused(h)
      BY <2>4, <3>1 DEF IInv, Spaced
    <3> QED BY <1>0, <1>2, <2>1, <2>3, <3>1, <3>2 DEF Excused
  <2>10. WrongNotForLong'
    <3>1. \A i \in 1..Len(Names) : ~(i < lookup'.place)
      BY <2>5, NumbersAre
    <3>2. \A h \in Hosts : Wrong(h)' /\ hosts'[h].elapsed < PositiveTTL =>
             since' <= hosts'[h].elapsed + MaxLookup
      BY <1>0 DEF IInv, WrongNotForLong, Wrong
    <3> QED BY <2>5, <3>1, <3>2 DEF WrongNotForLong
  <2> QED BY <2>7, <2>8, <2>9, <2>10 DEF IInv
<1> QED BY <1>1, <1>2 DEF HangUp

LEMMA MoveStep ==
    ASSUME IInv, Move
    PROVE  IInv'
<1>0. /\ TypeOK /\ since' = 0
      /\ UNCHANGED <<cache, lock, step, given, primed, nap, quiet>>
  BY DEF IInv, Move
<1>1. dns' \in [Hosts -> Answers] /\ since' \in 0..(Settling + 1)
  BY <1>0, NumbersAre DEF TypeOK, Move, Settling
<1>2. TypeOK'
  BY <1>0, <1>1 DEF TypeOK, cache
<1>3. LookedUpIsDue' /\ SnapshotCurrent'
  BY <1>0 DEF IInv, LookedUpIsDue, SnapshotCurrent, UpToDate, Merged, cache
<1>4. Spaced'
  BY <1>0 DEF IInv, Spaced, Excused, cache
<1>5. WrongNotForLong'
  <2>1. lookup' = lookup /\ hosts' = hosts /\ lookup.elapsed \in Nat /\ lookup.place \in Nat
    BY <1>0, NumbersAre DEF TypeOK, cache
  <2>2. \A h \in Hosts : 0 <= hosts[h].elapsed + MaxLookup
    BY <1>0, FreshIs, NumbersAre DEF TypeOK
  <2>3. ASSUME NEW i \in 1..Len(Names), i < lookup.place
        PROVE  0 <= PositiveTTL + (lookup.place - 1) * MaxLookup + lookup.elapsed
    <3>1. (lookup.place - 1) \in Nat
      BY <2>1, <2>3
    <3>2. (lookup.place - 1) * MaxLookup \in Nat
      BY <3>1, NumbersAre, TimesGrows
    <3> QED BY SMTT(90), <2>1, <3>2, NumbersAre
  <2> QED BY <1>0, <2>1, <2>2, <2>3 DEF WrongNotForLong
<1> QED BY <1>2, <1>3, <1>4, <1>5 DEF IInv

LEMMA OlderIs ==
    ASSUME NEW most \in Nat, NEW age \in 0..most
    PROVE  /\ Older(age, most) \in 0..most /\ age <= Older(age, most)
           /\ Older(age, most) <= age + 1
           /\ Older(age, most) < most => Older(age, most) = age + 1
BY DEF Older

LEMMA TickStep ==
    ASSUME IInv, Tick
    PROVE  IInv'
<1>0. /\ TypeOK /\ UNCHANGED <<snapshot, built, lock, step, given, primed, dns>>
      /\ PositiveTTL \in Nat /\ MaxLookup \in Nat /\ NegativeTTL \in Nat /\ Len(Names) \in Nat
      /\ Settling + 1 \in Nat /\ Grace \in Nat
  BY NumbersAre, TimesAssumption DEF IInv, Tick, Settling
<1>1. ASSUME NEW h \in Hosts
      PROVE  /\ hosts[h] \in Attempt /\ hosts'[h] \in Attempt
             /\ hosts'[h].addresses = hosts[h].addresses
             /\ hosts'[h].elapsed = Older(hosts[h].elapsed, PositiveTTL)
             /\ hosts[h].elapsed \in 0..PositiveTTL
  <2>1. hosts'[h] = [hosts[h] EXCEPT !.elapsed = Older(@, PositiveTTL)]
    BY DEF Tick
  <2>2. hosts[h] \in Attempt /\ hosts[h].elapsed \in 0..PositiveTTL
    BY <1>0 DEF TypeOK, Attempt
  <2>3. Older(hosts[h].elapsed, PositiveTTL) \in 0..PositiveTTL
    BY <1>0, <2>2, OlderIs
  <2> QED BY <2>1, <2>2, <2>3 DEF Attempt
<1>2. /\ since' = Older(since, Settling + 1) /\ since \in 0..(Settling + 1)
      /\ since' \in 0..(Settling + 1) /\ since' <= since + 1
  BY <1>0, OlderIs DEF TypeOK, Tick
<1>3. ASSUME NEW h \in Hosts
      PROVE  /\ quiet'[h] = Older(quiet[h], NegativeTTL) /\ quiet[h] \in 0..NegativeTTL
             /\ quiet'[h] \in 0..NegativeTTL
  BY <1>0, OlderIs DEF TypeOK, Tick
<1>4. /\ lookup'.place = lookup.place /\ lookup'.asked = lookup.asked
      /\ lookup.place # 0 => lookup'.elapsed = lookup.elapsed + 1
      /\ lookup.place \in Nat /\ lookup.elapsed \in Nat
      /\ lookup' \in [place : 0..Len(Names), asked : SUBSET Spellings, elapsed : 0..MaxLookup]
  <2>1. lookup \in [place : 0..Len(Names), asked : SUBSET Spellings, elapsed : 0..MaxLookup]
    BY <1>0 DEF TypeOK
  <2>2. CASE lock = "nobody"
    <3>1. lookup' = lookup /\ lookup.place = 0
      BY <1>0, <2>2 DEF Tick, TypeOK
    <3> QED BY <1>0, <2>1, <3>1
  <2>3. CASE lock # "nobody"
    <3>1. lookup.elapsed < MaxLookup /\ lookup' = [lookup EXCEPT !.elapsed = @ + 1]
      BY <2>3 DEF Tick
    <3>2. lookup.elapsed + 1 \in 0..MaxLookup
      BY <1>0, <2>1, <3>1
    <3> QED BY <1>0, <2>1, <3>1, <3>2
  <2> QED BY <2>2, <2>3
<1>5. TypeOK'
  <2>1. hosts' \in [Hosts -> Attempt] /\ quiet' \in [Hosts -> 0..NegativeTTL]
    BY <1>1, <1>3 DEF Tick
  <2>2. nap' \in 0..Grace
    BY <1>0, OlderIs DEF Tick, TypeOK
  <2>3. lookup'.place # 0 <=> lock' # "nobody"
    BY <1>0, <1>4 DEF TypeOK
  <2> QED BY <1>0, <1>2, <1>4, <2>1, <2>2, <2>3 DEF TypeOK
<1>6. ASSUME NEW h \in Hosts
      PROVE  /\ hosts[h].elapsed <= hosts'[h].elapsed /\ hosts'[h].elapsed <= hosts[h].elapsed + 1
             /\ hosts[h].elapsed \in Nat /\ hosts'[h].elapsed \in Nat
             /\ hosts'[h].elapsed < PositiveTTL => hosts'[h].elapsed = hosts[h].elapsed + 1
             /\ quiet[h] \in Nat
             /\ quiet'[h] < NegativeTTL => quiet'[h] = quiet[h] + 1
  <2>1. PICK a \in 0..PositiveTTL : a = hosts[h].elapsed
    BY <1>1
  <2>2. PICK b \in 0..PositiveTTL :
           /\ b = Older(a, PositiveTTL) /\ a <= b /\ b <= a + 1
           /\ b < PositiveTTL => b = a + 1
    BY <1>0, OlderIs
  <2>3. PICK q \in 0..NegativeTTL : q = quiet[h]
    BY <1>3
  <2>4. Older(q, NegativeTTL) < NegativeTTL => Older(q, NegativeTTL) = q + 1
    BY <1>0, OlderIs
  <2>5. hosts'[h].elapsed = b
    BY <1>1, <2>1, <2>2
  <2>6. quiet'[h] = Older(q, NegativeTTL)
    BY <1>3, <2>3
  <2>7. a \in Nat /\ b \in Nat /\ q \in Nat
    BY <1>0
  <2> QED BY <2>1, <2>2, <2>3, <2>4, <2>5, <2>6, <2>7
<1>7. \A h \in Hosts : IsFresh(hosts'[h]) => IsFresh(hosts[h])
  <2> SUFFICES ASSUME NEW h \in Hosts, IsFresh(hosts'[h]) PROVE IsFresh(hosts[h])
    OBVIOUS
  <2>1. PICK ttl \in {PositiveTTL, NegativeTTL} :
           ttl = (IF hosts[h].addresses # {} THEN PositiveTTL ELSE NegativeTTL)
    OBVIOUS
  <2>2. hosts'[h].elapsed < ttl
    BY <1>1, <2>1 DEF IsFresh
  <2>3. hosts[h].elapsed < ttl
    BY <1>0, <1>1, <1>6, <2>2
  <2> QED BY <2>1, <2>3 DEF IsFresh
<1>8. LookedUpIsDue'
  <2>1. lookup.place # 0 => Names[lookup.place] \in Hosts
    BY <1>0, <1>4, NamesAre DEF TypeOK
  <2> QED BY <1>4, <1>7, <2>1 DEF IInv, LookedUpIsDue
<1>9. SnapshotCurrent'
  <2>1. Merged(hosts)' = Merged(hosts)
    BY <1>1 DEF Merged
  <2>2. UpToDate' => UpToDate
    BY <1>0, <1>7 DEF UpToDate
  <2> QED BY <1>0, <2>1, <2>2 DEF IInv, SnapshotCurrent
<1>10. Spaced'
  <2> SUFFICES ASSUME NEW h \in Hosts, quiet'[h] < NegativeTTL, quiet'[h] < hosts'[h].elapsed
               PROVE  Excused(h)'
    BY DEF Spaced
  <2>1. quiet'[h] = quiet[h] + 1 /\ quiet[h] \in Nat
    BY <1>6
  <2>2. hosts'[h].elapsed <= hosts[h].elapsed + 1 /\ hosts[h].elapsed \in Nat
    BY <1>6
  <2>3. quiet[h] < NegativeTTL /\ quiet[h] < hosts[h].elapsed
    BY <1>0, <1>6, <2>1, <2>2
  <2>4. Excused(h)
    BY <2>3 DEF IInv, Spaced
  <2>5. hosts[h] = NoAttempt => hosts'[h] = NoAttempt
    BY <1>0, <1>1 DEF NoAttempt, Attempt, Older
  <2> QED BY <1>0, <1>4, <2>4, <2>5 DEF Excused
<1>11. WrongNotForLong'
  <2>1. lookup'.place # 0 /\ lookup'.asked # dns'[Names[lookup'.place]] => since' <= lookup'.elapsed
    <3> SUFFICES ASSUME lookup.place # 0, lookup.asked # dns[Names[lookup.place]]
                 PROVE  since' <= lookup.elapsed + 1
      BY <1>0, <1>4
    <3>1. since <= lookup.elapsed
      BY DEF IInv, WrongNotForLong
    <3> QED BY <1>0, <1>2, <1>4, <3>1
  <2>2. ASSUME NEW h \in Hosts, Wrong(h)', hosts'[h].elapsed < PositiveTTL
        PROVE  since' <= hosts'[h].elapsed + MaxLookup
    <3>1. hosts'[h].elapsed = hosts[h].elapsed + 1 /\ hosts[h].elapsed \in Nat
      BY <1>6, <2>2
    <3>2. Wrong(h) /\ hosts[h].elapsed < PositiveTTL
      BY <1>0, <1>1, <2>2, <3>1 DEF Wrong
    <3>3. since <= hosts[h].elapsed + MaxLookup
      BY <3>2 DEF IInv, WrongNotForLong
    <3> QED BY <1>0, <1>2, <3>1, <3>3
  <2>3. ASSUME NEW i \in 1..Len(Names), i < lookup.place, Wrong(Names[i])'
        PROVE  since' <= PositiveTTL + (lookup.place - 1) * MaxLookup + (lookup.elapsed + 1)
    <3>1. Wrong(Names[i])
      BY <1>0, <1>1, <2>3, NamesAre DEF Wrong
    <3>2. since <= PositiveTTL + (lookup.place - 1) * MaxLookup + lookup.elapsed
      BY <2>3, <3>1 DEF IInv, WrongNotForLong
    <3>3. lookup.place - 1 \in Nat
      BY <1>4, <2>3
    <3>4. PICK k \in Nat : k = (lookup.place - 1) * MaxLookup
      BY <1>0, <3>3, TimesGrows
    <3>5. since <= PositiveTTL + k + lookup.elapsed
      BY <3>2, <3>4
    <3>6. since' <= PositiveTTL + k + (lookup.elapsed + 1)
      BY SMTT(90), <1>0, <1>2, <1>4, <3>5
    <3> QED BY <3>4, <3>6
  <2>4. \A i \in 1..Len(Names) : i < lookup'.place /\ Wrong(Names[i])' =>
           since' <= PositiveTTL + (lookup'.place - 1) * MaxLookup + lookup'.elapsed
    <3> SUFFICES ASSUME NEW i \in 1..Len(Names), i < lookup.place, Wrong(Names[i])'
                 PROVE  since' <= PositiveTTL + (lookup.place - 1) * MaxLookup + lookup'.elapsed
      BY <1>4
    <3>1. lookup'.elapsed = lookup.elapsed + 1
      BY <1>4
    <3> QED BY <2>3, <3>1
  <2> QED BY <2>1, <2>2, <2>4 DEF WrongNotForLong
<1> QED BY <1>5, <1>8, <1>9, <1>10, <1>11 DEF IInv

LEMMA NextInvariant == IInv /\ [Next]_vars => IInv'
<1> SUFFICES ASSUME IInv, [Next]_vars PROVE IInv'
  OBVIOUS
<1>1. CASE UNCHANGED vars
  <2>1. TypeOK'
    BY <1>1 DEF IInv, TypeOK, vars, cache, past
  <2> QED BY <1>1, <2>1, AsideStep DEF vars
<1>2. ASSUME NEW r \in Requests, Serve(r) PROVE IInv'
  BY <1>2, RequestsStep, HangUpStep DEF Serve
<1>3. ASSUME NEW t \in Tasks, Acquire(t) PROVE IInv'
  <2>1. 1 \in 1..(Len(Names) + 1)
    BY NumbersAre
  <2> QED BY <1>3, <2>1, AcquireStep, ContinueStep
<1>4. ASSUME NEW t \in Tasks, Record(t) PROVE IInv'
  BY <1>4, RecordStep, ContinueStep
<1> QED BY <1>1, <1>2, <1>3, <1>4, WakeUpStep, MoveStep, TickStep DEF Next

-----------------------------------------------------------------------------
(* What a step may do *)

\* A request that is handed the networks is handed those of the names.
LEMMA HandsRight ==
    ASSUME IInv, [Next]_vars, NEW r \in Requests,
           At(r, "read") \/ At(r, "write") \/ At(r, "refresh"),
           step'[r] = "resolved", since > Settling
    PROVE  given'[r] = Literals \cup UNION {dns[h] : h \in Hosts}
<1>0. TypeOK /\ r \in Tasks /\ r # Boot /\ step[r] # "resolved"
  BY TasksAssumption DEF IInv, At, Tasks
<1>1. CASE Read(r)
  <2>1. UpToDate /\ given' = [given EXCEPT ![r] = snapshot]
    <3>1. ~Goto(r, "write")
      BY <1>0 DEF Goto, TypeOK
    <3> QED BY <1>1, <3>1 DEF Read, Hand
  <2>2. given'[r] = Merged(hosts)
    BY <1>0, <2>1 DEF IInv, SnapshotCurrent, TypeOK
  <2>3. \A h \in Hosts : IsFresh(hosts[h])
    BY <2>1 DEF UpToDate
  <2>4. PassRight(hosts, 1)
    <3>1. \A i \in 1..Len(Names) : ~(i < 1)
      BY NumbersAre
    <3> QED BY <3>1 DEF IInv, WrongNotForLong, Wrong, PassRight
  <2>5. 1 \in 1..(Len(Names) + 1) /\ \A j \in 1..Len(Names) : IsFresh(hosts[Names[j]])
    BY <2>3, NamesAre, NumbersAre
  <2>6. hosts \in [Hosts -> Attempt]
    BY <1>0 DEF TypeOK
  <2> QED BY <1>0, <2>2, <2>4, <2>5, <2>6, PassedIsRight
<1>2. ASSUME NEW t \in Tasks, NEW known \in [Hosts -> Attempt],
             NEW from \in 1..(Len(Names) + 1),
             Continue(t, known, from), PassRight(known, from)
      PROVE  given'[r] = Literals \cup UNION {dns[h] : h \in Hosts}
  <2>1. CASE Goto(t, "refresh")
    BY <1>0, <2>1 DEF Goto, TypeOK
  <2>2. CASE (\A j \in from..Len(Names) : IsFresh(known[Names[j]])) /\ Finish(t, known)
    <3>1. snapshot' = Merged(known)
      BY <2>2 DEF Finish
    <3>2. CASE t = Boot
      <4>1. step'[r] = step[r]
        BY <1>0, <2>2, <3>2 DEF Finish, Primed, Goto, TypeOK
      <4> QED BY <1>0, <4>1
    <3>3. CASE t # Boot
      <4>1. /\ given' = [given EXCEPT ![t] = snapshot']
            /\ step' = [step EXCEPT ![t] = "resolved"]
        BY <2>2, <3>3 DEF Finish, Hand, Goto
      <4>2. t = r
        BY <1>0, <4>1 DEF TypeOK
      <4>3. given'[r] = Merged(known)
        BY <1>0, <3>1, <4>1, <4>2 DEF TypeOK
      <4> QED BY <1>0, <1>2, <2>2, <4>3, PassedIsRight
    <3> QED BY <3>2, <3>3
  <2> QED BY <1>2, <2>1, <2>2, Passes
<1>3. ASSUME NEW t \in Tasks, Acquire(t) \/ Record(t)
      PROVE  given'[r] = Literals \cup UNION {dns[h] : h \in Hosts}
  <2>1. 1 \in 1..(Len(Names) + 1)
    BY NumbersAre
  <2> QED BY <1>2, <1>3, <2>1, AcquireStep, RecordStep
<1>4. CASE UNCHANGED step
  BY <1>0, <1>4
<1>5. ASSUME NEW q \in Requests, Arrive(q) \/ HangUp(q) \/ (Read(q) /\ q # r) PROVE FALSE
  BY <1>0, <1>5 DEF Arrive, HangUp, Read, Hand, Goto, TypeOK
<1>6. CASE WakeUp
  BY <1>0, <1>6 DEF WakeUp, Goto, TypeOK
<1> QED BY <1>1, <1>3, <1>4, <1>5, <1>6 DEF Next, Serve, Move, Tick, vars

\* A request that looks a name up is the first to for a negative TTL.
LEMMA LooksUpSeldom ==
    ASSUME IInv, [Next]_vars, NEW r \in Requests, NEW h \in Hosts,
           lock' = r, lookup'.place # 0, Names[lookup'.place] = h,
           lookup' # lookup, lookup'.elapsed = 0
    PROVE  quiet[h] >= NegativeTTL
<1>0. TypeOK /\ r # Boot /\ r # "nobody" /\ quiet[h] \in Nat /\ NegativeTTL \in Nat
  BY TasksAssumption, NumbersAre DEF IInv, TypeOK, Tasks
<1>1. ASSUME NEW t \in Tasks, NEW known \in [Hosts -> Attempt],
             NEW from \in 1..(Len(Names) + 1),
             Continue(t, known, from), PassSpaced(t, known, from)
      PROVE  quiet[h] >= NegativeTTL
  <2>1. CASE Finish(t, known)
    BY <2>1 DEF Finish, NoLookup
  <2>2. ASSUME NEW i \in from..Len(Names), ~IsFresh(known[Names[i]]),
               lookup' = Lookup(i), lock' = t
        PROVE  quiet[h] >= NegativeTTL
    <3>1. t # Boot /\ ~IsFresh(known[h])
      BY <1>0, <2>2 DEF Lookup
    <3>2. ~(quiet[h] < NegativeTTL /\ quiet[h] < known[h].elapsed)
      BY <1>1, <3>1 DEF PassSpaced
    <3>3. NegativeTTL <= known[h].elapsed /\ known[h].elapsed \in Nat
      BY <3>1, FreshIs
    <3> QED BY <1>0, <3>2, <3>3
  <2> QED BY <1>1, <2>1, <2>2, Passes
<1>2. ASSUME NEW t \in Tasks, Acquire(t) \/ Record(t) PROVE quiet[h] >= NegativeTTL
  <2>1. 1 \in 1..(Len(Names) + 1)
    BY NumbersAre
  <2> QED BY <1>1, <1>2, <2>1, AcquireStep, RecordStep
<1>3. CASE UNCHANGED lookup
  BY <1>3
<1>4. ASSUME NEW q \in Requests, HangUp(q) PROVE quiet[h] >= NegativeTTL
  BY <1>0, <1>4 DEF HangUp
<1>5. CASE Tick
  <2>1. CASE lock = "nobody"
    BY <1>5, <2>1 DEF Tick
  <2>2. CASE lock # "nobody"
    <3>1. lookup'.elapsed = lookup.elapsed + 1 /\ lookup.elapsed \in Nat
      BY <1>0, <1>5, <2>2 DEF Tick, TypeOK
    <3> QED BY <3>1
  <2> QED BY <2>1, <2>2
<1> QED BY <1>2, <1>3, <1>4, <1>5 DEF Next, Serve, Arrive, Read, WakeUp, Move, vars, cache

-----------------------------------------------------------------------------
(* Theorems *)

\* What the requests, the priming task and the passing of time keep true of the cache.
THEOREM CacheInvariant == Spec => []IInv
BY InitInvariant, NextInvariant, PTL DEF Spec

\* The cache, its lock and the tasks keep their types, and the lock is held by the one task
\* that looks names up.
THEOREM TypesKept == Spec => []TypeOK
<1>1. IInv => TypeOK
  BY DEF IInv
<1> QED BY <1>1, CacheInvariant, PTL

\* ResolutionCache.built: a snapshot that is served is made of the attempts there are,
\* however often a refresh was cut off between the two.
THEOREM ServedIsCurrent == Spec => []SnapshotCurrent
<1>1. IInv => SnapshotCurrent
  BY DEF IInv
<1> QED BY <1>1, CacheInvariant, PTL

\* However the lookups of refresh_locked follow on one another, an address is trusted for a
\* positive TTL and the time of the lookups after its name left it, and no longer; and
\* is trusted by then if its name came back.
THEOREM TrustFollows == Spec => TrustFollowsTheNames
<1>1. IInv /\ [Next]_vars =>
         [\A r \in Requests :
            /\ At(r, "read") \/ At(r, "write") \/ At(r, "refresh")
            /\ step'[r] = "resolved"
            /\ since > Settling
            => given'[r] = Literals \cup UNION {dns[h] : h \in Hosts}]_vars
  BY HandsRight
<1> QED BY <1>1, CacheInvariant, PTL DEF Spec, TrustFollowsTheNames

\* However many requests find the cache expired together, resolved lets one look a name up,
\* and none again for a negative TTL.
THEOREM SpacedLookups == Spec => LookupsSpaced
<1>1. IInv /\ [Next]_vars =>
         [\A r \in Requests, h \in Hosts :
            /\ lock' = r /\ quiet'[h] = 0
            /\ lookup'.place # 0 /\ Names[lookup'.place] = h /\ lookup' # lookup /\ lookup'.elapsed = 0
            => quiet[h] >= NegativeTTL]_vars
  BY LooksUpSeldom
<1> QED BY <1>1, CacheInvariant, PTL DEF Spec, LookupsSpaced

\* resolve_client_ip: whatever the client wrote ahead, and through however many proxies, the
\* address is that of the last on the way that is not trusted.
THEOREM LastStranger == Spec => []LastStrangerIsTheClient
<1>1. LastStrangerIsTheClient
  BY Walk DEF LastStrangerIsTheClient
<1> QED BY <1>1, PTL

=============================================================================
