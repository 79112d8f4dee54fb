--------------------------- MODULE DiscoveryProofs ---------------------------
(***************************************************************************)
(* Proofs about the times of Discovery: how many lost broadcasts it takes  *)
(* for a peer that runs to leave the list, how long one that is silent     *)
(* stays on it, and how long a search takes, for any constants.            *)
(***************************************************************************)
EXTENDS Discovery, TLAPS

\* The longest a broadcast is apart from the one before.
Period == Interval + Jitter

\* The time since the peer was heard of, and until it may be heard of again, are
\* bounded by the broadcasts that were lost: the inductive invariant.
HeardInTime ==
    up /\ heard =>
        /\ Listens => losses <= MaxLosses /\ age + next <= (losses + 1) * Period
        /\ ~Listens => resolved # {} /\ age <= RefreshEvery - refreshIn

IInv ==
    /\ next \in Nat /\ losses \in Nat /\ refreshIn \in Nat /\ age \in Nat
    /\ refreshIn <= RefreshEvery
    /\ HeardInTime

\* The sum of two bounds is a bound of the sum.
LEMMA SumsOfBounds ==
  \A a, b, m, n \in Nat : a <= m /\ b <= n => a + b <= m + n
  OBVIOUS

\* A period is a number, and one more lost broadcast costs one more of them.
LEMMA OneMorePeriod ==
  /\ Period \in Nat
  /\ \A n \in Nat : /\ (n + 1) * Period \in Nat
                    /\ (n + 1 + 1) * Period = (n + 1) * Period + Period
<1>1. Period \in Nat
  BY TimesAssumption DEF Period
<1> HIDE DEF Period
<1>2. ASSUME NEW n \in Nat PROVE (n + 1) * Period \in Nat
  BY <1>1
<1>3. ASSUME NEW n \in Nat PROVE (n + 1 + 1) * Period = (n + 1) * Period + Period
  BY <1>1
<1>4. QED
  BY <1>1, <1>2, <1>3

\* Nothing has been heard of at first.
LEMMA InitTimes == Init => IInv
  BY TimesAssumption DEF Init, IInv, HeardInTime

\* Every step keeps the bound: a broadcast that is lost uses one of those that
\* may be lost, one that arrives starts again, and time takes from the one term
\* what it adds to the other.
LEMMA TimesStep == IInv /\ [Next]_vars => IInv'
<1> SUFFICES ASSUME IInv, [Next]_vars PROVE IInv'
  OBVIOUS
<1> USE TimesAssumption
<1>1. CASE BroadcastSent
  <2>1. PICK arrived \in SUBSET Addresses :
          /\ arrived = {} => losses < MaxLosses
          /\ losses' = IF arrived = {} THEN losses + 1 ELSE 0
          /\ Announced(arrived)
    BY <1>1 DEF BroadcastSent
  <2>2. next' \in Nat /\ next' <= Period /\ next = 0
    BY <1>1 DEF BroadcastSent, IInv, Period
  <2>3. UNCHANGED <<backend, up, resolved, refreshIn>>
    BY <1>1 DEF BroadcastSent
  <2>4. CASE arrived = {}
    <3>1. losses' = losses + 1 /\ losses' <= MaxLosses /\ age' = age
      <4>1. losses < MaxLosses /\ losses' = losses + 1
        BY <2>1, <2>4
      <4>2. age' = age
        BY <2>1, <2>4 DEF Announced
      <4>3. QED
        BY <4>1, <4>2 DEF IInv
    <3>7. heard' => heard
      BY <2>1, <2>4, Zenon DEF Announced
    <3>2. (losses + 1 + 1) * Period = (losses + 1) * Period + Period
      BY OneMorePeriod DEF IInv
    <3>3. (losses + 1) * Period \in Nat /\ Period \in Nat
      BY OneMorePeriod DEF IInv
    <3>4. Listens
      BY <1>1 DEF BroadcastSent
    <3>5. up /\ heard => age + next' <= (losses' + 1) * Period
      <4> SUFFICES ASSUME up, heard PROVE age + next' <= (losses' + 1) * Period
        OBVIOUS
      <4>1. age <= (losses + 1) * Period
        BY <2>2, <3>4, <3>3 DEF IInv, HeardInTime
      <4>2. age + next' <= (losses + 1) * Period + Period
        <5> DEFINE most == (losses + 1) * Period
        <5>1. age \in Nat /\ age <= most /\ most \in Nat
          BY <3>3, <4>1 DEF IInv
        <5> HIDE DEF most
        <5>2. age + next' <= most + Period
          BY <2>2, <3>3, <5>1, SumsOfBounds
        <5>3. QED
          BY <5>2 DEF most
      <4>3. QED
        BY <3>1, <3>2, <4>2
    <3>6. QED
      BY <2>2, <2>3, <3>1, <3>4, <3>5, <3>7 DEF IInv, HeardInTime, Listens
  <2>5. CASE arrived # {}
    <3>1. losses' = 0 /\ age' = 0
      BY <2>1, <2>5 DEF Announced
    <3>2. (0 + 1) * Period = Period
      BY OneMorePeriod
    <3>3. Listens
      BY <1>1 DEF BroadcastSent
    <3>4. QED
      BY <2>2, <2>3, <3>1, <3>2, <3>3 DEF IInv, HeardInTime, Listens
  <2>6. QED
    BY <2>4, <2>5
<1>2. ASSUME NEW a \in Addresses, ItemNew(a) PROVE IInv'
  BY <1>2 DEF ItemNew, Announced, IInv, HeardInTime, Listens, peerVars
<1>3. CASE RefreshFires
  <2>1. ~Listens /\ ~Listens' /\ refreshIn' = RefreshEvery /\ UNCHANGED <<up, next, losses, resolved>>
    BY <1>3 DEF RefreshFires, Listens, peerVars
  <2>2. age' = IF resolved = {} THEN age ELSE 0
    BY <1>3 DEF RefreshFires, Announced
  <2>3. age' \in Nat
    BY <2>2 DEF IInv
  <2>4. up /\ heard' => resolved # {}
    BY <1>3, <2>1, Zenon DEF RefreshFires, Announced, IInv, HeardInTime
  <2>5. HeardInTime'
    BY <2>1, <2>2, <2>4 DEF HeardInTime
  <2>6. QED
    BY <2>1, <2>3, <2>5 DEF IInv
<1>4. ASSUME NEW a \in Addresses, ItemRemove(a) PROVE IInv'
  BY <1>4 DEF ItemRemove, IInv, HeardInTime, peerVars, directoryVars
<1>5. CASE PeerStarts \/ PeerStops
  BY <1>5 DEF PeerStarts, PeerStops, IInv, HeardInTime
<1>6. CASE Tick
  <2>1. next' \in Nat /\ refreshIn' \in Nat /\ age' \in Nat /\ age' <= age + 1
        /\ refreshIn' <= RefreshEvery
    BY <1>6 DEF Tick, IInv
  <2>2. Listens /\ up => next' = next - 1
    BY <1>6 DEF Tick
  <2>3. ~Listens => refreshIn' = refreshIn - 1
    BY <1>6 DEF Tick
  <2>4. UNCHANGED <<backend, up, losses, resolved, heard>>
    BY <1>6 DEF Tick
  <2>5. Listens' = Listens
    BY <2>4 DEF Listens
  <2>6. (losses + 1) * Period \in Nat
    BY OneMorePeriod DEF IInv
  <2>7. ASSUME up, heard, Listens PROVE age' + next' <= (losses + 1) * Period
    BY <2>1, <2>2, <2>6, <2>7 DEF IInv, HeardInTime
  <2>8. ASSUME up, heard, ~Listens PROVE age' <= RefreshEvery - refreshIn'
    <3>1. age <= RefreshEvery - refreshIn /\ age \in Nat /\ refreshIn \in Nat
      BY <2>8 DEF IInv, HeardInTime
    <3>2. refreshIn' = refreshIn - 1
      BY <2>3, <2>8
    <3>3. QED
      <4>1. age' \in Nat /\ refreshIn' \in Nat /\ RefreshEvery \in Nat /\ age' <= age + 1
        BY <2>1, TimesAssumption
      <4>2. QED
        BY <3>1, <3>2, <4>1
  <2>9. QED
    BY <2>1, <2>4, <2>5, <2>7, <2>8 DEF IInv, HeardInTime
<1>7. CASE SweepFires
  BY <1>7 DEF SweepFires, IInv, HeardInTime, Listens, peerVars
<1>8. CASE AttemptEnds \/ Connects \/ DeadlineFires \/ UNCHANGED vars
  BY <1>8
     DEF AttemptEnds, Connects, DeadlineFires, vars, IInv, HeardInTime, Listens,
         peerVars, directoryVars
<1>9. QED
  BY <1>1, <1>2, <1>3, <1>4, <1>5, <1>6, <1>7, <1>8 DEF Next, Step

\* A peer that was heard of and is stale has had its expiry filled by the
\* broadcasts that were lost; what a DNS-SD backend has resolved is never stale.
LEMMA StaleBySilence ==
  RefreshEvery <= Expiry /\ IInv /\ up /\ heard /\ IsStale
    => Listens /\ (losses + 1) * Period > Expiry
<1> SUFFICES ASSUME RefreshEvery <= Expiry, IInv, up, heard, IsStale
             PROVE  Listens /\ (losses + 1) * Period > Expiry
  OBVIOUS
<1>1. /\ age \in Nat /\ age > Expiry /\ next \in Nat /\ refreshIn \in Nat
      /\ Expiry \in Nat /\ RefreshEvery \in Nat
  BY TimesAssumption DEF IInv, IsStale
<1>2. Listens
  BY <1>1 DEF IInv, HeardInTime
<1>3. age + next <= (losses + 1) * Period /\ (losses + 1) * Period \in Nat
  BY <1>2, OneMorePeriod DEF IInv, HeardInTime
<1>4. QED
  BY <1>1, <1>2, <1>3

\* Only the sweep takes the peer off the list, and only when it is stale.
LEMMA PrunedWhenStale == [Next]_vars /\ Listed /\ known' = {} => IsStale
<1> SUFFICES ASSUME [Next]_vars, Listed, known' = {} PROVE IsStale
  OBVIOUS
<1>1. CASE SweepFires
  BY <1>1 DEF SweepFires, Listed
<1>2. CASE BroadcastSent \/ RefreshFires \/ \E a \in Addresses : ItemNew(a)
  BY <1>2 DEF BroadcastSent, RefreshFires, ItemNew, Announced, Listed
<1>3. CASE \/ \E a \in Addresses : ItemRemove(a)
           \/ AttemptEnds \/ Connects \/ DeadlineFires
           \/ PeerStarts \/ PeerStops \/ Tick \/ UNCHANGED vars
  BY <1>3
     DEF ItemRemove, AttemptEnds, Connects, DeadlineFires, PeerStarts, PeerStops, Tick,
         vars, directoryVars, Listed
<1>4. QED
  BY <1>1, <1>2, <1>3 DEF Next, Step

\* A peer that runs and has been heard of is pruned only when the broadcasts lost
\* in a row, each as late as it can be, fill its expiry, whatever the times are; a
\* DNS-SD backend announces what it has resolved in time if it does so within an
\* expiry.
THEOREM HeardPeersStay == ASSUME RefreshEvery <= Expiry PROVE Spec => OnlySilencePrunes
<1>1. Spec => Init /\ [][Next]_vars
  BY DEF Spec
<1>2. IInv /\ [Next]_vars =>
        (Listed /\ up /\ heard /\ known' = {} =>
           Listens /\ (losses + 1) * (Interval + Jitter) > Expiry)
  BY PrunedWhenStale, StaleBySilence DEF Period
<1>3. QED
  BY <1>1, <1>2, InitTimes, TimesStep, PTL DEF OnlySilencePrunes

-----------------------------------------------------------------------------
(* How long a silent peer is listed, and a search goes on                  *)

TimersInv ==
    /\ age \in Nat /\ timer \in Nat
    /\ sweepIn \in 0 .. SweepEvery
    /\ toTry = {}
    /\ ListedIsFresh

\* The sweep has a period.
LEMMA SweepPeriod == SweepEvery \in Nat
  BY TimesAssumption DEF SweepEvery

\* An address that is tried is the only one there is.
LEMMA OnlyAddress ==
  ASSUME NEW addresses, \/ addresses = {}
                        \/ \E a \in addresses : addresses = {a},
         timer \in Nat, toTry = {}, TryNext(addresses)
  PROVE  /\ toTry' = {} /\ timer' \in Nat
         /\ addresses = {} => lookup' = "exhausted"
         /\ addresses # {} => lookup' = "trying" /\ timer' = ConnectTimeout
  BY TimesAssumption DEF TryNext

\* What announcements do: they make a peer fresh, and turn a search to the first
\* address.
LEMMA AnnouncedTimes ==
  ASSUME TimersInv, NEW addresses, Announced(addresses)
  PROVE  /\ age' \in Nat
         /\ known' # {} => age' = 0 \/ (Listed /\ age' = age)
         /\ toTry' = {} /\ timer' \in Nat
         /\ \/ UNCHANGED lookupVars
            \/ lookup = "searching" /\ lookup' = "trying" /\ timer' = ConnectTimeout
<1>1. age' = IF addresses = {} THEN age ELSE 0
  BY DEF Announced
<1>2. known' = known \cup addresses
  BY DEF Announced
<1>3. CASE UNCHANGED lookupVars
  BY <1>1, <1>2, <1>3 DEF lookupVars, TimersInv, Listed
<1>4. ASSUME NEW first \in addresses, PeerAdded({first})
      PROVE  \/ UNCHANGED lookupVars
             \/ /\ lookup = "searching" /\ lookup' = "trying"
                /\ timer' = ConnectTimeout /\ toTry' = {}
  <2>1. CASE lookup # "searching"
    BY <1>4, <2>1 DEF PeerAdded
  <2>2. CASE lookup = "searching"
    <3>1. TryNext({first}) /\ timer \in Nat /\ toTry = {}
      BY <1>4, <2>2 DEF PeerAdded, TimersInv
    <3>2. {first} # {} /\ \E a \in {first} : {first} = {a}
      OBVIOUS
    <3>3. QED
      BY <2>2, <3>1, <3>2, OnlyAddress
  <2>3. QED
    BY <2>1, <2>2
<1>5. \/ UNCHANGED lookupVars
      \/ /\ lookup = "searching" /\ lookup' = "trying"
         /\ timer' = ConnectTimeout /\ toTry' = {}
  BY <1>4 DEF Announced
<1>6. QED
  BY <1>1, <1>2, <1>3, <1>5, TimesAssumption DEF TimersInv, Listed

\* How a step changes the search: not at all, by time alone, to the address, or to
\* its end.
SearchMoves ==
    \/ UNCHANGED <<lookup, timer>> /\ ~Tick
    \/ Tick /\ UNCHANGED lookup /\ Waiting /\ timer' = timer - 1
    \/ Tick /\ UNCHANGED lookup /\ ~Waiting
    \/ lookup = "searching" /\ lookup' = "trying" /\ timer' = ConnectTimeout /\ ~Tick
    \/ Waiting /\ lookup' \in {"connected", "notFound", "exhausted"} /\ ~Tick

\* The timers' invariant and the search, one action at a time.
LEMMA TimersStep == TimersInv /\ [Next]_vars => TimersInv' /\ SearchMoves
<1> SUFFICES ASSUME TimersInv, [Next]_vars PROVE TimersInv' /\ SearchMoves
  OBVIOUS
<1> USE SweepPeriod
<1>1. /\ age \in Nat /\ timer \in Nat /\ sweepIn \in Nat /\ sweepIn <= SweepEvery
      /\ toTry = {} /\ Expiry \in Nat
  BY TimesAssumption DEF TimersInv
<1>2. Tick => sweepIn' = sweepIn - 1 /\ sweepIn > 0
  BY DEF Tick
<1>3. ASSUME NEW addresses, Announced(addresses), sweepIn' = sweepIn
      PROVE  TimersInv' /\ SearchMoves
  <2>1. ~Tick
    BY <1>1, <1>2, <1>3
  <2>2. ListedIsFresh'
    <3> SUFFICES ASSUME known' # {} PROVE age' <= Expiry + SweepEvery - sweepIn
      BY <1>3 DEF ListedIsFresh, Listed
    <3>1. CASE age' = 0
      BY <1>1, <3>1
    <3>2. CASE Listed /\ age' = age
      BY <3>2 DEF TimersInv, ListedIsFresh
    <3>3. QED
      BY <1>3, <3>1, <3>2, AnnouncedTimes
  <2>3. TimersInv'
    BY <1>1, <1>3, <2>2, AnnouncedTimes DEF TimersInv
  <2>4. SearchMoves
    BY <1>3, <2>1, AnnouncedTimes DEF SearchMoves, lookupVars
  <2>5. QED
    BY <2>3, <2>4
<1>4. CASE BroadcastSent
  BY <1>3, <1>4 DEF BroadcastSent
<1>5. CASE RefreshFires
  <2>1. Announced(resolved) /\ sweepIn' = sweepIn
    BY <1>5 DEF RefreshFires
  <2>2. QED
    BY <1>3, <2>1
<1>6. ASSUME NEW a \in Addresses, ItemNew(a) PROVE TimersInv' /\ SearchMoves
  BY <1>3, <1>6 DEF ItemNew
<1>7. ASSUME UNCHANGED <<known, age, sweepIn, lookup, toTry, timer>>
      PROVE  TimersInv' /\ SearchMoves
  <2>1. ~Tick
    BY <1>1, <1>2, <1>7
  <2>2. QED
    BY <1>7, <2>1 DEF TimersInv, ListedIsFresh, Listed, SearchMoves
<1>8. CASE SweepFires
  <2>1. /\ sweepIn = 0 /\ sweepIn' = SweepEvery /\ known' = IF IsStale THEN {} ELSE known
        /\ UNCHANGED <<age, lookup, toTry, timer>>
    BY <1>8 DEF SweepFires, lookupVars
  <2>2. known' # {} => age <= Expiry
    BY <1>1, <2>1 DEF IsStale
  <2>3. ~Tick
    BY <1>2, <2>1
  <2>4. QED
    BY <1>1, <2>1, <2>2, <2>3 DEF TimersInv, ListedIsFresh, Listed, SearchMoves
<1>9. CASE Tick
  <2>1. /\ sweepIn > 0 /\ sweepIn' = sweepIn - 1 /\ UNCHANGED <<known, lookup, toTry>>
        /\ timer' = IF Waiting THEN timer - 1 ELSE timer
        /\ Waiting => timer > 0
        /\ age' = IF Listed /\ age < MaxAge THEN age + 1 ELSE age
    BY <1>9 DEF Tick
  <2>2. age' \in Nat /\ age' <= age + 1 /\ timer' \in Nat /\ sweepIn' \in 0 .. SweepEvery
    BY <1>1, <2>1
  <2>3. Listed => age' <= Expiry + SweepEvery - sweepIn'
    <3>1. Listed => age <= Expiry + SweepEvery - sweepIn
      BY DEF TimersInv, ListedIsFresh
    <3>2. QED
      BY <1>1, <2>1, <2>2, <3>1
  <2>4. TimersInv'
    BY <1>1, <2>1, <2>2, <2>3 DEF TimersInv, ListedIsFresh, Listed
  <2>5. SearchMoves
    BY <1>9, <2>1 DEF SearchMoves
  <2>6. QED
    BY <2>4, <2>5
<1>10. ASSUME UNCHANGED <<known, age, sweepIn, toTry, timer>>, Waiting,
              lookup' \in {"connected", "notFound", "exhausted"}
       PROVE  TimersInv' /\ SearchMoves
  <2>1. ~Tick
    BY <1>1, <1>2, <1>10
  <2>2. QED
    BY <1>10, <2>1 DEF TimersInv, ListedIsFresh, Listed, SearchMoves
<1>11. CASE AttemptEnds
  <2>1. lookup' = "exhausted" /\ UNCHANGED <<known, age, sweepIn, toTry, timer>>
    BY <1>1, <1>11 DEF AttemptEnds, TryNext, directoryVars
  <2>2. QED
    BY <1>10, <1>11, <2>1 DEF AttemptEnds, Waiting
<1>12. CASE Connects \/ DeadlineFires
  BY <1>10, <1>12 DEF Connects, DeadlineFires, directoryVars, Waiting
<1>13. CASE \/ \E a \in Addresses : ItemRemove(a)
            \/ PeerStarts \/ PeerStops \/ UNCHANGED vars
  BY <1>7, <1>13 DEF ItemRemove, PeerStarts, PeerStops, directoryVars, lookupVars, vars
<1>14. QED
  BY <1>4, <1>5, <1>6, <1>8, <1>9, <1>11, <1>12, <1>13 DEF Next, Step

\* The timers' invariant holds.
LEMMA TimersHold == Spec => []TimersInv
<1>1. Spec => Init /\ [][Next]_vars
  BY DEF Spec
<1>2. Init => TimersInv
  BY SweepPeriod, TimesAssumption DEF Init, TimersInv, ListedIsFresh, Listed
<1>3. QED
  BY <1>1, <1>2, TimersStep, PTL

\* A peer nobody has announced for its expiry leaves with the next sweep.
THEOREM SilentPeersLeave == Spec => []ListedIsFresh
<1>1. TimersInv => ListedIsFresh
  BY DEF TimersInv
<1>2. QED
  BY <1>1, TimersHold, PTL

\* Every tick takes from the time a search has left, and nothing gives any back.
THEOREM SearchesAreBounded == Spec => SearchIsBounded
<1> DEFINE Bounded ==
             /\ ~Waiting => ~Waiting'
             /\ Waiting /\ Waiting' =>
                  TimeLeft' <= TimeLeft /\ (Tick => TimeLeft' < TimeLeft)
<1>1. TimersInv /\ TimersInv' /\ [Next]_vars => Bounded
  <2> SUFFICES ASSUME TimersInv, TimersInv', [Next]_vars PROVE Bounded
    OBVIOUS
  <2>1. SearchMoves
    BY TimersStep
  <2>2. timer \in Nat /\ timer' \in Nat /\ ConnectTimeout \in Nat
    BY TimesAssumption DEF TimersInv
  <2>3. CASE UNCHANGED <<lookup, timer>> /\ ~Tick
    BY <2>2, <2>3 DEF Waiting, TimeLeft
  <2>4. CASE Tick /\ UNCHANGED lookup /\ Waiting /\ timer' = timer - 1
    BY <2>2, <2>4 DEF Waiting, TimeLeft
  <2>5. CASE Tick /\ UNCHANGED lookup /\ ~Waiting
    BY <2>5 DEF Waiting
  <2>6. CASE lookup = "searching" /\ lookup' = "trying" /\ timer' = ConnectTimeout /\ ~Tick
    BY <2>2, <2>6 DEF Waiting, TimeLeft
  <2>7. CASE Waiting /\ lookup' \in {"connected", "notFound", "exhausted"} /\ ~Tick
    BY <2>7 DEF Waiting
  <2>8. QED
    BY <2>1, <2>3, <2>4, <2>5, <2>6, <2>7 DEF SearchMoves
<1>2. TimersInv /\ TimersInv' /\ [Next]_vars => [Bounded]_vars
  BY <1>1
<1>3. QED
  BY <1>2, TimersHold, PTL DEF Spec, SearchIsBounded
=============================================================================
