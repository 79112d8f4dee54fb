------------------------------- MODULE Discovery -------------------------------
(***************************************************************************)
(* How a program learns of a peer and loses it again, in time              *)
(* (core/discovery): the backend startDiscovery() has chosen, the list of  *)
(* peers (peerdirectory.cpp), and the search "send" and "pair" make for    *)
(* one peer and its addresses (peerconnector.cpp, cli/main.cpp).           *)
(*                                                                         *)
(* One peer: the directory treats each by itself.  Time is counted in      *)
(* units of half a second, and passes only when no timer is due; a timer   *)
(* of Qt that is due runs before the next one can be.  MaxLosses bounds    *)
(* how many broadcasts of the peer in a row reach nobody.                  *)
(***************************************************************************)
EXTENDS Naturals

CONSTANTS
    Backends,       \* of "broadcast", "avahi" and "windnssd"
    Addresses,      \* of the peer
    Interval,       \* kBroadcastInterval
    Jitter,         \* kBroadcastJitter
    RefreshEvery,   \* kPeerRefreshInterval
    Expiry,         \* kPeerExpiry
    LookupTimeout,  \* kLookupTimeout
    ConnectTimeout, \* kAddressConnectTimeout
    MaxLosses

ASSUME TimesAssumption ==
    /\ Interval \in Nat /\ Jitter \in Nat /\ RefreshEvery \in Nat
    /\ Expiry \in Nat /\ LookupTimeout \in Nat /\ ConnectTimeout \in Nat
    /\ MaxLosses \in Nat

VARIABLES
    backend,    \* the one that has started
    up,         \* the peer runs "serve"
    next,       \* the time to its next broadcast
    losses,     \* its broadcasts in a row that were lost
    resolved,   \* m_resolved: the addresses of it a DNS-SD backend reports
    refreshIn,  \* m_refreshTimer
    known,      \* its addresses in m_peers, or none
    age,        \* the time since its lastSeen
    heard,      \* it has been heard of since it started
    sweepIn,    \* m_sweep
    lookup,     \* none, searching, trying, connected, notFound, exhausted
    toTry,      \* m_addresses from m_index on
    timer       \* the deadline of the search, or the connector's m_timer

peerVars == <<up, next, losses>>
directoryVars == <<known, age, heard>>
lookupVars == <<lookup, toTry, timer>>
vars == <<backend, peerVars, resolved, refreshIn, directoryVars, sweepIn, lookupVars>>

SweepEvery == Expiry \div 2
MaxAge == Expiry + SweepEvery + 1

Listed == known # {}
Listens == backend = "broadcast"
Running == lookup \notin {"notFound", "exhausted"}
Waiting == lookup \in {"searching", "trying"}

-----------------------------------------------------------------------------
(* The search for the peer                                                 *)

\* Mutation: the program does not end when there is no address left.
TryNextStays(addresses) ==
    IF addresses = {}
    THEN UNCHANGED lookupVars
    ELSE \E a \in addresses :
           /\ lookup' = "trying" /\ toTry' = addresses \ {a}
           /\ timer' = ConnectTimeout

\* tryNextAddress() and startNext(): the program ends when there is none left.
TryNext(addresses) ==
    IF addresses = {}
    THEN lookup' = "exhausted" /\ UNCHANGED <<toTry, timer>>
    ELSE \E a \in addresses :
           /\ lookup' = "trying" /\ toTry' = addresses \ {a}
           /\ timer' = ConnectTimeout

\* peerAdded: connectToPeer() with the addresses there are at that moment.
PeerAdded(addresses) ==
    IF lookup = "searching" THEN TryNext(addresses) ELSE UNCHANGED lookupVars

\* The time of the address is up, or it turned out to be of no use before.
AttemptEnds ==
    /\ lookup = "trying"
    /\ TryNext(toTry)
    /\ UNCHANGED <<backend, peerVars, resolved, refreshIn, directoryVars, sweepIn>>

AttemptTimesOut == timer = 0 /\ AttemptEnds

\* connected(): from now on the address has all the time it needs.
Connects ==
    /\ lookup = "trying" /\ up
    /\ lookup' = "connected"
    /\ UNCHANGED <<backend, peerVars, resolved, refreshIn, directoryVars, sweepIn,
                   toTry, timer>>

\* The deadline of the search, which does nothing once an address is tried.
DeadlineFires ==
    /\ lookup = "searching" /\ timer = 0
    /\ lookup' = "notFound"
    /\ UNCHANGED <<backend, peerVars, resolved, refreshIn, directoryVars, sweepIn,
                   toTry, timer>>

-----------------------------------------------------------------------------
(* The list of peers                                                       *)

\* apply() of the announcements of some addresses, one after the other; the first
\* of a peer that was not listed adds it.
Announced(addresses) ==
    /\ known' = known \cup addresses
    /\ age' = IF addresses = {} THEN age ELSE 0
    /\ heard' = (heard \/ (up /\ addresses # {}))
    /\ IF ~Listed /\ addresses # {}
       THEN \E first \in addresses : PeerAdded({first})
       ELSE UNCHANGED lookupVars

\* Mutation: a peer heard of exactly its expiry ago is gone.
IsStaleSooner == age >= Expiry

IsStale == age > Expiry

\* prune(), by the sweep timer.
SweepFires ==
    /\ sweepIn = 0
    /\ sweepIn' = SweepEvery
    /\ known' = IF IsStale THEN {} ELSE known
    /\ UNCHANGED <<backend, peerVars, resolved, refreshIn, age, heard, lookupVars>>

-----------------------------------------------------------------------------
(* The backends                                                            *)

\* The peer's sendAdvertisement() and our onReadyRead(): the datagrams to some of
\* its networks arrive.
BroadcastSent ==
    /\ Listens /\ up /\ next = 0
    /\ next' \in Interval .. Interval + Jitter
    /\ \E arrived \in SUBSET Addresses :
         /\ arrived = {} => losses < MaxLosses
         /\ losses' = IF arrived = {} THEN losses + 1 ELSE 0
         /\ Announced(arrived)
    /\ UNCHANGED <<backend, up, resolved, refreshIn, sweepIn>>

\* onItemNew(), or adoptResolved(): an address has been resolved.
ItemNew(a) ==
    /\ ~Listens /\ up /\ a \notin resolved
    /\ resolved' = resolved \cup {a}
    /\ Announced({a})
    /\ UNCHANGED <<backend, peerVars, refreshIn, sweepIn>>

\* Mutation: the entry goes on being announced.
ItemRemoveKeeps(a) ==
    /\ backend = "avahi" /\ ~up /\ a \in resolved
    /\ UNCHANGED vars

\* onItemRemove(), of Avahi: the entry is announced no more.  The Windows backend
\* has nothing like it.
ItemRemove(a) ==
    /\ backend = "avahi" /\ ~up /\ a \in resolved
    /\ resolved' = resolved \ {a}
    /\ UNCHANGED <<backend, peerVars, refreshIn, directoryVars, sweepIn, lookupVars>>

\* refresh() announces again all that is resolved.
RefreshFires ==
    /\ ~Listens /\ refreshIn = 0
    /\ refreshIn' = RefreshEvery
    /\ Announced(resolved)
    /\ UNCHANGED <<backend, peerVars, resolved, sweepIn>>

-----------------------------------------------------------------------------
(* The peer, and time                                                      *)

\* It announces itself at once.
PeerStarts ==
    /\ ~up
    /\ up' = TRUE /\ next' = 0 /\ losses' = 0
    /\ heard' = FALSE
    /\ UNCHANGED <<backend, resolved, refreshIn, known, age, sweepIn, lookupVars>>

PeerStops ==
    /\ up
    /\ up' = FALSE /\ next' = 0 /\ losses' = 0
    /\ heard' = FALSE
    /\ UNCHANGED <<backend, resolved, refreshIn, known, age, sweepIn, lookupVars>>

Tick ==
    /\ sweepIn > 0
    /\ Listens /\ up => next > 0
    /\ ~Listens => refreshIn > 0
    /\ Waiting => timer > 0
    /\ sweepIn' = sweepIn - 1
    /\ next' = IF Listens /\ up THEN next - 1 ELSE next
    /\ refreshIn' = IF Listens THEN refreshIn ELSE refreshIn - 1
    /\ timer' = IF Waiting THEN timer - 1 ELSE timer
    /\ age' = IF Listed /\ age < MaxAge THEN age + 1 ELSE age
    /\ UNCHANGED <<backend, up, losses, resolved, known, heard, lookup, toTry>>

Init ==
    /\ backend \in Backends
    /\ up = FALSE /\ next = 0 /\ losses = 0
    /\ resolved = {} /\ refreshIn = RefreshEvery
    /\ known = {} /\ age = 0 /\ heard = FALSE
    /\ sweepIn = SweepEvery
    /\ lookup \in {"none", "searching"} /\ toTry = {} /\ timer = LookupTimeout

Step ==
    \/ BroadcastSent \/ RefreshFires \/ SweepFires
    \/ \E a \in Addresses : ItemNew(a) \/ ItemRemove(a)
    \/ AttemptEnds \/ Connects \/ DeadlineFires
    \/ PeerStarts \/ PeerStops \/ Tick

Next == Running /\ Step

Fairness ==
    /\ SF_vars(Running /\ Tick)
    /\ WF_vars(Running /\ BroadcastSent)
    /\ WF_vars(Running /\ RefreshFires)
    /\ WF_vars(Running /\ SweepFires)
    /\ \A a \in Addresses : WF_vars(Running /\ ItemRemove(a))
    /\ WF_vars(Running /\ AttemptTimesOut)
    /\ WF_vars(Running /\ DeadlineFires)

Spec == Init /\ [][Next]_vars /\ Fairness

-----------------------------------------------------------------------------
(* Properties                                                              *)

\* A peer that runs, and has been heard of since it started, is taken off the list
\* in one case only: so many of its broadcasts in a row were lost that they fill
\* its expiry, each as late as its jitter lets it be.  With the constants of
\* protocol.h it is the fourth lost one that can do it: protocol.h:62-63, which
\* says that four are survived, does not count the jitter.
OnlySilencePrunes ==
    [][Listed /\ up /\ heard /\ known' = {} =>
         Listens /\ (losses + 1) * (Interval + Jitter) > Expiry]_vars

\* A peer that has stopped for good leaves the list: TECHNICAL_ROUTE.md:275-278
\* says that "not heard of for kPeerExpiry means gone" for every backend.
DepartedPeerLeaves == ~up ~> (up \/ ~Listed \/ ~Running)

\* A search ends, though no address ever answers: with a connection, or with the
\* program, by one of two timers that hand over to each other.  (It is the first
\* announced address that is tried, and no other: peerAdded comes with that one.)
LookupEnds == Waiting ~> ~Waiting

\* What is listed is fresh, whatever keeps it so: a peer that nobody has announced
\* for longer than its expiry leaves with the next sweep.
ListedIsFresh == Listed => age <= Expiry + SweepEvery - sweepIn

\* The time a search has left: its deadline, and that of the one address a peer is
\* added with.
TimeLeft == timer + IF lookup = "searching" THEN ConnectTimeout ELSE 0

\* A search takes no longer than its two deadlines together: the time it has left
\* goes down with every tick, no announcement puts it up, and one that is over is
\* not begun again.
SearchIsBounded ==
    [][/\ ~Waiting => ~Waiting'
       /\ Waiting /\ Waiting' => TimeLeft' <= TimeLeft /\ (Tick => TimeLeft' < TimeLeft)]_vars
=============================================================================
