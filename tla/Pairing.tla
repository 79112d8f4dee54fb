------------------------------- MODULE Pairing -------------------------------
(***************************************************************************)
(* Pairing: a receiver's PingService (core/transfer/ping.cpp, as runServe()*)
(* of cli/main.cpp drives it) and the PingClient of each device that pairs *)
(* with it (pingclient.cpp, peerpinning.cpp, runPair()).  The two users    *)
(* read each other half of a code; the receiver saves its peer, answers    *)
(* 200, and only then does the sender ask its own user and save.           *)
(*                                                                         *)
(* A connection carries one ping.  The code both ends derive from it (two  *)
(* fingerprints and a nonce drawn for it) is identified with it.           *)
(***************************************************************************)
EXTENDS Naturals, FiniteSets

CONSTANTS
    Conns,          \* connections, one ping each
    Devices,        \* the devices that pair with this receiver
    MaxTries,       \* how often a device's client may start
    BlockingInput,  \* TRUE for the command line: the slot that asks the user
                    \* reads the answer itself, and the event loop stands still
    NoConn, NoDevice

ASSUME TriesAssumption == MaxTries \in Nat
ASSUME InputAssumption == BlockingInput \in BOOLEAN
ASSUME NullAssumption == NoConn \notin Conns /\ NoDevice \notin Devices

VARIABLES
    ping,       \* the pings, as the receiver sees them
    pending,    \* m_pending
    code,       \* m_code, which is asked for
    named,      \* m_peerDeviceId
    inputTimer, \* m_inputTimer is running
    trusted,    \* the devices the receiver has saved
    blocked,    \* its black list
    gone,       \* connections whose peer has hung up
    client,     \* the PingClient of each device, and runPair() around it
    confirmed,  \* pings whose code the receiver's user typed
    ghosts      \* pings saved when their peer had hung up

pendingVars == <<pending, code, named, inputTimer>>
historyVars == <<confirmed, ghosts>>
serviceVars == <<ping, pendingVars, trusted, blocked, historyVars>>
vars == <<serviceVars, gone, client>>

PingPhases == {"new", "sent", "body", "waiting", "answered", "closed"}
Replies == {"none", "Ok", "BadRequest", "Forbidden", "Conflict", "GatewayTimeout",
            "InternalError"}
ClientSteps == {"idle", "connecting", "waiting", "asking", "paired", "unsaved", "failed"}

Ping == [phase : PingPhases, peer : Devices \cup {NoDevice}, reply : Replies]
Client == [step : ClientSteps, conn : Conns \cup {NoConn}, tries : 0..MaxTries]

-----------------------------------------------------------------------------
(* The receiver                                                            *)

\* The event loop runs.
Running == ~(BlockingInput /\ pending # NoConn)

Respond(c, reply) ==
    ping' = [ping EXCEPT ![c].phase = "answered", ![c].reply = reply]

\* Leaving the pending slot: only m_pending and the timer are reset.
ReleasePending == pending' = NoConn /\ inputTimer' = FALSE /\ UNCHANGED <<code, named>>

\* handle(): one pairing may wait for the user, and the check is made when the
\* head has been read.  readBody() refuses with the same status.
HandlePing(c) ==
    /\ Running /\ ping[c].phase = "sent"
    /\ \/ pending = NoConn /\ ping' = [ping EXCEPT ![c].phase = "body"]
       \/ Respond(c, "Conflict")
    /\ UNCHANGED <<pendingVars, trusted, blocked, historyVars, gone, client>>

\* onRequestComplete() refuses: no valid ping, a blocked device, a changed
\* identity.  The trust store was reloaded for the last two.
PingRefused(c) ==
    /\ Running /\ ping[c].phase = "body"
    /\ \/ Respond(c, "BadRequest") /\ UNCHANGED blocked
       \/ Respond(c, "Forbidden") /\ blocked' \in SUBSET Devices
    /\ UNCHANGED <<pendingVars, trusted, historyVars, gone, client>>

\* Mutation: the code of a pairing that is still there is kept.
TakeSlotKeepsCode(c) ==
    /\ pending' = c /\ named' = ping[c].peer /\ inputTimer' = TRUE
    /\ code' = IF pending = NoConn THEN c ELSE code

\* Mutation: the window of a pairing never starts.
TakeSlotUntimed(c) ==
    /\ pending' = c /\ code' = c /\ named' = ping[c].peer /\ UNCHANGED inputTimer

\* The slot is taken without looking into it again: a pairing that held it
\* keeps waiting and is never answered.
TakeSlot(c) ==
    /\ pending' = c
    /\ code' = c
    /\ named' = ping[c].peer
    /\ inputTimer' = TRUE

\* onRequestComplete() asks the user: inputRequired is emitted.
PingAsks(c) ==
    /\ Running /\ ping[c].phase = "body"
    /\ blocked' \in SUBSET (Devices \ {ping[c].peer})
    /\ TakeSlot(c)
    /\ ping' = [ping EXCEPT ![c].phase = "waiting"]
    /\ UNCHANGED <<trusted, historyVars, gone, client>>

\* Mutation: 200 goes out before the trust store has been written.
AcceptAnyway ==
    /\ trusted' \in {trusted, trusted \cup {named}}
    /\ Respond(pending, "Ok")
    /\ confirmed' = confirmed \cup {pending}
    /\ ghosts' = ghosts \cup ({pending} \cap gone)

\* finish(Accepted): the peer is saved, and only then answered with 200.  A
\* store that cannot be written is rolled back, and the answer is 500.
Accept ==
    /\ \/ /\ trusted' = trusted \cup {named}
          /\ Respond(pending, "Ok")
          /\ ghosts' = ghosts \cup ({pending} \cap gone)
       \/ /\ Respond(pending, "InternalError")
          /\ UNCHANGED <<trusted, ghosts>>
    /\ confirmed' = confirmed \cup {pending}

\* Mutation: any answer of the user counts.
SubmitAnyInput(typed) ==
    /\ pending # NoConn
    /\ ReleasePending
    /\ trusted' = trusted \cup {named} /\ Respond(pending, "Ok")
    /\ confirmed' = IF typed = code THEN confirmed \cup {pending} ELSE confirmed
    /\ UNCHANGED <<blocked, gone, client, ghosts>>

\* submitInput(): what the user typed is the code of some ping, or of none.
SubmitInput(typed) ==
    /\ pending # NoConn
    /\ ReleasePending
    /\ IF typed = code
       THEN Accept
       ELSE Respond(pending, "Forbidden") /\ UNCHANGED <<trusted, historyVars>>
    /\ UNCHANGED <<blocked, gone, client>>

\* m_inputTimer, 120 s after the user was asked.
InputTimeout ==
    /\ Running /\ inputTimer /\ pending # NoConn
    /\ ReleasePending
    /\ Respond(pending, "GatewayTimeout")
    /\ UNCHANGED <<trusted, blocked, historyVars, gone, client>>

\* The connection reports that it has finished; if it is the one that waits,
\* the pairing is over.
Finished(c) ==
    /\ ping' = [ping EXCEPT ![c].phase = "closed"]
    /\ IF c = pending THEN ReleasePending ELSE UNCHANGED pendingVars
    /\ UNCHANGED <<trusted, blocked, historyVars, gone, client>>

\* The event loop notices that the peer has hung up.
PeerGone(c) ==
    /\ Running /\ c \in gone /\ ping[c].phase \in {"sent", "body", "waiting", "answered"}
    /\ Finished(c)

\* 30 s without a byte, or the answer is out.  The timer of a connection that
\* waits for the user is paused.
IdleOrFlushed(c) ==
    /\ Running /\ ping[c].phase \in {"sent", "body", "answered"}
    /\ Finished(c)

\* The process ends (at the end of the standard input, too, which the command
\* line meets inside the slot), and another one may be started.
Restart ==
    /\ ping' = [c \in Conns |-> IF ping[c].phase = "new" THEN ping[c]
                                ELSE [ping[c] EXCEPT !.phase = "closed"]]
    /\ pending' = NoConn /\ code' = NoConn /\ named' = NoDevice /\ inputTimer' = FALSE
    /\ blocked' \in SUBSET Devices
    /\ UNCHANGED <<trusted, historyVars, gone, client>>

-----------------------------------------------------------------------------
(* The sender                                                              *)

IsFresh(c) == ping[c].phase = "new"
NextConn == CHOOSE c \in Conns : IsFresh(c)

ClientBecomes(d, step) == client' = [client EXCEPT ![d].step = step]

\* runPair(), or tryNextAddress() after a failure: PingClient::start().
StartClient(d) ==
    /\ client[d].tries < MaxTries
    /\ client' = [client EXCEPT ![d] =
                    [step |-> "connecting", conn |-> NoConn, tries |-> @.tries + 1]]

Pair(d) ==
    /\ client[d].step \in {"idle", "paired", "unsaved", "failed"}
    /\ StartClient(d)
    /\ UNCHANGED <<serviceVars, gone>>

\* The handshake is done and the pin satisfied: peerAdopted shows the sender's
\* half, and the connector's timer is off.
PeerAdopted(d) ==
    /\ client[d].step = "connecting"
    /\ \E c \in Conns : IsFresh(c)
    /\ client' = [client EXCEPT ![d].step = "waiting", ![d].conn = NextConn]
    /\ ping' = [ping EXCEPT ![NextConn] = [phase |-> "sent", peer |-> d, reply |-> "none"]]
    /\ UNCHANGED <<pendingVars, trusted, blocked, historyVars, gone>>

\* Mutation: nothing is said when the last address has been tried.
AttemptFailsSilently(d) ==
    /\ client[d].step = "connecting"
    /\ StartClient(d)
    /\ UNCHANGED <<serviceVars, gone>>

\* Refused, not reached within 3 s, or the pin does not fit: the next address.
AttemptFails(d) ==
    /\ client[d].step = "connecting"
    /\ StartClient(d) \/ ClientBecomes(d, "failed")
    /\ UNCHANGED <<serviceVars, gone>>

\* onFinished() without an answer: 3 min have passed, or the connection broke,
\* or the user interrupted the program.
ClientGivesUp(d) ==
    /\ client[d].step = "waiting"
    /\ ClientBecomes(d, "failed")
    /\ gone' = gone \cup {client[d].conn}
    /\ UNCHANGED serviceVars

\* onFinished() with an answer.  Only 200 goes on to the user, and with --pin or
\* --yes nobody is asked and nothing saved.  The answer may not be readable, or
\* name another key.
ClientReadsAnswer(d) ==
    /\ client[d].step = "waiting" /\ ping[client[d].conn].reply # "none"
    /\ \E step \in {"asking", "unsaved", "failed"} :
         /\ ping[client[d].conn].reply # "Ok" => step = "failed"
         /\ ClientBecomes(d, step)
    /\ gone' = gone \cup {client[d].conn}
    /\ UNCHANGED serviceVars

\* runPair() reads the sender's user's answer.  It may come too late, or not at
\* all, and the trust store may not be written.
ClientTypes(d, typed) ==
    /\ client[d].step = "asking"
    /\ \/ typed = client[d].conn /\ ClientBecomes(d, "paired")
       \/ ClientBecomes(d, "failed")
    /\ UNCHANGED <<serviceVars, gone>>

-----------------------------------------------------------------------------
Init ==
    /\ ping = [c \in Conns |-> [phase |-> "new", peer |-> NoDevice, reply |-> "none"]]
    /\ pending = NoConn /\ code = NoConn /\ named = NoDevice /\ inputTimer = FALSE
    /\ trusted = {} /\ blocked \in SUBSET Devices
    /\ gone = {}
    /\ client = [d \in Devices |-> [step |-> "idle", conn |-> NoConn, tries |-> 0]]
    /\ confirmed = {} /\ ghosts = {}

Receiver ==
    \/ \E c \in Conns :
         HandlePing(c) \/ PingRefused(c) \/ PingAsks(c) \/ PeerGone(c) \/ IdleOrFlushed(c)
    \/ \E typed \in Conns \cup {NoConn} : SubmitInput(typed)
    \/ InputTimeout
    \/ Restart

Sender(d) ==
    \/ Pair(d) \/ PeerAdopted(d) \/ AttemptFails(d)
    \/ ClientGivesUp(d) \/ ClientReadsAnswer(d)
    \/ \E typed \in Conns \cup {NoConn} : ClientTypes(d, typed)

Next == Receiver \/ \E d \in Devices : Sender(d)

Spec == Init /\ [][Next]_vars

\* The event loop serves its timer; QNetworkAccessManager and the connector have
\* theirs.  No user is assumed to press a key.
FairSpec ==
    /\ Spec
    /\ WF_vars(InputTimeout)
    /\ \A d \in Devices : WF_vars(AttemptFails(d)) /\ WF_vars(ClientGivesUp(d))

-----------------------------------------------------------------------------
(* Properties                                                              *)

\* The types of the variables.
TypeOK ==
    /\ ping \in [Conns -> Ping]
    /\ pending \in Conns \cup {NoConn}
    /\ code \in Conns \cup {NoConn}
    /\ named \in Devices \cup {NoDevice}
    /\ inputTimer \in BOOLEAN
    /\ trusted \in SUBSET Devices
    /\ blocked \in SUBSET Devices
    /\ gone \in SUBSET Conns
    /\ client \in [Devices -> Client]
    /\ confirmed \in SUBSET Conns
    /\ ghosts \in SUBSET Conns

\* A pairing is never one-sided in this direction: a sender that has saved its
\* peer was saved by it first.  (The other direction cannot be excluded: the
\* answer may be lost, or the sender's user may find that the codes differ.)
SenderSavesSecond ==
    \A d \in Devices : client[d].step = "paired" => d \in trusted

\* The receiver saves a device only after its user typed the code of a ping that
\* came from that very device, although the slot may change hands between the
\* dialog and the answer.
SavedWasConfirmed ==
    \A d \in trusted : \E c \in confirmed : ping[c].peer = d

\* The user is asked for the code of the connection that will be answered and
\* of the device that will be saved; that connection is still open, and its
\* window runs.
PendingIsConsistent ==
    /\ pending # NoConn => /\ ping[pending].phase = "waiting"
                           /\ code = pending
                           /\ named = ping[pending].peer
                           /\ inputTimer
    /\ pending = NoConn => ~inputTimer

\* The slot of the pairing comes free without any help of its user or its peer.
PairingIsBounded == pending # NoConn ~> pending = NoConn

\* A device that is told to pair is told the outcome or asked for the code,
\* whatever addresses it was given and whatever the receiver does.
EveryPairEnds ==
    \A d \in Devices :
        client[d].step = "connecting" ~> client[d].step \notin {"connecting", "waiting"}

\* What pairing promises: a device that has saved its peer did so by a ping whose
\* code was typed on either side, after the receiver had saved it for that very
\* ping; whatever breaks, is late or is begun again in between.
From == [c \in Conns |-> ping[c].peer]
Granted == {c \in Conns : ping[c].reply = "Ok"}
Paired == [d \in Devices |-> IF client[d].step = "paired" THEN client[d].conn ELSE NoConn]
Promise == INSTANCE PairingContract WITH
    Pings <- Conns, NoPing <- NoConn,
    from <- From, typed <- confirmed, saved <- trusted,
    granted <- Granted, paired <- Paired
ImplementsPairingContract == Promise!PairingSpec

\* PingService asks no more of a connection than HttpServer keeps: a ping is
\* taken up once, answered once, and not after its connection has gone.
Life == INSTANCE ConnectionLife WITH
    life <- [c \in Conns |-> IF ping[c].phase = "sent" THEN "new" ELSE ping[c].phase]
KeepsToConnectionLife == Life!LifeSpec

\* Where the dialog blocks the event loop no second ping gets past the check of
\* the slot: only the one that holds it waits for the user.
OneDialogIfBlocking ==
    BlockingInput => \A c \in Conns : ping[c].phase = "waiting" => c = pending

-----------------------------------------------------------------------------
(* What the documentation says and the code does not do                    *)

\* main.cpp (runServe): a peer that gives up voids the pairing through the
\* connection's finished signal, "so no record is left of a pairing whose other
\* side has long gone".
NoGhostPairing == ghosts = {}
=============================================================================
