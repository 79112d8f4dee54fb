---------------------------- MODULE PairingProofs ----------------------------
(***************************************************************************)
(* Proofs about Pairing, for any number of connections, devices and        *)
(* attempts, whether or not the input blocks the event loop: the types,    *)
(* what is asked of the receiver's user, and who is saved before whom.     *)
(***************************************************************************)
EXTENDS Pairing, TLAPS

\* A ping that has been sent has a sender; one that has not was never answered.
PingsHaveSenders ==
    \A c \in Conns :
        IF ping[c].phase = "new" THEN ping[c].reply = "none" ELSE ping[c].peer \in Devices

\* What the receiver has confirmed or saved outlives the connection: the code was
\* typed for a ping that was sent, and 200 was answered to a device it has saved.
RepliesAreTrue ==
    /\ \A c \in confirmed : ping[c].phase # "new"
    /\ \A c \in Conns : ping[c].reply = "Ok" => ping[c].peer \in trusted

\* A client waits for the answer to its own ping, and its user is asked only after
\* the receiver has saved it.
ClientsKnow ==
    \A d \in Devices :
        /\ client[d].step = "waiting" =>
             /\ client[d].conn \in Conns
             /\ ping[client[d].conn].phase # "new" /\ ping[client[d].conn].peer = d
        /\ client[d].step \in {"asking", "paired"} => d \in trusted

IInv ==
    /\ TypeOK /\ PendingIsConsistent /\ SavedWasConfirmed
    /\ PingsHaveSenders /\ RepliesAreTrue /\ ClientsKnow

-----------------------------------------------------------------------------
(* Answers                                                                 *)

\* Answering a ping changes its phase and its reply and nothing else.
LEMMA RespondType ==
  ASSUME TypeOK, NEW c \in Conns, NEW reply \in Replies, Respond(c, reply)
  PROVE  /\ ping' \in [Conns -> Ping]
         /\ ping'[c].phase = "answered" /\ ping'[c].reply = reply
         /\ ping'[c].peer = ping[c].peer
         /\ \A k \in Conns \ {c} : ping'[k] = ping[k]
<1> DEFINE p == [ping[c] EXCEPT !.phase = "answered", !.reply = reply]
<1>1. ping[c] \in Ping
  BY DEF TypeOK
<1>2. p \in Ping /\ p.phase = "answered" /\ p.reply = reply /\ p.peer = ping[c].peer
  BY <1>1 DEF Ping, PingPhases
<1>3. ping' = [ping EXCEPT ![c] = p]
  BY DEF Respond
<1> HIDE DEF p
<1>4. QED
  BY <1>2, <1>3 DEF TypeOK

\* So does a change of its phase.
LEMMA PhaseType ==
  ASSUME TypeOK, NEW c \in Conns, NEW phase \in PingPhases,
         ping' = [ping EXCEPT ![c].phase = phase]
  PROVE  /\ ping' \in [Conns -> Ping]
         /\ ping'[c].phase = phase /\ ping'[c].reply = ping[c].reply
         /\ ping'[c].peer = ping[c].peer
         /\ \A k \in Conns \ {c} : ping'[k] = ping[k]
<1> DEFINE p == [ping[c] EXCEPT !.phase = phase]
<1>1. ping[c] \in Ping
  BY DEF TypeOK
<1>2. p \in Ping /\ p.phase = phase /\ p.reply = ping[c].reply /\ p.peer = ping[c].peer
  BY <1>1 DEF Ping
<1>3. ping' = [ping EXCEPT ![c] = p]
  OBVIOUS
<1> HIDE DEF p
<1>4. QED
  BY <1>2, <1>3 DEF TypeOK

\* A step of the receiver that answers or closes one ping that is not, or no
\* longer, asked for, and saves nobody.
LEMMA PingChangeKeeps ==
  ASSUME IInv, NEW c \in Conns,
         ping' \in [Conns -> Ping],
         ping[c].phase # "new", ping'[c].phase # "new",
         ping'[c].peer = ping[c].peer,
         ping'[c].reply = "Ok" => ping[c].reply = "Ok",
         \A k \in Conns \ {c} : ping'[k] = ping[k],
         PendingIsConsistent',
         pending' \in Conns \cup {NoConn}, code' \in Conns \cup {NoConn},
         named' \in Devices \cup {NoDevice}, inputTimer' \in BOOLEAN,
         blocked' \in SUBSET Devices,
         UNCHANGED <<trusted, confirmed, ghosts, gone, client>>
  PROVE  IInv'
<1> USE DEF IInv
<1>1. TypeOK'
  BY DEF TypeOK
<1>2. \A k \in Conns : /\ ping'[k].peer = ping[k].peer
                       /\ ping'[k].phase = "new" <=> ping[k].phase = "new"
                       /\ ping'[k].reply = "Ok" => ping[k].reply = "Ok"
                       /\ ping[k].phase = "new" => ping'[k] = ping[k]
  OBVIOUS
<1>3. SavedWasConfirmed'
  BY <1>2 DEF SavedWasConfirmed, TypeOK
<1>4. PingsHaveSenders' /\ RepliesAreTrue' /\ ClientsKnow'
  BY <1>2 DEF PingsHaveSenders, RepliesAreTrue, ClientsKnow, TypeOK
<1>5. QED
  BY <1>1, <1>3, <1>4

-----------------------------------------------------------------------------
(* The receiver's actions                                                  *)

\* The check of the slot, with the head.
LEMMA HandlePingKeeps ==
  ASSUME IInv, NEW c \in Conns, HandlePing(c)
  PROVE  IInv'
<1> USE DEF IInv
<1>1. /\ ping[c].phase = "sent"
      /\ UNCHANGED <<pending, code, named, inputTimer, trusted, blocked, confirmed, ghosts,
                     gone, client>>
  BY DEF HandlePing, pendingVars, historyVars
<1>2. /\ ping' \in [Conns -> Ping]
      /\ ping'[c].phase \in {"body", "answered"}
      /\ ping'[c].reply = "Ok" => ping[c].reply = "Ok"
      /\ ping'[c].peer = ping[c].peer
      /\ \A k \in Conns \ {c} : ping'[k] = ping[k]
  <2>1. CASE ping' = [ping EXCEPT ![c].phase = "body"]
    BY <2>1, PhaseType DEF PingPhases
  <2>2. CASE Respond(c, "Conflict")
    BY <2>2, RespondType DEF Replies
  <2>3. QED
    BY <2>1, <2>2 DEF HandlePing
<1>3. PendingIsConsistent'
  BY <1>1, <1>2 DEF PendingIsConsistent, TypeOK
<1>4. QED
  BY <1>1, <1>2, <1>3, PingChangeKeeps DEF TypeOK

\* A ping that is refused at its body.
LEMMA PingRefusedKeeps ==
  ASSUME IInv, NEW c \in Conns, PingRefused(c)
  PROVE  IInv'
<1> USE DEF IInv
<1>1. /\ ping[c].phase = "body" /\ blocked' \in SUBSET Devices
      /\ UNCHANGED <<pending, code, named, inputTimer, trusted, confirmed, ghosts, gone, client>>
  BY DEF PingRefused, pendingVars, historyVars, TypeOK
<1>2. /\ ping' \in [Conns -> Ping]
      /\ ping'[c].phase = "answered" /\ ping'[c].reply # "Ok"
      /\ ping'[c].peer = ping[c].peer
      /\ \A k \in Conns \ {c} : ping'[k] = ping[k]
  <2>1. CASE Respond(c, "BadRequest")
    BY <2>1, RespondType DEF Replies
  <2>2. CASE Respond(c, "Forbidden")
    BY <2>2, RespondType DEF Replies
  <2>3. QED
    BY <2>1, <2>2 DEF PingRefused
<1>3. PendingIsConsistent'
  BY <1>1, <1>2 DEF PendingIsConsistent, TypeOK
<1>4. QED
  BY <1>1, <1>2, <1>3, PingChangeKeeps DEF TypeOK

\* A ping takes the slot, from nobody or from another.
LEMMA PingAsksKeeps ==
  ASSUME IInv, NEW c \in Conns, PingAsks(c)
  PROVE  IInv'
<1> USE DEF IInv
<1>1. /\ ping[c].phase = "body" /\ blocked' \in SUBSET Devices
      /\ pending' = c /\ code' = c /\ named' = ping[c].peer /\ inputTimer' = TRUE
      /\ ping' = [ping EXCEPT ![c].phase = "waiting"]
      /\ UNCHANGED <<trusted, confirmed, ghosts, gone, client>>
  BY DEF PingAsks, TakeSlot, historyVars
<1>2. /\ ping' \in [Conns -> Ping]
      /\ ping'[c].phase = "waiting" /\ ping'[c].reply = ping[c].reply
      /\ ping'[c].peer = ping[c].peer
      /\ \A k \in Conns \ {c} : ping'[k] = ping[k]
  BY <1>1, PhaseType DEF PingPhases
<1>3. PendingIsConsistent'
  BY <1>1, <1>2, NullAssumption DEF PendingIsConsistent
<1>4. named' \in Devices
  BY <1>1 DEF PingsHaveSenders
<1>5. QED
  BY <1>1, <1>2, <1>3, <1>4, PingChangeKeeps

\* The user's answer, right or wrong: the slot is left, and a device is saved
\* whose code was typed.
LEMMA SubmitInputKeeps ==
  ASSUME IInv, NEW typed \in Conns \cup {NoConn}, SubmitInput(typed)
  PROVE  IInv'
<1> USE DEF IInv
<1>1. /\ pending # NoConn /\ pending' = NoConn /\ inputTimer' = FALSE
      /\ UNCHANGED <<code, named, blocked, gone, client>>
  BY DEF SubmitInput, ReleasePending
<1>2. /\ pending \in Conns /\ ping[pending].phase = "waiting" /\ named = ping[pending].peer
      /\ named \in Devices
  BY <1>1 DEF PendingIsConsistent, PingsHaveSenders, TypeOK
<1>3. PendingIsConsistent'
  BY <1>1 DEF PendingIsConsistent
<1>4. CASE Respond(pending, "Forbidden") /\ UNCHANGED <<trusted, confirmed, ghosts>>
  BY <1>1, <1>2, <1>3, <1>4, RespondType, PingChangeKeeps DEF Replies, TypeOK
<1>5. CASE Accept
  <2>1. confirmed' = confirmed \cup {pending}
    BY <1>5 DEF Accept
  <2>2. \/ /\ trusted' = trusted \cup {named} /\ Respond(pending, "Ok")
           /\ ghosts' = ghosts \cup ({pending} \cap gone)
        \/ Respond(pending, "InternalError") /\ UNCHANGED <<trusted, ghosts>>
    BY <1>5 DEF Accept
  <2>3. /\ ping' \in [Conns -> Ping]
        /\ ping'[pending].phase = "answered"
        /\ ping'[pending].peer = named
        /\ \A k \in Conns \ {pending} : ping'[k] = ping[k]
        /\ ping'[pending].reply = "Ok" => named \in trusted'
    <3>1. CASE Respond(pending, "Ok") /\ trusted' = trusted \cup {named}
      BY <1>2, <3>1, RespondType DEF Replies
    <3>2. CASE Respond(pending, "InternalError")
      BY <1>2, <3>2, RespondType DEF Replies
    <3>3. QED
      BY <2>2, <3>1, <3>2
  <2>4. /\ trusted \subseteq trusted' /\ trusted' \subseteq trusted \cup {named}
        /\ ghosts' \subseteq Conns
    BY <1>2, <2>2 DEF TypeOK
  <2>5. TypeOK'
    BY <1>1, <1>2, <2>1, <2>3, <2>4 DEF TypeOK
  <2>6. \A k \in Conns : /\ ping'[k].peer = ping[k].peer
                         /\ ping'[k].phase = "new" <=> ping[k].phase = "new"
    BY <1>2, <2>3
  <2>7. SavedWasConfirmed'
    BY <1>2, <2>1, <2>4, <2>6 DEF SavedWasConfirmed, TypeOK
  <2>8. PingsHaveSenders'
    BY <1>2, <2>3 DEF PingsHaveSenders
  <2>9. RepliesAreTrue'
    BY <1>2, <2>1, <2>3, <2>4, <2>6 DEF RepliesAreTrue, TypeOK
  <2>10. ClientsKnow'
    BY <1>1, <2>4, <2>6 DEF ClientsKnow
  <2>11. QED
    BY <1>3, <2>5, <2>7, <2>8, <2>9, <2>10
<1>6. QED
  BY <1>4, <1>5 DEF SubmitInput, historyVars

\* The window of the user ends.
LEMMA InputTimeoutKeeps ==
  ASSUME IInv, InputTimeout
  PROVE  IInv'
<1> USE DEF IInv
<1>1. /\ pending # NoConn /\ pending' = NoConn /\ inputTimer' = FALSE
      /\ Respond(pending, "GatewayTimeout")
      /\ UNCHANGED <<code, named, trusted, blocked, confirmed, ghosts, gone, client>>
  BY DEF InputTimeout, ReleasePending, historyVars
<1>2. pending \in Conns /\ ping[pending].phase = "waiting"
  BY <1>1 DEF PendingIsConsistent, TypeOK
<1>3. PendingIsConsistent'
  BY <1>1 DEF PendingIsConsistent
<1>4. QED
  BY <1>1, <1>2, <1>3, RespondType, PingChangeKeeps DEF Replies, TypeOK

\* A connection ends; if it is the one that waits, the slot is left.
LEMMA FinishedKeeps ==
  ASSUME IInv, NEW c \in Conns, ping[c].phase # "new", Finished(c)
  PROVE  IInv'
<1> USE DEF IInv
<1>1. /\ ping' = [ping EXCEPT ![c].phase = "closed"]
      /\ IF c = pending THEN pending' = NoConn /\ inputTimer' = FALSE
                        ELSE UNCHANGED <<pending, inputTimer>>
      /\ UNCHANGED <<code, named, trusted, blocked, confirmed, ghosts, gone, client>>
  BY DEF Finished, ReleasePending, pendingVars, historyVars
<1>2. /\ ping' \in [Conns -> Ping]
      /\ ping'[c].phase = "closed" /\ ping'[c].reply = ping[c].reply
      /\ ping'[c].peer = ping[c].peer
      /\ \A k \in Conns \ {c} : ping'[k] = ping[k]
  BY <1>1, PhaseType DEF PingPhases
<1>3. PendingIsConsistent'
  BY <1>1, <1>2 DEF PendingIsConsistent, TypeOK
<1>4. QED
  BY <1>1, <1>2, <1>3, PingChangeKeeps DEF TypeOK

\* The process ends: every connection with it, and nothing that was saved.
LEMMA RestartKeeps ==
  ASSUME IInv, Restart
  PROVE  IInv'
<1> USE DEF IInv
<1>1. /\ pending' = NoConn /\ code' = NoConn /\ named' = NoDevice /\ inputTimer' = FALSE
      /\ blocked' \in SUBSET Devices
      /\ UNCHANGED <<trusted, confirmed, ghosts, gone, client>>
  BY DEF Restart, historyVars
<1>2. ASSUME NEW c \in Conns
      PROVE  LET q == [ping[c] EXCEPT !.phase = "closed"] IN
             /\ q \in Ping /\ q.phase = "closed"
             /\ q.peer = ping[c].peer /\ q.reply = ping[c].reply
  BY DEF TypeOK, Ping, PingPhases
<1>3. ping' = [c \in Conns |-> IF ping[c].phase = "new" THEN ping[c]
                               ELSE [ping[c] EXCEPT !.phase = "closed"]]
  BY DEF Restart
<1>4. /\ ping' \in [Conns -> Ping]
      /\ \A c \in Conns : /\ ping'[c].peer = ping[c].peer
                          /\ ping'[c].reply = ping[c].reply
                          /\ ping'[c].phase = "new" <=> ping[c].phase = "new"
  BY <1>2, <1>3 DEF TypeOK
<1>5. TypeOK'
  BY <1>1, <1>4 DEF TypeOK
<1>6. PendingIsConsistent'
  BY <1>1 DEF PendingIsConsistent
<1>7. SavedWasConfirmed' /\ PingsHaveSenders' /\ RepliesAreTrue' /\ ClientsKnow'
  BY <1>1, <1>4 DEF SavedWasConfirmed, PingsHaveSenders, RepliesAreTrue, ClientsKnow, TypeOK
<1>8. QED
  BY <1>5, <1>6, <1>7

-----------------------------------------------------------------------------
(* The sender's actions                                                    *)

\* A device's client moves to a step that asks nothing of the receiver.
LEMMA ClientMoveKeeps ==
  ASSUME IInv, NEW d \in Devices, NEW cl \in Client,
         client' = [client EXCEPT ![d] = cl],
         \/ cl.step \in {"connecting", "unsaved", "failed"}
         \/ cl.step \in {"asking", "paired"} /\ d \in trusted,
         gone' \in SUBSET Conns,
         UNCHANGED <<ping, pending, code, named, inputTimer, trusted, blocked, confirmed, ghosts>>
  PROVE  IInv'
<1> USE DEF IInv
<1>1. /\ client' \in [Devices -> Client]
      /\ \A e \in Devices : client'[e] = IF e = d THEN cl ELSE client[e]
  BY DEF TypeOK
<1>2. TypeOK'
  BY <1>1 DEF TypeOK
<1>3. PendingIsConsistent' /\ SavedWasConfirmed' /\ PingsHaveSenders' /\ RepliesAreTrue'
  BY DEF PendingIsConsistent, SavedWasConfirmed, PingsHaveSenders, RepliesAreTrue
<1>4. ClientsKnow'
  BY <1>1 DEF ClientsKnow
<1>5. QED
  BY <1>2, <1>3, <1>4

\* Each action of a client but the one that sends the ping.
LEMMA ClientKeeps ==
  ASSUME IInv, NEW d \in Devices,
         \/ Pair(d) \/ AttemptFails(d) \/ ClientGivesUp(d) \/ ClientReadsAnswer(d)
         \/ \E typed \in Conns \cup {NoConn} : ClientTypes(d, typed)
  PROVE  IInv'
<1>1. /\ client \in [Devices -> Client] /\ client[d] \in Client /\ gone \in SUBSET Conns
      /\ client[d].step = "waiting" => client[d].conn \in Conns
  BY DEF IInv, TypeOK, ClientsKnow
<1>2. ASSUME NEW step \in ClientSteps, ClientBecomes(d, step), UNCHANGED serviceVars,
             \/ step \in {"unsaved", "failed"}
             \/ step \in {"asking", "paired"} /\ d \in trusted,
             gone' \in SUBSET Conns
      PROVE  IInv'
  <2> DEFINE cl == [client[d] EXCEPT !.step = step]
  <2>1. cl \in Client /\ cl.step = step
    BY <1>1 DEF Client
  <2>2. client' = [client EXCEPT ![d] = cl]
    BY <1>2 DEF ClientBecomes
  <2> HIDE DEF cl
  <2>3. QED
    BY <1>2, <2>1, <2>2, ClientMoveKeeps DEF serviceVars, pendingVars, historyVars
<1>3. ASSUME StartClient(d), UNCHANGED <<serviceVars, gone>>
      PROVE  IInv'
  <2> DEFINE n == client[d].tries + 1
             cl == [step |-> "connecting", conn |-> NoConn, tries |-> n]
  <2>1. n \in 0..MaxTries
    BY <1>1, <1>3, TriesAssumption DEF StartClient, Client
  <2>2. client' = [client EXCEPT ![d] = cl]
    BY <1>3 DEF StartClient
  <2> HIDE DEF n
  <2>3. cl \in Client /\ cl.step = "connecting"
    BY <2>1 DEF Client, ClientSteps
  <2> HIDE DEF cl
  <2>4. gone' \in SUBSET Conns
    BY <1>1, <1>3
  <2>5. UNCHANGED <<ping, pending, code, named, inputTimer, trusted, blocked, confirmed, ghosts>>
    BY <1>3 DEF serviceVars, pendingVars, historyVars
  <2>6. QED
    BY <2>2, <2>3, <2>4, <2>5, ClientMoveKeeps
<1>4. CASE Pair(d)
  BY <1>3, <1>4 DEF Pair
<1>5. CASE AttemptFails(d)
  BY <1>1, <1>2, <1>3, <1>5 DEF AttemptFails, ClientSteps
<1>6. CASE ClientGivesUp(d)
  BY <1>1, <1>2, <1>6 DEF ClientGivesUp, ClientSteps
<1>7. CASE ClientReadsAnswer(d)
  <2>1. client[d].step = "waiting" /\ UNCHANGED serviceVars /\ gone' \in SUBSET Conns
    BY <1>1, <1>7 DEF ClientReadsAnswer
  <2>2. PICK step \in {"asking", "unsaved", "failed"} :
          /\ ping[client[d].conn].reply # "Ok" => step = "failed"
          /\ ClientBecomes(d, step)
    BY <1>7 DEF ClientReadsAnswer
  <2>3. step = "asking" => d \in trusted
    BY <1>1, <2>1, <2>2 DEF IInv, ClientsKnow, RepliesAreTrue
  <2>4. QED
    BY <1>2, <2>1, <2>2, <2>3 DEF ClientSteps
<1>8. CASE \E typed \in Conns \cup {NoConn} : ClientTypes(d, typed)
  <2>1. client[d].step = "asking" /\ d \in trusted
    BY <1>8 DEF IInv, ClientTypes, ClientsKnow
  <2>2. QED
    BY <1>1, <1>2, <1>8, <2>1 DEF ClientTypes, ClientSteps
<1>9. QED
  BY <1>4, <1>5, <1>6, <1>7, <1>8

\* The ping goes out on a connection nobody has used.
LEMMA PeerAdoptedKeeps ==
  ASSUME IInv, NEW d \in Devices, PeerAdopted(d)
  PROVE  IInv'
<1> DEFINE k == NextConn
           new == [phase |-> "sent", peer |-> d, reply |-> "none"]
           cl == [client[d] EXCEPT !.step = "waiting", !.conn = k]
<1> USE DEF IInv
<1>1. k \in Conns /\ ping[k].phase = "new"
  BY DEF PeerAdopted, NextConn, IsFresh
<1>2. /\ client' = [client EXCEPT ![d] = cl]
      /\ ping' = [ping EXCEPT ![k] = new]
      /\ UNCHANGED <<pending, code, named, inputTimer, trusted, blocked, confirmed, ghosts, gone>>
  BY DEF PeerAdopted, pendingVars, historyVars
<1> HIDE DEF k
<1>3. /\ new \in Ping /\ new.phase = "sent" /\ new.peer = d /\ new.reply = "none"
  BY DEF Ping, PingPhases, Replies
<1>4. cl \in Client /\ cl.step = "waiting" /\ cl.conn = k
  BY <1>1 DEF TypeOK, Client, ClientSteps
<1> HIDE DEF new, cl
<1>5. /\ ping' \in [Conns -> Ping] /\ client' \in [Devices -> Client]
      /\ ping'[k] = new /\ \A c \in Conns \ {k} : ping'[c] = ping[c]
      /\ client'[d] = cl /\ \A e \in Devices \ {d} : client'[e] = client[e]
  BY <1>1, <1>2, <1>3, <1>4 DEF TypeOK
<1>6. TypeOK'
  BY <1>2, <1>5 DEF TypeOK
<1>7. PendingIsConsistent'
  BY <1>1, <1>2, <1>5 DEF PendingIsConsistent, TypeOK
<1>8. SavedWasConfirmed'
  <2>1. k \notin confirmed
    BY <1>1 DEF RepliesAreTrue
  <2>2. QED
    BY <1>2, <1>5, <2>1 DEF SavedWasConfirmed, TypeOK
<1>9. PingsHaveSenders' /\ RepliesAreTrue'
  BY <1>1, <1>2, <1>3, <1>5 DEF PingsHaveSenders, RepliesAreTrue, TypeOK
<1>10. ClientsKnow'
  BY <1>1, <1>2, <1>3, <1>4, <1>5 DEF ClientsKnow
<1>11. QED
  BY <1>6, <1>7, <1>8, <1>9, <1>10

-----------------------------------------------------------------------------
\* The initial states have all of it.
LEMMA InitIsGood == Init => IInv
<1> SUFFICES ASSUME Init PROVE IInv
  OBVIOUS
<1>1. /\ [phase |-> "new", peer |-> NoDevice, reply |-> "none"] \in Ping
      /\ [step |-> "idle", conn |-> NoConn, tries |-> 0] \in Client
  BY TriesAssumption DEF Ping, PingPhases, Replies, Client, ClientSteps
<1>2. TypeOK
  BY <1>1 DEF Init, TypeOK
<1>3. PendingIsConsistent /\ SavedWasConfirmed
  BY DEF Init, PendingIsConsistent, SavedWasConfirmed
<1>4. PingsHaveSenders /\ RepliesAreTrue /\ ClientsKnow
  BY DEF Init, PingsHaveSenders, RepliesAreTrue, ClientsKnow
<1>5. QED
  BY <1>2, <1>3, <1>4 DEF IInv

\* All of it holds initially and is kept by every step.
LEMMA Inductive == Spec => []IInv
<1>1. Init => IInv
  BY InitIsGood
<1>2. IInv /\ [Next]_vars => IInv'
  <2> SUFFICES ASSUME IInv, [Next]_vars PROVE IInv'
    OBVIOUS
  <2>1. CASE UNCHANGED vars
    BY <2>1 DEF IInv, TypeOK, PendingIsConsistent, SavedWasConfirmed, PingsHaveSenders,
                RepliesAreTrue, ClientsKnow, vars, serviceVars, pendingVars, historyVars
  <2>2. ASSUME NEW c \in Conns,
               HandlePing(c) \/ PingRefused(c) \/ PingAsks(c) \/ PeerGone(c) \/ IdleOrFlushed(c)
        PROVE  IInv'
    <3>1. CASE PeerGone(c) \/ IdleOrFlushed(c)
      BY <3>1, FinishedKeeps DEF PeerGone, IdleOrFlushed
    <3>2. QED
      BY <2>2, <3>1, HandlePingKeeps, PingRefusedKeeps, PingAsksKeeps
  <2>3. CASE Receiver
    BY <2>2, <2>3, SubmitInputKeeps, InputTimeoutKeeps, RestartKeeps DEF Receiver
  <2>4. ASSUME NEW d \in Devices, Sender(d) PROVE IInv'
    BY <2>4, ClientKeeps, PeerAdoptedKeeps DEF Sender
  <2>5. QED
    BY <2>1, <2>3, <2>4 DEF Next
<1>3. QED
  BY <1>1, <1>2, PTL DEF Spec

\* The variables keep their types.
THEOREM TypeCorrect == Spec => []TypeOK
<1>1. IInv => TypeOK
  BY DEF IInv
<1>2. QED
  BY <1>1, Inductive, PTL

\* The user is always asked for the code of the connection that gets the answer
\* and of the device that gets saved, with the window running.
THEOREM SlotIsConsistent == Spec => []PendingIsConsistent
<1>1. IInv => PendingIsConsistent
  BY DEF IInv
<1>2. QED
  BY <1>1, Inductive, PTL

\* Nobody is saved whose own code was not typed.
THEOREM OnlyConfirmedAreSaved == Spec => []SavedWasConfirmed
<1>1. IInv => SavedWasConfirmed
  BY DEF IInv
<1>2. QED
  BY <1>1, Inductive, PTL

\* A sender saves its peer only after its peer has saved it.
THEOREM SendersSaveSecond == Spec => []SenderSavesSecond
<1>1. IInv => SenderSavesSecond
  BY DEF IInv, ClientsKnow, SenderSavesSecond
<1>2. QED
  BY <1>1, Inductive, PTL

-----------------------------------------------------------------------------
(* How a ping lives                                                        *)

\* Nothing is decided about a ping before it is answered; one that was not sent
\* has no sender.
UndecidedUntilAnswered ==
    \A c \in Conns :
        /\ ping[c].phase \in {"new", "sent", "body", "waiting"} =>
             ping[c].reply = "none" /\ c \notin confirmed
        /\ ping[c].phase = "new" => ping[c].peer = NoDevice

\* A device whose user is asked for a code, or has typed it, was granted the very
\* ping that the code belongs to.
AskedByGrant ==
    \A d \in Devices :
        client[d].step \in {"asking", "paired"} =>
            /\ client[d].conn \in Conns
            /\ ping[client[d].conn].peer = d /\ ping[client[d].conn].reply = "Ok"

PInv == IInv /\ UndecidedUntilAnswered /\ AskedByGrant /\ OneDialogIfBlocking

Open == {"sent", "body", "waiting"}
Moves ==
    {<<"sent", "body">>, <<"body", "waiting">>}
    \cup (Open \X {"answered"}) \cup ((Open \cup {"answered", "closed"}) \X {"closed"})

\* What a step of the receiver may do to a ping: leave it, take it up, ask, answer
\* it if it is open, close it.
Moved(c) ==
    /\ ping'[c].peer = ping[c].peer
    /\ <<ping[c].phase, ping'[c].phase>> \in Moves
    /\ ping'[c].phase # "answered" => ping'[c].reply = ping[c].reply
    /\ ping'[c].phase = "waiting" => pending' = c

\* A step of the receiver moves one ping, or closes them all.
PingsMoved == \A c \in Conns : ping'[c] = ping[c] \/ Moved(c)

\* A step of the receiver that types no code saves and grants nothing.
NothingDecided ==
    /\ UNCHANGED <<confirmed, trusted>>
    /\ \A c \in Conns : ping'[c].reply = "Ok" <=> ping[c].reply = "Ok"

\* One that does is a step of the contract.
Decided(c) ==
    /\ c \in Conns /\ ping[c].phase = "waiting"
    /\ confirmed' = confirmed \cup {c}
    /\ \A k \in Conns \ {c} : ping'[k] = ping[k]
    /\ ping'[c].phase = "answered" /\ ping'[c].peer = ping[c].peer
    /\ \/ ping'[c].reply = "Ok" /\ trusted' = trusted \cup {ping[c].peer}
       \/ ping'[c].reply # "Ok" /\ UNCHANGED trusted

\* Who holds the slot of an event loop that stands still keeps it until it is
\* answered or closed.
SlotIsKept ==
    BlockingInput /\ pending # NoConn =>
        pending' = pending \/ ping'[pending].phase # "waiting"

ReceiverStep ==
    /\ PingsMoved /\ SlotIsKept
    /\ UNCHANGED client
    /\ NothingDecided \/ \E c \in Conns : Decided(c)

\* The check of the slot.
LEMMA HandlePingMoves ==
  ASSUME PInv, NEW c \in Conns, HandlePing(c)
  PROVE  ReceiverStep
<1>1. /\ ping[c].phase = "sent" /\ Running
      /\ UNCHANGED <<pending, trusted, confirmed, client>>
  BY DEF HandlePing, pendingVars, historyVars
<1>2. TypeOK /\ ping[c].reply = "none"
  BY <1>1 DEF PInv, IInv, UndecidedUntilAnswered
<1>3. /\ ping'[c].phase \in {"body", "answered"}
      /\ ping'[c].phase # "answered" => ping'[c].reply = ping[c].reply
      /\ ping'[c].reply # "Ok"
      /\ ping'[c].peer = ping[c].peer
      /\ \A k \in Conns \ {c} : ping'[k] = ping[k]
  <2>1. CASE ping' = [ping EXCEPT ![c].phase = "body"]
    BY <1>2, <2>1, PhaseType DEF PingPhases
  <2>2. CASE Respond(c, "Conflict")
    BY <1>2, <2>2, RespondType DEF Replies
  <2>3. QED
    BY <2>1, <2>2 DEF HandlePing
<1>4. Moved(c)
  BY <1>1, <1>3 DEF Moved, Moves, Open
<1>5. QED
  BY <1>1, <1>2, <1>3, <1>4 DEF ReceiverStep, SlotIsKept, Running, PingsMoved, NothingDecided

\* A refusal at the body.
LEMMA PingRefusedMoves ==
  ASSUME PInv, NEW c \in Conns, PingRefused(c)
  PROVE  ReceiverStep
<1>1. /\ ping[c].phase = "body" /\ Running
      /\ UNCHANGED <<pending, trusted, confirmed, client>>
  BY DEF PingRefused, pendingVars, historyVars
<1>2. TypeOK /\ ping[c].reply = "none"
  BY <1>1 DEF PInv, IInv, UndecidedUntilAnswered
<1>3. /\ ping'[c].phase = "answered" /\ ping'[c].reply # "Ok"
      /\ ping'[c].peer = ping[c].peer
      /\ \A k \in Conns \ {c} : ping'[k] = ping[k]
  <2>1. CASE Respond(c, "BadRequest")
    BY <1>2, <2>1, RespondType DEF Replies
  <2>2. CASE Respond(c, "Forbidden")
    BY <1>2, <2>2, RespondType DEF Replies
  <2>3. QED
    BY <2>1, <2>2 DEF PingRefused
<1>4. Moved(c)
  BY <1>1, <1>3 DEF Moved, Moves, Open
<1>5. QED
  BY <1>1, <1>2, <1>3, <1>4 DEF ReceiverStep, SlotIsKept, Running, PingsMoved, NothingDecided

\* The question to the user.
LEMMA PingAsksMoves ==
  ASSUME PInv, NEW c \in Conns, PingAsks(c)
  PROVE  ReceiverStep
<1>1. /\ ping[c].phase = "body" /\ Running /\ pending' = c
      /\ ping' = [ping EXCEPT ![c].phase = "waiting"]
      /\ UNCHANGED <<trusted, confirmed, client>>
  BY DEF PingAsks, TakeSlot, historyVars
<1>2. /\ ping'[c].phase = "waiting" /\ ping'[c].reply = ping[c].reply
      /\ ping'[c].peer = ping[c].peer
      /\ \A k \in Conns \ {c} : ping'[k] = ping[k]
  BY <1>1, PhaseType DEF PingPhases, PInv, IInv
<1>3. Moved(c)
  BY <1>1, <1>2 DEF Moved, Moves, Open
<1>4. QED
  BY <1>1, <1>2, <1>3 DEF ReceiverStep, SlotIsKept, Running, PingsMoved, NothingDecided

\* A connection that ends.
LEMMA FinishedMoves ==
  ASSUME PInv, NEW c \in Conns, ping[c].phase # "new", Finished(c)
  PROVE  ReceiverStep
<1>1. /\ ping' = [ping EXCEPT ![c].phase = "closed"]
      /\ UNCHANGED <<trusted, confirmed, client>>
  BY DEF Finished, historyVars
<1>2. /\ ping'[c].phase = "closed" /\ ping'[c].reply = ping[c].reply
      /\ ping'[c].peer = ping[c].peer
      /\ \A k \in Conns \ {c} : ping'[k] = ping[k]
  BY <1>1, PhaseType DEF PingPhases, PInv, IInv
<1>3. ping[c].phase \in PingPhases
  BY DEF PInv, IInv, TypeOK, Ping
<1>4. Moved(c)
  BY <1>2, <1>3 DEF Moved, Moves, Open, PingPhases
<1>5. SlotIsKept
  BY <1>2 DEF SlotIsKept, Finished, pendingVars
<1>6. QED
  BY <1>1, <1>2, <1>4, <1>5 DEF ReceiverStep, PingsMoved, NothingDecided

\* The user's answer.
LEMMA SubmitInputMoves ==
  ASSUME PInv, NEW typed \in Conns \cup {NoConn}, SubmitInput(typed)
  PROVE  ReceiverStep
<1>1. /\ pending \in Conns /\ ping[pending].phase = "waiting" /\ named = ping[pending].peer
      /\ pending # NoConn
      /\ ping[pending].reply = "none" /\ TypeOK
      /\ UNCHANGED client
  BY DEF SubmitInput, PInv, IInv, PendingIsConsistent, TypeOK, UndecidedUntilAnswered
<1>2. ASSUME NEW reply \in Replies, Respond(pending, reply)
      PROVE  /\ PingsMoved /\ SlotIsKept /\ ping'[pending].reply = reply
             /\ ping'[pending].phase = "answered"
             /\ ping'[pending].peer = ping[pending].peer
             /\ \A k \in Conns \ {pending} : ping'[k] = ping[k]
  <2>1. /\ ping'[pending].phase = "answered" /\ ping'[pending].reply = reply
        /\ ping'[pending].peer = ping[pending].peer
        /\ \A k \in Conns \ {pending} : ping'[k] = ping[k]
    BY <1>1, <1>2, RespondType
  <2>2. Moved(pending)
    BY <1>1, <2>1 DEF Moved, Moves, Open
  <2>3. QED
    BY <2>1, <2>2 DEF PingsMoved, SlotIsKept
<1>3. CASE Respond(pending, "Forbidden") /\ UNCHANGED <<trusted, confirmed>>
  BY <1>1, <1>2, <1>3 DEF ReceiverStep, SlotIsKept, Running, NothingDecided, Replies
<1>4. CASE Accept
  <2>1. \/ Respond(pending, "Ok") /\ trusted' = trusted \cup {named}
        \/ Respond(pending, "InternalError") /\ UNCHANGED trusted
    BY <1>4 DEF Accept
  <2>2. confirmed' = confirmed \cup {pending}
    BY <1>4 DEF Accept
  <2>3. PingsMoved /\ SlotIsKept /\ Decided(pending)
    BY <1>1, <1>2, <2>1, <2>2 DEF Replies, Decided
  <2>4. QED
    BY <1>1, <2>3 DEF ReceiverStep
<1>5. QED
  BY <1>3, <1>4 DEF SubmitInput, historyVars

\* The end of the user's window.
LEMMA InputTimeoutMoves ==
  ASSUME PInv, InputTimeout
  PROVE  ReceiverStep
<1>1. /\ pending \in Conns /\ ping[pending].phase = "waiting" /\ Running
      /\ ping[pending].reply = "none" /\ TypeOK
      /\ Respond(pending, "GatewayTimeout")
      /\ UNCHANGED <<trusted, confirmed, client>>
  BY DEF InputTimeout, PInv, IInv, PendingIsConsistent, TypeOK, UndecidedUntilAnswered,
         historyVars
<1>2. /\ ping'[pending].phase = "answered" /\ ping'[pending].reply = "GatewayTimeout"
      /\ ping'[pending].peer = ping[pending].peer
      /\ \A k \in Conns \ {pending} : ping'[k] = ping[k]
  BY <1>1, RespondType DEF Replies
<1>3. Moved(pending)
  BY <1>1, <1>2 DEF Moved, Moves, Open
<1>4. QED
  BY <1>1, <1>2, <1>3 DEF ReceiverStep, SlotIsKept, Running, PingsMoved, NothingDecided

\* The end of the process.
LEMMA RestartMoves ==
  ASSUME PInv, Restart
  PROVE  ReceiverStep
<1>1. UNCHANGED <<trusted, confirmed, client>>
  BY DEF Restart, historyVars
<1>2. ASSUME NEW c \in Conns, ping'[c] # ping[c]
      PROVE  Moved(c) /\ ping'[c].reply = ping[c].reply
  <2>1. ping[c] \in Ping
    BY DEF PInv, IInv, TypeOK
  <2>2. ping[c].phase # "new" /\ ping'[c] = [ping[c] EXCEPT !.phase = "closed"]
    BY <1>2 DEF Restart
  <2>3. /\ ping'[c].phase = "closed"
        /\ ping'[c].reply = ping[c].reply /\ ping'[c].peer = ping[c].peer
    BY <2>1, <2>2 DEF Ping
  <2>4. QED
    BY <2>1, <2>2, <2>3 DEF Moved, Moves, Open, Ping, PingPhases
<1>3. SlotIsKept
  <2> SUFFICES ASSUME pending # NoConn PROVE ping'[pending].phase # "waiting"
    BY DEF SlotIsKept
  <2>1. pending \in Conns /\ ping[pending] \in Ping /\ ping[pending].phase = "waiting"
    BY DEF PInv, IInv, TypeOK, PendingIsConsistent
  <2>2. ping'[pending] = [ping[pending] EXCEPT !.phase = "closed"]
    BY <2>1 DEF Restart
  <2>3. QED
    BY <2>1, <2>2 DEF Ping
<1>4. QED
  BY <1>1, <1>2, <1>3 DEF ReceiverStep, PingsMoved, NothingDecided

\* Every step of the receiver.
LEMMA ReceiverMoves ==
  ASSUME PInv, Receiver
  PROVE  ReceiverStep
<1>1. ASSUME NEW c \in Conns, PeerGone(c) \/ IdleOrFlushed(c)
      PROVE  ReceiverStep
  BY <1>1, FinishedMoves DEF PeerGone, IdleOrFlushed
<1>2. QED
  BY <1>1, HandlePingMoves, PingRefusedMoves, PingAsksMoves, SubmitInputMoves,
     InputTimeoutMoves, RestartMoves DEF Receiver

-----------------------------------------------------------------------------
(* The invariant                                                           *)

\* A step of the receiver keeps it.
LEMMA ReceiverStepKeeps ==
  ASSUME PInv, IInv', ReceiverStep
  PROVE  PInv'
<1>1. /\ ping \in [Conns -> Ping] /\ ping' \in [Conns -> Ping]
      /\ PingsMoved /\ SlotIsKept /\ UNCHANGED client
  BY DEF PInv, IInv, TypeOK, ReceiverStep
<1>2. \A c \in Conns : ping'[c].peer = ping[c].peer
  BY <1>1 DEF PingsMoved, Moved
<1>3. /\ confirmed \subseteq confirmed'
      /\ \A c \in Conns : ping[c].reply = "Ok" => ping'[c].reply = "Ok"
  BY DEF ReceiverStep, NothingDecided, Decided, PInv, UndecidedUntilAnswered
<1>4. UndecidedUntilAnswered'
  <2> SUFFICES ASSUME NEW c \in Conns
               PROVE  /\ ping'[c].phase \in {"new", "sent", "body", "waiting"} =>
                           ping'[c].reply = "none" /\ c \notin confirmed'
                      /\ ping'[c].phase = "new" => ping'[c].peer = NoDevice
    BY DEF UndecidedUntilAnswered
  <2>1. CASE ping'[c] = ping[c]
    <3>1. ~Decided(c)
      BY <2>1 DEF Decided
    <3>2. QED
      BY <2>1, <3>1 DEF ReceiverStep, NothingDecided, Decided, PInv, UndecidedUntilAnswered
  <2>2. CASE Moved(c)
    BY <2>2 DEF ReceiverStep, NothingDecided, Decided, PInv, UndecidedUntilAnswered, Moved,
                Moves, Open
  <2>3. QED
    BY <1>1, <2>1, <2>2 DEF PingsMoved
<1>5. AskedByGrant'
  BY <1>1, <1>2, <1>3 DEF PInv, AskedByGrant
<1>6. OneDialogIfBlocking'
  <2> SUFFICES ASSUME BlockingInput, NEW c \in Conns, ping'[c].phase = "waiting"
               PROVE  c = pending'
    BY DEF OneDialogIfBlocking
  <2>1. CASE Moved(c)
    BY <2>1 DEF Moved
  <2>2. CASE ping'[c] = ping[c]
    <3>1. c = pending /\ pending # NoConn
      BY <2>2, NullAssumption DEF PInv, OneDialogIfBlocking
    <3>2. QED
      BY <1>1, <3>1 DEF SlotIsKept
  <2>3. QED
    BY <1>1, <2>1, <2>2 DEF PingsMoved
<1>7. QED
  BY <1>4, <1>5, <1>6 DEF PInv

\* What a step of the client of a device does, but for the one that sends a ping:
\* its user is asked only by a ping that was granted, and saves only when asked.
ClientStep(d) ==
    /\ UNCHANGED <<ping, pending, confirmed, trusted>>
    /\ \E cl \in Client :
         /\ client' = [client EXCEPT ![d] = cl]
         /\ cl.step # "waiting"
         /\ cl.step = "asking" =>
              /\ client[d].step = "waiting" /\ cl.conn = client[d].conn
              /\ ping[cl.conn].reply = "Ok"
         /\ cl.step = "paired" => client[d].step = "asking" /\ cl.conn = client[d].conn
         /\ client[d].step = "paired" => cl.step = "connecting"

\* Each of them.
LEMMA ClientMoves ==
  ASSUME PInv, NEW d \in Devices,
         \/ Pair(d) \/ AttemptFails(d) \/ ClientGivesUp(d) \/ ClientReadsAnswer(d)
         \/ \E typed \in Conns \cup {NoConn} : ClientTypes(d, typed)
  PROVE  ClientStep(d)
<1>1. client[d] \in Client
  BY DEF PInv, IInv, TypeOK
<1>2. ASSUME NEW step \in ClientSteps \ {"waiting"}, ClientBecomes(d, step), UNCHANGED serviceVars,
             client[d].step # "paired",
             step = "asking" =>
               client[d].step = "waiting" /\ ping[client[d].conn].reply = "Ok",
             step = "paired" => client[d].step = "asking"
      PROVE  ClientStep(d)
  <2> DEFINE cl == [client[d] EXCEPT !.step = step]
  <2>1. cl \in Client /\ cl.step = step /\ cl.conn = client[d].conn
    BY <1>1 DEF Client
  <2>2. client' = [client EXCEPT ![d] = cl]
    BY <1>2 DEF ClientBecomes
  <2> HIDE DEF cl
  <2>3. QED
    BY <1>2, <2>1, <2>2 DEF ClientStep, serviceVars, pendingVars, historyVars
<1>3. ASSUME StartClient(d), UNCHANGED serviceVars
      PROVE  ClientStep(d)
  <2> DEFINE n == client[d].tries + 1
             cl == [step |-> "connecting", conn |-> NoConn, tries |-> n]
  <2>1. n \in 0..MaxTries
    BY <1>1, <1>3, TriesAssumption DEF StartClient, Client
  <2>2. client' = [client EXCEPT ![d] = cl]
    BY <1>3 DEF StartClient
  <2> HIDE DEF n
  <2>3. cl \in Client /\ cl.step = "connecting"
    BY <2>1 DEF Client, ClientSteps
  <2> HIDE DEF cl
  <2>4. QED
    BY <1>3, <2>2, <2>3 DEF ClientStep, serviceVars, pendingVars, historyVars
<1>4. CASE Pair(d)
  BY <1>3, <1>4 DEF Pair
<1>5. CASE AttemptFails(d)
  BY <1>2, <1>3, <1>5 DEF AttemptFails, ClientSteps
<1>6. CASE ClientGivesUp(d)
  BY <1>2, <1>6 DEF ClientGivesUp, ClientSteps
<1>7. CASE ClientReadsAnswer(d)
  <2>1. PICK step \in {"asking", "unsaved", "failed"} :
          /\ ping[client[d].conn].reply # "Ok" => step = "failed"
          /\ ClientBecomes(d, step)
    BY <1>7 DEF ClientReadsAnswer
  <2>2. client[d].step = "waiting" /\ UNCHANGED serviceVars
    BY <1>7 DEF ClientReadsAnswer
  <2>3. QED
    BY <1>2, <2>1, <2>2 DEF ClientSteps
<1>8. CASE \E typed \in Conns \cup {NoConn} : ClientTypes(d, typed)
  BY <1>2, <1>8 DEF ClientTypes, ClientSteps
<1>9. QED
  BY <1>4, <1>5, <1>6, <1>7, <1>8

\* They keep the invariant.
LEMMA ClientStepKeeps ==
  ASSUME PInv, IInv', NEW d \in Devices, ClientStep(d)
  PROVE  PInv'
<1>1. UNCHANGED <<ping, pending, confirmed>>
  BY DEF ClientStep
<1>2. UndecidedUntilAnswered' /\ OneDialogIfBlocking'
  BY <1>1 DEF PInv, UndecidedUntilAnswered, OneDialogIfBlocking
<1>3. AskedByGrant'
  <2>1. PICK cl \in Client :
          /\ client' = [client EXCEPT ![d] = cl]
          /\ cl.step = "asking" =>
               /\ client[d].step = "waiting" /\ cl.conn = client[d].conn
               /\ ping[cl.conn].reply = "Ok"
          /\ cl.step = "paired" => client[d].step = "asking" /\ cl.conn = client[d].conn
    BY DEF ClientStep
  <2>2. \A e \in Devices : client'[e] = IF e = d THEN cl ELSE client[e]
    BY <2>1 DEF PInv, IInv, TypeOK
  <2>3. QED
    BY <1>1, <2>1, <2>2 DEF PInv, IInv, ClientsKnow, AskedByGrant
<1>4. QED
  BY <1>2, <1>3 DEF PInv

\* What is sent goes out on a connection without a ping.
LEMMA PeerAdoptedSends ==
  ASSUME PInv, NEW d \in Devices, PeerAdopted(d)
  PROVE  \E k \in Conns :
           /\ ping[k].phase = "new" /\ client[d].step = "connecting"
           /\ ping' = [ping EXCEPT ![k] = [phase |-> "sent", peer |-> d, reply |-> "none"]]
           /\ \A e \in Devices \ {d} : client'[e] = client[e]
           /\ client'[d].step = "waiting"
           /\ UNCHANGED <<pending, confirmed, trusted>>
<1>1. NextConn \in Conns /\ ping[NextConn].phase = "new"
  BY DEF PeerAdopted, NextConn, IsFresh
<1>2. client \in [Devices -> Client]
  BY DEF PInv, IInv, TypeOK
<1>3. client' = [client EXCEPT ![d] = [client[d] EXCEPT !.step = "waiting", !.conn = NextConn]]
  BY DEF PeerAdopted
<1>4. client'[d].step = "waiting" /\ \A e \in Devices \ {d} : client'[e] = client[e]
  BY <1>2, <1>3 DEF Client
<1>5. QED
  BY <1>1, <1>4 DEF PeerAdopted, pendingVars, historyVars

\* It keeps the invariant.
LEMMA PeerAdoptedKeepsAll ==
  ASSUME PInv, IInv', NEW d \in Devices, PeerAdopted(d)
  PROVE  PInv'
<1>1. PICK k \in Conns :
        /\ ping[k].phase = "new" /\ client[d].step = "connecting"
        /\ ping' = [ping EXCEPT ![k] = [phase |-> "sent", peer |-> d, reply |-> "none"]]
        /\ \A e \in Devices \ {d} : client'[e] = client[e]
        /\ client'[d].step = "waiting"
        /\ UNCHANGED <<pending, confirmed, trusted>>
  BY PeerAdoptedSends
<1>2. /\ ping'[k].phase = "sent" /\ ping'[k].reply = "none"
      /\ \A c \in Conns \ {k} : ping'[c] = ping[c]
  BY <1>1 DEF PInv, IInv, TypeOK
<1>3. UndecidedUntilAnswered' /\ OneDialogIfBlocking'
  BY <1>1, <1>2 DEF PInv, UndecidedUntilAnswered, OneDialogIfBlocking
<1>4. AskedByGrant'
  BY <1>1, <1>2 DEF PInv, AskedByGrant, UndecidedUntilAnswered
<1>5. QED
  BY <1>3, <1>4 DEF PInv

\* The invariant of the refinement.
LEMMA PInvHolds == Spec => []PInv
<1>1. Init => PInv
  <2>1. Init => IInv
    BY InitIsGood
  <2>2. Init => UndecidedUntilAnswered /\ AskedByGrant /\ OneDialogIfBlocking
    BY DEF Init, UndecidedUntilAnswered, AskedByGrant, OneDialogIfBlocking
  <2>3. QED
    BY <2>1, <2>2 DEF PInv
<1>2. PInv /\ IInv' /\ [Next]_vars => PInv'
  <2> SUFFICES ASSUME PInv, IInv', [Next]_vars PROVE PInv'
    OBVIOUS
  <2>1. CASE UNCHANGED vars
    BY <2>1 DEF PInv, UndecidedUntilAnswered, AskedByGrant, OneDialogIfBlocking, vars,
                serviceVars, pendingVars, historyVars
  <2>2. CASE Receiver
    BY <2>2, ReceiverMoves, ReceiverStepKeeps
  <2>3. ASSUME NEW d \in Devices, Sender(d) PROVE PInv'
    BY <2>3, ClientMoves, ClientStepKeeps, PeerAdoptedKeepsAll DEF Sender
  <2>4. QED
    BY <2>1, <2>2, <2>3 DEF Next
<1>3. QED
  BY <1>1, <1>2, Inductive, PTL DEF Spec

\* Where a dialog stops the event loop, only one connection waits for the user.
THEOREM OneDialog == Spec => []OneDialogIfBlocking
<1>1. PInv => OneDialogIfBlocking
  BY DEF PInv
<1>2. QED
  BY <1>1, PInvHolds, PTL

-----------------------------------------------------------------------------
(* The refinements                                                         *)

\* A step of the receiver is one of the contract, or none.
LEMMA ReceiverStepPromised ==
  ASSUME PInv, ReceiverStep
  PROVE  Promise!PairingNext \/ UNCHANGED <<From, confirmed, trusted, Granted, Paired>>
<1>1. From' = From
  BY DEF ReceiverStep, PingsMoved, Moved, From
<1>2. Paired' = Paired
  BY DEF ReceiverStep, Paired
<1>3. CASE NothingDecided
  <2>1. Granted' = Granted
    BY <1>3 DEF NothingDecided, Granted
  <2>2. QED
    BY <1>1, <1>2, <1>3, <2>1 DEF NothingDecided
<1>4. ASSUME NEW c \in Conns, Decided(c)
      PROVE  Promise!ReceiverConfirms(c)
  <2>1. ping[c].phase = "waiting" /\ ping[c].reply = "none" /\ c \notin confirmed
    BY <1>4 DEF Decided, PInv, UndecidedUntilAnswered
  <2>2. From[c] = ping[c].peer /\ From[c] # NoDevice
    BY <2>1, NullAssumption DEF From, PInv, IInv, PingsHaveSenders
  <2>3. Granted' = IF ping'[c].reply = "Ok" THEN Granted \cup {c} ELSE Granted
    BY <1>4, <2>1 DEF Decided, Granted
  <2>4. QED
    BY <1>1, <1>2, <1>4, <2>1, <2>2, <2>3 DEF Decided, Promise!ReceiverConfirms
<1>5. QED
  BY <1>3, <1>4 DEF ReceiverStep, Promise!PairingNext

\* So is a step of a client that sends nothing.
LEMMA ClientStepPromised ==
  ASSUME PInv, NEW d \in Devices, ClientStep(d)
  PROVE  Promise!PairingNext \/ UNCHANGED <<From, confirmed, trusted, Granted, Paired>>
<1>1. UNCHANGED <<From, confirmed, trusted, Granted>>
  BY DEF ClientStep, From, Granted
<1>2. PICK cl \in Client :
        /\ client' = [client EXCEPT ![d] = cl]
        /\ cl.step = "paired" => client[d].step = "asking" /\ cl.conn = client[d].conn
        /\ client[d].step = "paired" => cl.step = "connecting"
  BY DEF ClientStep
<1>3. /\ client \in [Devices -> Client]
      /\ client'[d] = cl /\ \A e \in Devices \ {d} : client'[e] = client[e]
  BY <1>2 DEF PInv, IInv, TypeOK
<1>4. Paired' = [Paired EXCEPT ![d] = IF cl.step = "paired" THEN cl.conn ELSE NoConn]
  BY <1>3 DEF Paired
<1>5. CASE cl.step = "paired"
  <2>1. cl.conn \in Conns /\ ping[cl.conn].peer = d /\ ping[cl.conn].reply = "Ok"
    BY <1>2, <1>5 DEF PInv, AskedByGrant
  <2>2. cl.conn \in Granted /\ From[cl.conn] = d
    BY <2>1 DEF Granted, From
  <2>3. Promise!SenderConfirms(d, cl.conn)
    BY <1>1, <1>4, <1>5, <2>2 DEF Promise!SenderConfirms
  <2>4. QED
    BY <2>1, <2>3 DEF Promise!PairingNext
<1>6. CASE cl.step # "paired" /\ client[d].step = "paired"
  <2>1. client[d].conn \in Conns
    BY <1>6 DEF PInv, AskedByGrant
  <2>2. Paired[d] # NoConn
    BY <1>6, <2>1, NullAssumption DEF Paired
  <2>3. Promise!PairAgain(d)
    BY <1>1, <1>4, <1>6, <2>2 DEF Promise!PairAgain
  <2>4. QED
    BY <2>3 DEF Promise!PairingNext
<1>7. CASE cl.step # "paired" /\ client[d].step # "paired"
  <2>1. Paired' = Paired
    BY <1>3, <1>7 DEF Paired
  <2>2. QED
    BY <1>1, <2>1
<1>8. QED
  BY <1>5, <1>6, <1>7

\* And the one that sends a ping.
LEMMA PeerAdoptedPromised ==
  ASSUME PInv, NEW d \in Devices, PeerAdopted(d)
  PROVE  Promise!PairingNext
<1>1. PICK k \in Conns :
        /\ ping[k].phase = "new" /\ client[d].step = "connecting"
        /\ ping' = [ping EXCEPT ![k] = [phase |-> "sent", peer |-> d, reply |-> "none"]]
        /\ \A e \in Devices \ {d} : client'[e] = client[e]
        /\ client'[d].step = "waiting"
        /\ UNCHANGED <<pending, confirmed, trusted>>
  BY PeerAdoptedSends
<1>2. /\ ping \in [Conns -> Ping]
      /\ ping[k].reply = "none" /\ ping[k].peer = NoDevice
  BY <1>1 DEF PInv, IInv, TypeOK, UndecidedUntilAnswered
<1>3. /\ ping'[k].peer = d /\ ping'[k].reply = "none"
      /\ \A c \in Conns \ {k} : ping'[c] = ping[c]
  BY <1>1, <1>2
<1>4. From[k] = NoDevice /\ From' = [From EXCEPT ![k] = d]
  BY <1>2, <1>3 DEF From
<1>5. Granted' = Granted
  BY <1>2, <1>3 DEF Granted
<1>6. Paired' = Paired
  BY <1>1 DEF Paired
<1>7. Promise!SendPing(d, k)
  BY <1>1, <1>4, <1>5, <1>6 DEF Promise!SendPing
<1>8. QED
  BY <1>7 DEF Promise!PairingNext

\* Pairing does what PairingContract promises: who has saved whom follows from
\* both users having typed the code of one ping, the receiver's first.
THEOREM PairsAsPromised == Spec => ImplementsPairingContract
<1>1. Init => Promise!PairingInit
  <2> SUFFICES ASSUME Init PROVE Promise!PairingInit
    OBVIOUS
  <2>1. From = [c \in Conns |-> NoDevice]
    BY DEF Init, From
  <2>2. Granted = {}
    BY DEF Init, Granted
  <2>3. Paired = [d \in Devices |-> NoConn]
    BY DEF Init, Paired
  <2>4. QED
    BY <2>1, <2>2, <2>3 DEF Init, Promise!PairingInit
<1>2. PInv /\ [Next]_vars => [Promise!PairingNext]_(Promise!pairingVars)
  <2> SUFFICES ASSUME PInv, [Next]_vars
               PROVE  Promise!PairingNext \/ UNCHANGED <<From, confirmed, trusted, Granted, Paired>>
    BY DEF Promise!pairingVars
  <2>1. CASE UNCHANGED vars
    <3>1. UNCHANGED <<ping, client, confirmed, trusted>>
      BY <2>1 DEF vars, serviceVars, historyVars
    <3>2. From' = From /\ Granted' = Granted /\ Paired' = Paired
      BY <3>1 DEF From, Granted, Paired
    <3>3. QED
      BY <3>1, <3>2
  <2>2. CASE Receiver
    BY <2>2, ReceiverMoves, ReceiverStepPromised
  <2>3. ASSUME NEW d \in Devices, Sender(d)
        PROVE  Promise!PairingNext \/ UNCHANGED <<From, confirmed, trusted, Granted, Paired>>
    BY <2>3, ClientMoves, ClientStepPromised, PeerAdoptedPromised DEF Sender
  <2>4. QED
    BY <2>1, <2>2, <2>3 DEF Next
<1>3. QED
  BY <1>1, <1>2, PInvHolds, PTL DEF Spec, ImplementsPairingContract, Promise!PairingSpec

\* The stage of a connection, as ConnectionLife counts them.
LifeOf(c) == IF ping[c].phase = "sent" THEN "new" ELSE ping[c].phase

\* PingService asks no more of its connections than HttpServer keeps.
THEOREM KeepsLife == Spec => KeepsToConnectionLife
<1> DEFINE life == [c \in Conns |-> IF ping[c].phase = "sent" THEN "new" ELSE ping[c].phase]
<1>1. Init => Life!LifeInit
  BY DEF Init, Life!LifeInit
<1>2. PInv /\ PInv' /\ [Next]_vars => [Life!LifeNext]_life
  <2> SUFFICES ASSUME PInv, PInv', [Next]_vars PROVE Life!LifeNext \/ life' = life
    OBVIOUS
  <2>1. \A c \in Conns : ping[c].phase \in PingPhases /\ ping'[c].phase \in PingPhases
    BY DEF PInv, IInv, TypeOK, Ping
  <2>2. CASE UNCHANGED ping
    BY <2>2
  <2>3. ASSUME NEW c \in Conns, Moved(c)
        PROVE  LifeOf(c)' \in Life!Onward[LifeOf(c)]
    BY <2>3 DEF Moved, Moves, Open, LifeOf, Life!Onward, Life!Lives
  <2>4. ASSUME NEW c \in Conns, ping'[c] = ping[c]
        PROVE  LifeOf(c)' \in Life!Onward[LifeOf(c)]
    BY <2>1, <2>4 DEF PingPhases, LifeOf, Life!Onward, Life!Lives
  <2>5. ASSUME NEW c \in Conns, ping[c].phase = "new", ping'[c].phase = "sent"
        PROVE  LifeOf(c)' \in Life!Onward[LifeOf(c)]
    BY <2>5 DEF LifeOf, Life!Onward, Life!Lives
  <2>6. ASSUME \A c \in Conns : LifeOf(c)' \in Life!Onward[LifeOf(c)]
        PROVE  Life!LifeNext
    BY <2>1, <2>6 DEF PingPhases, LifeOf, Life!LifeNext, Life!Lives
  <2>7. CASE Receiver
    BY <2>3, <2>4, <2>6, <2>7, ReceiverMoves DEF ReceiverStep, PingsMoved
  <2>8. ASSUME NEW d \in Devices, PeerAdopted(d)
        PROVE  Life!LifeNext
    <3>1. PICK k \in Conns :
            /\ ping[k].phase = "new"
            /\ ping' = [ping EXCEPT ![k] = [phase |-> "sent", peer |-> d, reply |-> "none"]]
      BY <2>8, PeerAdoptedSends
    <3>2. ping'[k].phase = "sent" /\ \A c \in Conns \ {k} : ping'[c] = ping[c]
      BY <3>1 DEF PInv, IInv, TypeOK
    <3>3. QED
      BY <2>4, <2>5, <2>6, <3>1, <3>2
  <2>9. ASSUME NEW d \in Devices, Sender(d)
        PROVE  Life!LifeNext \/ UNCHANGED ping
    BY <2>8, <2>9, ClientMoves DEF Sender, ClientStep
  <2>10. UNCHANGED vars => UNCHANGED ping
    BY DEF vars, serviceVars
  <2>11. QED
    BY <2>2, <2>7, <2>9, <2>10 DEF Next
<1>3. QED
  BY <1>1, <1>2, PInvHolds, PTL DEF Spec, KeepsToConnectionLife, Life!LifeSpec
=============================================================================
