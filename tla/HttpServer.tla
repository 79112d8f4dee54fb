----------------------------- MODULE HttpServer -----------------------------
(***************************************************************************)
(* The HTTPS server and its connections (core/http/httpserver.cpp and      *)
(* httpconnection.cpp): the limit on connections, the handshake, and per   *)
(* connection a head, a body pumped into the handler's sink, one answer,   *)
(* an idle timer that a handler may pause, and finished.                   *)
(*                                                                         *)
(* One event loop runs everything, so an action is one event with the      *)
(* slots it runs.  A call of a sink is cut out of its event: the sink is   *)
(* the handler's code, and what it may do to the connection that is just   *)
(* calling it is the point.  A body comes in units, of which a peer sends  *)
(* at most MaxUnits (more than it declared, if it likes).  Heads are the   *)
(* request heads a peer may send, and a handler accepts at most MaxUnits.  *)
(***************************************************************************)
EXTENDS HttpRequest, Integers, FiniteSets

CONSTANTS Conns, MaxConnections, MaxUnits, Heads

ASSUME ConnsAssumption == IsFiniteSet(Conns)
ASSUME LimitAssumption == MaxConnections \in Nat \ {0}
ASSUME UnitsAssumption == MaxUnits \in Nat
ASSUME HeadsAssumption == Heads \subseteq RequestHeads

VARIABLE conn       \* what the server and the HttpConnection know of each socket

vars == <<conn>>

Phases == {"none", "handshaking", "ReadingHead", "Handling", "ReadingBody", "Responded", "closed"}

\* What peers may announce.
Lengths == {0} \cup {Meant(head.lengths[1]) : head \in {h \in Heads : Parse(h) = "Complete"}}

\* sink is TRUE while m_bodySink holds the handler's function and running while it
\* executes; failing is m_pendingFailure; length is what was parsed and meant
\* what the peer wrote; consumed and completions are history.
Connection ==
    [phase : Phases, buffer : 0..MaxUnits, remaining : 0..MaxUnits, length : 0..MaxUnits,
     meant : Lengths, consumed : 0..MaxUnits, sink : BOOLEAN, running : BOOLEAN, failing : BOOLEAN,
     paused : BOOLEAN, idle : BOOLEAN, completions : Nat]

Blank ==
    [phase |-> "none", buffer |-> 0, remaining |-> 0, length |-> 0, meant |-> 0,
     consumed |-> 0, sink |-> FALSE, running |-> FALSE, failing |-> FALSE,
     paused |-> FALSE, idle |-> FALSE, completions |-> 0]

Established == {"ReadingHead", "Handling", "ReadingBody", "Responded"}

\* m_connections, and the sockets QSslServer counts as pending.
Connections == {c \in Conns : conn[c].phase \in Established}
Pending == {c \in Conns : conn[c].phase = "handshaking"}

\* The event loop is not inside a sink.
Loop == \A c \in Conns : ~conn[c].running

Becomes(c, s) == conn' = [conn EXCEPT ![c] = s]

-----------------------------------------------------------------------------
(* What the handlers of events share; s is a connection as changed so far. *)

\* respond(): the first answer counts.
Respond(s) ==
    IF s.phase = "Responded" THEN s
    ELSE [s EXCEPT !.phase = "Responded", !.sink = FALSE, !.buffer = 0]

\* close(): finished is emitted, and the server deletes the connection.
Closed == [Blank EXCEPT !.phase = "closed"]

\* The handler's slot for bodyComplete: it answers, or leaves the connection to
\* wait for a user and pauses the idle timer.
HandleBody(s) ==
    {Respond(s), [s EXCEPT !.paused = TRUE, !.idle = FALSE]}

\* The end of pumpBody(), when everything has been handed over.
CompleteBody(s) ==
    HandleBody([s EXCEPT !.phase = "Handling", !.sink = FALSE, !.completions = @ + 1])

\* Mutation: what came with the head is left in the buffer.
PumpNothing(s) == IF s.remaining = 0 THEN CompleteBody(s) ELSE {s}

\* pumpBody(): the buffer goes to the sink in one piece, if there is any.
Pump(s) ==
    IF s.remaining = 0 THEN CompleteBody(s)
    ELSE IF s.buffer = 0 THEN {s} ELSE {[s EXCEPT !.running = TRUE]}

-----------------------------------------------------------------------------
(* Sockets                                                                 *)

\* incomingConnection(): the limit counts the established connections, and Qt
\* accepts no socket while as many as the limit are in their handshake.
Incoming(c) ==
    /\ Loop /\ conn[c].phase = "none"
    /\ Cardinality(Pending) < MaxConnections
    /\ Becomes(c, [conn[c] EXCEPT !.phase =
                     IF Cardinality(Connections) >= MaxConnections THEN "closed"
                     ELSE "handshaking"])

\* acceptPending(): the handshake is done and the peer has an identity.
Accept(c) ==
    /\ Loop /\ conn[c].phase = "handshaking"
    /\ Becomes(c, [conn[c] EXCEPT !.phase = "ReadingHead", !.idle = TRUE])

\* A certificate that is not tolerated, no identity, or the handshake's timeout.
HandshakeFails(c) ==
    /\ Loop /\ conn[c].phase = "handshaking"
    /\ Becomes(c, Closed)

\* The peer has closed, reset or lost the connection.
PeerGone(c) ==
    /\ Loop /\ c \in Connections
    /\ Becomes(c, Closed)

\* The answer is written and the socket disconnected.
Flushed(c) ==
    /\ Loop /\ conn[c].phase = "Responded"
    /\ Becomes(c, Closed)

IdleTimeout(c) ==
    /\ Loop /\ conn[c].idle
    /\ Becomes(c, Closed)

-----------------------------------------------------------------------------
(* Requests                                                                *)

\* parseHead(): not a request, or one that its handler answers at once.
HeadAnswered(c, head) ==
    /\ Loop /\ conn[c].phase = "ReadingHead"
    /\ Parse(head) # Incomplete
    /\ Becomes(c, Respond(conn[c]))

\* The handler calls readBody(): n units are there already, and more than cap
\* are refused unread.
ReadBody(s, head, n, cap) ==
    LET len == ContentLength(head) IN
    IF len \notin 0..cap THEN {Respond(s)}
    ELSE Pump([s EXCEPT !.phase = "ReadingBody", !.buffer = n, !.sink = TRUE,
                        !.length = len, !.remaining = len, !.meant = Meant(head.lengths[1])])

\* Mutation: what follows an answer is read as another request.
HeadArrivesAgain(c, head, n, cap) ==
    /\ Loop /\ conn[c].phase \in {"ReadingHead", "Responded"}
    /\ Parse(head) = "Complete"
    /\ \E next \in ReadBody(conn[c], head, n, cap) : Becomes(c, next)

\* parseHead() and the handler's readBody().
HeadArrives(c, head, n, cap) ==
    /\ Loop /\ conn[c].phase = "ReadingHead"
    /\ Parse(head) = "Complete"
    /\ \E next \in ReadBody(conn[c], head, n, cap) : Becomes(c, next)

\* Without a Content-Length there is no body, and bodyComplete comes at once.
BodilessHeadArrives(c, head, n) ==
    /\ Loop /\ conn[c].phase = "ReadingHead"
    /\ Parse(head) = NoLength
    /\ \E next \in HandleBody([conn[c] EXCEPT !.phase = "Handling", !.buffer = n,
                                              !.completions = @ + 1]) : Becomes(c, next)

\* onReadyRead() in the middle of a body.
BodyArrives(c, n) ==
    /\ Loop /\ conn[c].phase = "ReadingBody"
    /\ conn[c].buffer + conn[c].consumed + n <= MaxUnits
    /\ \E next \in Pump([conn[c] EXCEPT !.buffer = @ + n]) : Becomes(c, next)

\* Mutation: the whole buffer is taken, declared or not.
SinkTakesAll(c) ==
    LET s == conn[c] IN
    /\ s.running /\ ~s.failing
    /\ LET t == [s EXCEPT !.running = FALSE, !.buffer = 0, !.consumed = @ + s.buffer,
                          !.remaining = IF s.buffer < @ THEN @ - s.buffer ELSE 0] IN
       \E next \in IF t.remaining = 0 THEN CompleteBody(t) ELSE {t} : Becomes(c, next)

\* The sink has written what it was given.
SinkTakes(c) ==
    LET s == conn[c]
        take == IF s.remaining < s.buffer THEN s.remaining ELSE s.buffer
        t == [s EXCEPT !.running = FALSE, !.buffer = @ - take, !.remaining = @ - take,
                       !.consumed = @ + take] IN
    /\ s.running /\ ~s.failing
    /\ \E next \in IF t.remaining = 0 THEN CompleteBody(t) ELSE {t} : Becomes(c, next)

\* Mutation: failBody() answers at once.
SinkFailsAtOnce(c) ==
    /\ conn[c].running /\ ~conn[c].failing
    /\ Becomes(c, [Respond(conn[c]) EXCEPT !.failing = TRUE])

\* The sink calls failBody(), which only remembers the answer.
SinkFails(c) ==
    /\ conn[c].running /\ ~conn[c].failing
    /\ Becomes(c, [conn[c] EXCEPT !.failing = TRUE])

\* The sink returns false: the answer that was remembered is given now; without
\* one the connection is aborted.
SinkStops(c) ==
    LET s == [conn[c] EXCEPT !.running = FALSE, !.failing = FALSE] IN
    /\ conn[c].running
    /\ Becomes(c, IF conn[c].failing THEN Respond(s) ELSE Closed)

\* Mutation: the idle timer stays paused.
AnswerStaysPaused(c) ==
    /\ Loop /\ conn[c].phase = "Handling"
    /\ Becomes(c, Respond(conn[c]))

\* The handler answers a connection that waited: resumeIdleTimeout(), respond().
Answer(c) ==
    /\ Loop /\ conn[c].phase = "Handling"
    /\ Becomes(c, Respond([conn[c] EXCEPT !.paused = FALSE, !.idle = TRUE]))

\* The handler aborts a body that it has taken on (ReceiveService::teardown()).
Abort(c) ==
    /\ Loop /\ conn[c].phase = "ReadingBody"
    /\ Becomes(c, Closed)

-----------------------------------------------------------------------------
Init == conn = [c \in Conns |-> Blank]

Socket(c) ==
    Incoming(c) \/ Accept(c) \/ HandshakeFails(c) \/ PeerGone(c) \/ Flushed(c) \/ IdleTimeout(c)

RequestStep(c) ==
    \/ \E head \in Heads : HeadAnswered(c, head)
    \/ \E head \in Heads, n \in 0..MaxUnits :
         BodilessHeadArrives(c, head, n) \/ \E cap \in 0..MaxUnits : HeadArrives(c, head, n, cap)
    \/ \E n \in 1..MaxUnits : BodyArrives(c, n)
    \/ SinkTakes(c) \/ SinkFails(c) \/ SinkStops(c)
    \/ Answer(c) \/ Abort(c)

Next == \E c \in Conns : Socket(c) \/ RequestStep(c)

Spec == Init /\ [][Next]_vars

\* A running idle timer fires unless bytes keep arriving, and a peer has only
\* MaxUnits to send; a handshake has a timeout; a sink returns.
FairSpec ==
    /\ Spec
    /\ \A c \in Conns :
         /\ WF_vars(IdleTimeout(c)) /\ WF_vars(HandshakeFails(c))
         /\ WF_vars(SinkTakes(c) \/ SinkStops(c))

-----------------------------------------------------------------------------
(* Properties                                                              *)

\* The types of the variables.
TypeOK == conn \in [Conns -> Connection]

\* A body is handed over exactly as declared: the sink gets no byte too many
\* although the peer may send more, nothing is lost that came with the head,
\* and bodyComplete comes once, when everything has been taken.
BodyIsExact ==
    \A c \in Conns : LET s == conn[c] IN
        /\ s.consumed + s.remaining = s.length
        /\ s.completions <= 1
        /\ s.completions = 1 => s.consumed = s.length

\* A body is as long as its peer wrote: no Content-Length wraps around in its
\* word, so that what was checked against the cap is what will be read.
LengthIsExact == \A c \in Conns : conn[c].length = conn[c].meant

\* Bytes that have arrived are not left lying in the buffer while the connection
\* waits for more of the same body (the peer may have sent all it has).
NothingLeftInBuffer ==
    \A c \in Conns :
        conn[c].phase = "ReadingBody" /\ conn[c].buffer > 0 => conn[c].running

\* The function object of a sink is never destroyed while it executes, whatever
\* it calls: failBody() defers the answer, which resets it.
SinkOutlivesItsCall == \A c \in Conns : conn[c].running => conn[c].sink

\* Established connections and handshakes together stay below twice the limit.
\* The limit itself, which protocol.h:218-220 calls the most connections at once, is
\* exceeded: incomingConnection() compares it with the established ones, and the
\* handshakes under way are all accepted afterwards.
BoundedConnections ==
    Cardinality(Connections) + Cardinality(Pending) <= 2 * MaxConnections - 1

\* A connection that is not waiting for a user comes to its end, so that its
\* place becomes free: the peer may stop sending at any point.
EveryConnectionEnds ==
    \A c \in Conns :
        conn[c].phase \in {"handshaking", "ReadingHead", "ReadingBody", "Responded"} ~>
            conn[c].phase \in {"closed", "Handling"}

\* HttpServer keeps what the handlers rely on.
LifeOf(phase) ==
    CASE phase = "ReadingBody" -> "body"
      [] phase = "Handling" -> "waiting"
      [] phase = "Responded" -> "answered"
      [] phase = "closed" -> "closed"
      [] OTHER -> "new"
Life == INSTANCE ConnectionLife WITH life <- [c \in Conns |-> LifeOf(conn[c].phase)]
ImplementsLife == Life!LifeSpec

=============================================================================
