-------------------------- MODULE HttpServerProofs --------------------------
(***************************************************************************)
(* Proofs about HttpServer, for any number of connections, any limit, any  *)
(* length of body and any set of heads: lengths are read as they were      *)
(* written, bodies are handed over exactly, sinks outlive their calls,     *)
(* connections are timed and bounded, and a connection goes through the    *)
(* stages of ConnectionLife.                                               *)
(*                                                                         *)
(* An action changes one connection, so the invariant is about one, and    *)
(* the lemmas about the handlers are about the record they return.         *)
(***************************************************************************)
EXTENDS HttpServer, HttpRequestProofs, FiniteSetTheorems

\* No body has been taken on.
Early == {"none", "handshaking", "ReadingHead", "closed"}

\* What holds of a connection even while its body is being pumped.
Sound(s) ==
    /\ s \in Connection
    /\ s.consumed + s.remaining = s.length
    /\ s.phase \in Early => s.completions = 0 /\ s.length = 0 /\ s.meant = 0
    /\ s.running => s.phase = "ReadingBody"
    /\ s.phase = "ReadingBody" => s.completions = 0 /\ s.sink
    /\ s.completions <= 1
    /\ s.completions = 1 => s.remaining = 0
    /\ s.length = s.meant
    /\ s.idle <=> s.phase \in Established /\ ~s.paused
    /\ s.paused => s.phase = "Handling"

\* And between two events.
Good(s) ==
    /\ Sound(s)
    /\ s.phase = "ReadingBody" /\ s.buffer > 0 => s.running
    /\ s.phase = "Handling" => s.paused

IInv == conn \in [Conns -> Connection] /\ \A c \in Conns : Good(conn[c])

Active == {"handshaking"} \cup Established

\* How the phase of a connection may change.
Onwards(p, q) ==
    /\ p = "ReadingBody" => q \in {"ReadingBody", "Handling", "Responded", "closed"}
    /\ p = "Handling" => q \in {"Handling", "Responded", "closed"}
    /\ p = "Responded" => q \in {"Responded", "closed"}
    /\ p = "closed" => q = "closed"

-----------------------------------------------------------------------------
(* What the handlers return                                                *)

\* A connection that is closed, or not there yet, has nothing to be wrong.
LEMMA BlankGood ==
  ASSUME NEW s \in {Blank, Closed}
  PROVE  Good(s)
<1>1. s \in Connection
  <2>1. 0 \in 0..MaxUnits /\ 0 \in Lengths
    BY UnitsAssumption DEF Lengths
  <2>2. Blank \in Connection
    BY <2>1 DEF Blank, Connection, Phases
  <2>3. Closed \in Connection
    BY <2>2 DEF Closed, Connection, Phases
  <2>4. QED
    BY <2>2, <2>3
<1>2. /\ s.phase \in Early /\ ~s.running
      /\ s.consumed = 0 /\ s.remaining = 0 /\ s.length = 0 /\ s.meant = 0 /\ s.completions = 0
      /\ ~s.idle /\ ~s.paused /\ s.phase \notin Established
  BY DEF Established, Blank, Closed, Early
<1>3. QED
  BY <1>1, <1>2 DEF Good, Sound, Early

\* An answer ends the handling of a request at any point outside a sink.
LEMMA RespondGood ==
  ASSUME NEW s, Sound(s), ~s.running, ~s.paused, s.phase \in Established
  PROVE  Good(Respond(s)) /\ Respond(s).phase = "Responded"
<1> DEFINE t == [s EXCEPT !.phase = "Responded", !.sink = FALSE, !.buffer = 0]
<1>1. s \in Connection
  BY DEF Sound
<1>2. 0 \in 0..MaxUnits
  BY UnitsAssumption
<1>3. /\ t \in Connection
      /\ t.phase = "Responded" /\ ~t.running
      /\ t.consumed = s.consumed /\ t.remaining = s.remaining /\ t.length = s.length
      /\ t.completions = s.completions /\ t.meant = s.meant
      /\ t.idle = s.idle /\ t.paused = s.paused
  BY <1>1, <1>2 DEF Connection, Phases
<1>4. Respond(s) = IF s.phase = "Responded" THEN s ELSE t
  BY DEF Respond
<1> HIDE DEF t
<1>5. Good(t)
  BY <1>3 DEF Good, Sound, Early, Established
<1>6. QED
  BY <1>3, <1>4, <1>5 DEF Good

\* So does the handler of a whole body.
LEMMA HandleBodyGood ==
  ASSUME NEW s, Sound(s), s.phase = "Handling", ~s.paused, NEW t \in HandleBody(s)
  PROVE  Good(t) /\ t.phase \in {"Handling", "Responded"}
<1>1. ~s.running /\ s.phase \in Established
  BY DEF Sound, Established
<1>2. CASE t = Respond(s)
  BY <1>1, <1>2, RespondGood
<1>3. CASE t = [s EXCEPT !.paused = TRUE, !.idle = FALSE]
  <2>1. /\ t \in Connection /\ t.phase = s.phase /\ t.paused /\ ~t.idle
        /\ t.consumed = s.consumed /\ t.remaining = s.remaining /\ t.length = s.length
        /\ t.meant = s.meant /\ t.completions = s.completions /\ t.running = s.running
    BY <1>3 DEF Sound, Connection
  <2>2. QED
    BY <1>1, <2>1 DEF Good, Sound, Early
<1>4. QED
  BY <1>2, <1>3 DEF HandleBody

\* A body of which nothing is missing completes once.
LEMMA CompleteBodyGood ==
  ASSUME NEW s, Sound(s), ~s.running, s.phase = "ReadingBody", s.remaining = 0,
         NEW t \in CompleteBody(s)
  PROVE  Good(t) /\ t.phase \in {"Handling", "Responded"}
<1> DEFINE u == [s EXCEPT !.phase = "Handling", !.sink = FALSE, !.completions = @ + 1]
<1>1. s \in Connection /\ s.completions = 0
  BY DEF Sound
<1>2. /\ u \in Connection
      /\ u.phase = "Handling" /\ ~u.running /\ u.completions = 1
      /\ u.consumed = s.consumed /\ u.remaining = s.remaining /\ u.length = s.length
      /\ u.meant = s.meant /\ u.idle = s.idle /\ u.paused = s.paused
  <2>1. u = [s EXCEPT !.phase = "Handling", !.sink = FALSE, !.completions = 1]
    BY <1>1
  <2> HIDE DEF u
  <2>2. u \in Connection
    BY <1>1, <2>1 DEF Connection, Phases
  <2>3. u.phase = "Handling" /\ u.running = s.running /\ u.completions = 1
    BY <1>1, <2>1 DEF Connection
  <2>4. u.consumed = s.consumed /\ u.remaining = s.remaining /\ u.length = s.length
    BY <1>1, <2>1 DEF Connection
  <2>5. u.meant = s.meant /\ u.idle = s.idle /\ u.paused = s.paused
    BY <1>1, <2>1 DEF Connection
  <2>6. QED
    BY <2>2, <2>3, <2>4, <2>5
<1>3. t \in HandleBody(u)
  BY DEF CompleteBody
<1> HIDE DEF u
<1>4. Sound(u) /\ ~u.paused
  BY <1>2 DEF Sound, Early, Established
<1>5. QED
  BY <1>2, <1>3, <1>4, HandleBodyGood

\* The pump leaves nothing in the buffer that nobody takes.
LEMMA PumpGood ==
  ASSUME NEW s, Sound(s), ~s.running, s.phase = "ReadingBody", NEW t \in Pump(s)
  PROVE  Good(t) /\ t.phase \in {"ReadingBody", "Handling", "Responded"}
<1>1. CASE s.remaining = 0
  BY <1>1, CompleteBodyGood DEF Pump
<1>2. CASE s.remaining # 0 /\ s.buffer = 0
  BY <1>2 DEF Pump, Good
<1>3. CASE s.remaining # 0 /\ s.buffer # 0
  <2>1. t = [s EXCEPT !.running = TRUE]
    BY <1>3 DEF Pump
  <2>2. /\ t \in Connection /\ t.phase = s.phase /\ t.sink = s.sink /\ t.running
        /\ t.consumed = s.consumed /\ t.remaining = s.remaining /\ t.length = s.length
        /\ t.meant = s.meant /\ t.completions = s.completions
        /\ t.idle = s.idle /\ t.paused = s.paused
    BY <2>1 DEF Sound, Connection
  <2>3. QED
    BY <2>2 DEF Good, Sound, Early
<1>4. QED
  BY <1>1, <1>2, <1>3

-----------------------------------------------------------------------------
(* What the actions do to their connection                                 *)

\* A step of one connection: to a good record, onwards, and it does not become
\* active by it.
Steps(s, t) ==
    /\ Good(t)
    /\ Onwards(s.phase, t.phase)
    /\ t.phase \in Active => s.phase \in Active

\* A step of a socket after it has come in.
LEMMA SocketSteps ==
  ASSUME IInv, NEW c \in Conns,
         Accept(c) \/ HandshakeFails(c) \/ PeerGone(c) \/ Flushed(c) \/ IdleTimeout(c)
  PROVE  \E t : Becomes(c, t) /\ Steps(conn[c], t)
<1> DEFINE s == conn[c]
<1>1. Good(s) /\ s \in Connection
  BY DEF IInv
<1>2. CASE Accept(c)
  <2> DEFINE t == [s EXCEPT !.phase = "ReadingHead", !.idle = TRUE]
  <2>1. s.phase = "handshaking" /\ Becomes(c, t)
    BY <1>2 DEF Accept
  <2>2. /\ t \in Connection /\ t.phase = "ReadingHead"
        /\ t.consumed = s.consumed /\ t.remaining = s.remaining /\ t.length = s.length
        /\ t.meant = s.meant /\ t.completions = s.completions /\ t.running = s.running
        /\ t.idle /\ t.paused = s.paused
    BY <1>1 DEF Connection, Phases
  <2>3. Steps(s, t)
    <3> HIDE DEF t
    <3>1. QED
      BY <1>1, <2>1, <2>2 DEF Steps, Good, Sound, Early, Onwards, Active, Established
  <2>4. QED
    BY <2>1, <2>3
<1>3. CASE ~Accept(c)
  <2>1. Becomes(c, Closed)
    BY <1>3 DEF HandshakeFails, PeerGone, Flushed, IdleTimeout
  <2>2. Good(Closed) /\ Closed.phase = "closed"
    BY BlankGood DEF Closed, Blank
  <2>3. Steps(s, Closed)
    BY <2>2 DEF Steps, Onwards, Active, Established
  <2>4. QED
    BY <2>1, <2>3
<1>4. QED
  BY <1>2, <1>3

\* A socket comes in, or is turned away.
LEMMA IncomingSteps ==
  ASSUME IInv, NEW c \in Conns, Incoming(c)
  PROVE  \E t : Becomes(c, t) /\ Good(t) /\ Onwards(conn[c].phase, t.phase)
<1> DEFINE s == conn[c]
           p == IF Cardinality(Connections) >= MaxConnections THEN "closed" ELSE "handshaking"
           t == [s EXCEPT !.phase = p]
<1>1. Good(s) /\ s \in Connection
  BY DEF IInv
<1>2. s.phase = "none" /\ Becomes(c, t)
  BY DEF Incoming
<1>3. p \in {"closed", "handshaking"}
  OBVIOUS
<1> HIDE DEF p
<1>4. /\ t \in Connection /\ t.phase = p
      /\ t.consumed = s.consumed /\ t.remaining = s.remaining /\ t.length = s.length
      /\ t.meant = s.meant /\ t.completions = s.completions /\ t.running = s.running
      /\ t.idle = s.idle /\ t.paused = s.paused
  BY <1>1, <1>3 DEF Connection, Phases
<1>5. Good(t) /\ Onwards(s.phase, t.phase)
  <2> HIDE DEF t
  <2>1. QED
    BY <1>1, <1>2, <1>3, <1>4 DEF Good, Sound, Early, Established, Onwards
<1>6. QED
  BY <1>2, <1>5

\* The length that is read from a head is the one its sender wrote.
LEMMA CompleteLengthIsMeant ==
  ASSUME NEW head \in Heads, Parse(head) = "Complete"
  PROVE  ContentLength(head) = Meant(head.lengths[1])
<1>1. head.lengths \in Seq(Seq(Characters))
  BY HeadsAssumption DEF RequestHeads
<1>2. /\ head.lengths # <<>>
      /\ \A i \in DOMAIN head.lengths : ParseLength(head.lengths[i]).ok
  BY DEF Parse, Incomplete, Invalid, NoLength
<1>3. 1 \in DOMAIN head.lengths /\ head.lengths[1] \in Seq(Characters)
  BY <1>1, <1>2
<1>4. QED
  BY <1>2, <1>3, ParseLengthIsExact DEF ContentLength

\* A head, whatever it says and however much comes with it.
LEMMA HeadSteps ==
  ASSUME IInv, NEW c \in Conns, NEW head \in Heads, NEW n \in 0..MaxUnits,
         NEW cap \in 0..MaxUnits,
         HeadAnswered(c, head) \/ BodilessHeadArrives(c, head, n) \/ HeadArrives(c, head, n, cap)
  PROVE  \E t : Becomes(c, t) /\ Steps(conn[c], t)
<1> DEFINE s == conn[c]
<1>1. /\ Good(s) /\ Sound(s) /\ s \in Connection /\ s.phase = "ReadingHead" /\ ~s.running
      /\ ~s.paused /\ s.idle /\ s.phase \in Established
  BY DEF IInv, Good, Sound, HeadAnswered, BodilessHeadArrives, HeadArrives, Established
<1>2. /\ s.consumed = 0 /\ s.remaining = 0 /\ s.completions = 0 /\ s.length = 0 /\ s.meant = 0
  BY <1>1, UnitsAssumption DEF Sound, Early, Connection
<1>3. ASSUME NEW t, Good(t) PROVE Steps(s, t)
  BY <1>1, <1>3 DEF Steps, Onwards, Active, Established
<1>4. CASE HeadAnswered(c, head)
  BY <1>1, <1>3, <1>4, RespondGood DEF HeadAnswered
<1>5. CASE BodilessHeadArrives(c, head, n)
  <2> DEFINE u == [s EXCEPT !.phase = "Handling", !.buffer = n, !.completions = @ + 1]
  <2>1. PICK t \in HandleBody(u) : Becomes(c, t)
    BY <1>5 DEF BodilessHeadArrives
  <2>2. /\ u \in Connection /\ u.phase = "Handling" /\ ~u.running /\ u.completions = 1
        /\ u.consumed = s.consumed /\ u.remaining = s.remaining /\ u.length = s.length
        /\ u.meant = s.meant /\ u.idle = s.idle /\ u.paused = s.paused
    <3>1. u = [s EXCEPT !.phase = "Handling", !.buffer = n, !.completions = 1]
      BY <1>2
    <3> HIDE DEF u
    <3>2. u \in Connection
      BY <1>1, <3>1 DEF Connection, Phases
    <3>3. u.phase = "Handling" /\ u.running = s.running /\ u.completions = 1
      BY <1>1, <3>1 DEF Connection
    <3>4. u.consumed = s.consumed /\ u.remaining = s.remaining /\ u.length = s.length
      BY <1>1, <3>1 DEF Connection
    <3>5. u.meant = s.meant /\ u.idle = s.idle /\ u.paused = s.paused
      BY <1>1, <3>1 DEF Connection
    <3>6. QED
      BY <1>1, <3>2, <3>3, <3>4, <3>5
  <2> HIDE DEF u
  <2>3. Sound(u) /\ ~u.paused
    BY <1>1, <1>2, <2>2 DEF Sound, Early, Established
  <2>4. QED
    BY <1>3, <2>1, <2>2, <2>3, HandleBodyGood
<1>6. CASE HeadArrives(c, head, n, cap)
  <2> DEFINE len == ContentLength(head)
             m == Meant(head.lengths[1])
             u == [s EXCEPT !.phase = "ReadingBody", !.buffer = n, !.sink = TRUE,
                            !.length = len, !.remaining = len, !.meant = m]
  <2>1. PICK t \in ReadBody(s, head, n, cap) : Becomes(c, t)
    BY <1>6 DEF HeadArrives
  <2>2. m \in Lengths
    BY <1>6 DEF HeadArrives, Lengths
  <2>3. CASE len \notin 0..cap
    BY <1>1, <1>3, <2>1, <2>3, RespondGood DEF ReadBody
  <2>4. CASE len \in 0..cap
    <3>1. t \in Pump(u)
      BY <2>1, <2>4 DEF ReadBody
    <3>2. len \in 0..MaxUnits
      BY <2>4, UnitsAssumption
    <3>3. len = m
      BY <1>6, CompleteLengthIsMeant DEF HeadArrives
    <3> HIDE DEF len, m
    <3>4. /\ u \in Connection /\ u.phase = "ReadingBody" /\ ~u.running /\ u.sink
          /\ u.completions = s.completions
          /\ u.consumed = s.consumed /\ u.remaining = len /\ u.length = len
          /\ u.meant = m /\ u.idle = s.idle /\ u.paused = s.paused
      BY <1>1, <2>2, <3>2 DEF Connection, Phases
    <3> HIDE DEF u
    <3>5. Sound(u)
      BY <1>1, <1>2, <3>2, <3>3, <3>4 DEF Sound, Early, Established
    <3>6. QED
      BY <1>3, <2>1, <3>1, <3>4, <3>5, PumpGood
  <2>5. QED
    BY <2>3, <2>4
<1>7. QED
  BY <1>4, <1>5, <1>6

\* More of a body, however much of it.
LEMMA BodySteps ==
  ASSUME IInv, NEW c \in Conns, NEW n \in 1..MaxUnits, BodyArrives(c, n)
  PROVE  \E t : Becomes(c, t) /\ Steps(conn[c], t)
<1> DEFINE s == conn[c]
           b == s.buffer + n
           u == [s EXCEPT !.buffer = @ + n]
<1>1. Good(s) /\ Sound(s) /\ s \in Connection /\ s.phase = "ReadingBody" /\ ~s.running
  BY DEF IInv, Good, BodyArrives, Loop
<1>2. PICK t \in Pump(u) : Becomes(c, t)
  BY DEF BodyArrives
<1>3. b \in 0..MaxUnits
  <2>1. s.buffer \in 0..MaxUnits /\ s.consumed \in 0..MaxUnits
    BY <1>1 DEF Connection
  <2>2. s.buffer + s.consumed + n <= MaxUnits
    BY DEF BodyArrives
  <2>3. QED
    BY <2>1, <2>2, UnitsAssumption
<1>4. Sound(u) /\ u.phase = "ReadingBody" /\ ~u.running
  <2>1. u = [s EXCEPT !.buffer = b]
    OBVIOUS
  <2> HIDE DEF u, b
  <2>2. u \in Connection
    BY <1>1, <1>3, <2>1 DEF Connection
  <2>3. /\ u.phase = s.phase /\ u.running = s.running /\ u.sink = s.sink
        /\ u.completions = s.completions /\ u.meant = s.meant
    BY <1>1, <2>1 DEF Connection
  <2>4. /\ u.consumed = s.consumed /\ u.remaining = s.remaining /\ u.length = s.length
        /\ u.idle = s.idle /\ u.paused = s.paused
    BY <1>1, <2>1 DEF Connection
  <2>5. QED
    BY <1>1, <2>2, <2>3, <2>4 DEF Sound, Early
<1> HIDE DEF u, b
<1>5. Steps(s, t)
  BY <1>1, <1>2, <1>4, PumpGood DEF Steps, Onwards, Active, Established
<1>6. QED
  BY <1>2, <1>5

\* The sink takes what is there, and no more than is missing.
LEMMA SinkTakesSteps ==
  ASSUME IInv, NEW c \in Conns, SinkTakes(c)
  PROVE  \E t : Becomes(c, t) /\ Steps(conn[c], t)
<1> DEFINE s == conn[c]
           take == IF s.remaining < s.buffer THEN s.remaining ELSE s.buffer
           b == s.buffer - take
           r == s.remaining - take
           k == s.consumed + take
           u == [s EXCEPT !.running = FALSE, !.buffer = b, !.remaining = r, !.consumed = k]
<1>1. Good(s) /\ Sound(s) /\ s \in Connection /\ s.running /\ s.phase = "ReadingBody"
  BY DEF IInv, Good, Sound, SinkTakes
<1>2. PICK t \in (IF u.remaining = 0 THEN CompleteBody(u) ELSE {u}) : Becomes(c, t)
  BY DEF SinkTakes
<1>3. /\ b \in 0..MaxUnits /\ r \in 0..MaxUnits /\ k \in 0..MaxUnits
      /\ k + r = s.length
      /\ r # 0 => b = 0
  <2>1. /\ s.buffer \in 0..MaxUnits /\ s.remaining \in 0..MaxUnits
        /\ s.consumed \in 0..MaxUnits /\ s.length \in 0..MaxUnits
    BY <1>1 DEF Connection
  <2>2. s.consumed + s.remaining = s.length
    BY <1>1 DEF Sound
  <2>3. QED
    BY <2>1, <2>2, UnitsAssumption
<1>4. /\ Sound(u) /\ u.phase = "ReadingBody" /\ ~u.running
      /\ u.remaining # 0 => Good(u)
  <2> HIDE DEF b, r, k
  <2>1. u \in Connection
    BY <1>1, <1>3 DEF Connection
  <2>2. /\ u.phase = s.phase /\ u.sink = s.sink /\ u.completions = s.completions
        /\ u.meant = s.meant /\ u.length = s.length
        /\ u.idle = s.idle /\ u.paused = s.paused
    BY <1>1 DEF Connection
  <2>3. ~u.running /\ u.buffer = b /\ u.remaining = r /\ u.consumed = k
    BY <1>1 DEF Connection
  <2> HIDE DEF u
  <2>4. Sound(u)
    BY <1>1, <1>3, <2>1, <2>2, <2>3 DEF Sound, Early
  <2>5. u.remaining # 0 => Good(u)
    BY <1>1, <1>3, <2>2, <2>3, <2>4 DEF Good
  <2>6. QED
    BY <1>1, <2>2, <2>3, <2>4, <2>5
<1> HIDE DEF u
<1>5. Good(t) /\ t.phase \in {"ReadingBody", "Handling", "Responded"}
  BY <1>2, <1>4, CompleteBodyGood
<1>6. Steps(s, t)
  BY <1>1, <1>5 DEF Steps, Onwards, Active, Established
<1>7. QED
  BY <1>2, <1>6

\* The sink fails: the answer waits until it has returned.
LEMMA SinkFailsSteps ==
  ASSUME IInv, NEW c \in Conns, SinkFails(c) \/ SinkStops(c)
  PROVE  \E t : Becomes(c, t) /\ Steps(conn[c], t)
<1> DEFINE s == conn[c]
           f == [s EXCEPT !.failing = TRUE]
           u == [s EXCEPT !.running = FALSE, !.failing = FALSE]
<1>1. Good(s) /\ Sound(s) /\ s \in Connection /\ s.running /\ s.phase = "ReadingBody"
  BY DEF IInv, Good, Sound, SinkFails, SinkStops
<1>2. ASSUME NEW t, Good(t), t.phase \in {"ReadingBody", "Responded", "closed"}
      PROVE  Steps(s, t)
  BY <1>1, <1>2 DEF Steps, Onwards, Active, Established
<1>3. CASE SinkFails(c)
  <2>1. Becomes(c, f)
    BY <1>3 DEF SinkFails
  <2>2. /\ f \in Connection
        /\ f.phase = s.phase /\ f.running = s.running /\ f.sink = s.sink
        /\ f.completions = s.completions /\ f.meant = s.meant
    BY <1>1 DEF Connection
  <2>3. /\ f.consumed = s.consumed /\ f.remaining = s.remaining /\ f.length = s.length
        /\ f.idle = s.idle /\ f.paused = s.paused
    BY <1>1 DEF Connection
  <2> HIDE DEF f
  <2>4. Good(f)
    BY <1>1, <2>2, <2>3 DEF Good, Sound, Early
  <2>5. QED
    BY <1>1, <1>2, <2>1, <2>2, <2>4
<1>4. CASE SinkStops(c)
  <2>1. Becomes(c, IF s.failing THEN Respond(u) ELSE Closed)
    BY <1>4 DEF SinkStops
  <2>2. /\ u \in Connection /\ ~u.running
        /\ u.phase = s.phase /\ u.sink = s.sink
        /\ u.completions = s.completions /\ u.meant = s.meant
    BY <1>1 DEF Connection
  <2>3. /\ u.consumed = s.consumed /\ u.remaining = s.remaining /\ u.length = s.length
        /\ u.idle = s.idle /\ u.paused = s.paused
    BY <1>1 DEF Connection
  <2> HIDE DEF u
  <2>4. Sound(u) /\ ~u.paused /\ u.phase \in Established
    BY <1>1, <2>2, <2>3 DEF Sound, Early, Established
  <2>5. Good(Respond(u)) /\ Respond(u).phase = "Responded"
    BY <2>2, <2>4, RespondGood
  <2>6. Good(Closed) /\ Closed.phase = "closed"
    BY BlankGood DEF Closed, Blank
  <2>7. QED
    BY <1>2, <2>1, <2>5, <2>6
<1>5. QED
  BY <1>3, <1>4

\* The handler answers at last, or aborts the upload.
LEMMA HandlerSteps ==
  ASSUME IInv, NEW c \in Conns, Answer(c) \/ Abort(c)
  PROVE  \E t : Becomes(c, t) /\ Steps(conn[c], t)
<1> DEFINE s == conn[c]
           u == [s EXCEPT !.paused = FALSE, !.idle = TRUE]
<1>1. Good(s) /\ Sound(s) /\ s \in Connection /\ s.phase \in {"Handling", "ReadingBody"}
  BY DEF IInv, Good, Answer, Abort
<1>2. ASSUME NEW t, Good(t), t.phase \in {"Responded", "closed"}
      PROVE  Steps(s, t)
  BY <1>1, <1>2 DEF Steps, Onwards, Active, Established
<1>3. CASE Answer(c)
  <2>1. Becomes(c, Respond(u)) /\ ~s.running
    BY <1>3 DEF Answer, Loop
  <2>2. /\ u \in Connection
        /\ u.phase = s.phase /\ u.running = s.running /\ u.sink = s.sink
        /\ u.completions = s.completions /\ u.meant = s.meant
    BY <1>1 DEF Connection
  <2>3. /\ u.consumed = s.consumed /\ u.remaining = s.remaining /\ u.length = s.length
        /\ u.idle /\ ~u.paused
    BY <1>1 DEF Connection
  <2> HIDE DEF u
  <2>4. Sound(u) /\ u.phase \in Established
    BY <1>1, <2>2, <2>3 DEF Sound, Early, Established
  <2>5. Good(Respond(u)) /\ Respond(u).phase = "Responded"
    BY <2>1, <2>2, <2>3, <2>4, RespondGood
  <2>6. QED
    BY <1>2, <2>1, <2>5
<1>4. CASE Abort(c)
  <2>1. Becomes(c, Closed)
    BY <1>4 DEF Abort
  <2>2. Good(Closed) /\ Closed.phase = "closed"
    BY BlankGood DEF Closed, Blank
  <2>3. QED
    BY <1>2, <2>1, <2>2
<1>5. QED
  BY <1>3, <1>4

\* Every step but that of a socket that comes in.
LEMMA OtherSteps ==
  ASSUME IInv, NEW c \in Conns, Socket(c) \/ RequestStep(c), ~Incoming(c)
  PROVE  \E t : Becomes(c, t) /\ Steps(conn[c], t)
<1>1. CASE Socket(c)
  BY <1>1, SocketSteps DEF Socket
<1>2. CASE RequestStep(c)
  <2>1. CASE \E head \in Heads : HeadAnswered(c, head)
    <3>1. 0 \in 0..MaxUnits
      BY UnitsAssumption
    <3>2. QED
      BY <2>1, <3>1, HeadSteps
  <2>2. CASE \E head \in Heads, n \in 0..MaxUnits :
               \/ BodilessHeadArrives(c, head, n)
               \/ \E cap \in 0..MaxUnits : HeadArrives(c, head, n, cap)
    <3>1. 0 \in 0..MaxUnits
      BY UnitsAssumption
    <3>2. PICK head \in Heads, n \in 0..MaxUnits :
               \/ BodilessHeadArrives(c, head, n)
               \/ \E cap \in 0..MaxUnits : HeadArrives(c, head, n, cap)
      BY <2>2
    <3>3. CASE BodilessHeadArrives(c, head, n)
      BY <3>1, <3>3, HeadSteps
    <3>4. CASE \E cap \in 0..MaxUnits : HeadArrives(c, head, n, cap)
      BY <3>4, HeadSteps
    <3>5. QED
      BY <3>2, <3>3, <3>4
  <2>3. CASE \E n \in 1..MaxUnits : BodyArrives(c, n)
    BY <2>3, BodySteps
  <2>4. CASE SinkTakes(c)
    BY <2>4, SinkTakesSteps
  <2>5. CASE SinkFails(c) \/ SinkStops(c)
    BY <2>5, SinkFailsSteps
  <2>6. CASE Answer(c) \/ Abort(c)
    BY <2>6, HandlerSteps
  <2>7. QED
    BY <1>2, <2>1, <2>2, <2>3, <2>4, <2>5, <2>6 DEF RequestStep
<1>3. QED
  BY <1>1, <1>2

-----------------------------------------------------------------------------
(* The invariant                                                           *)

\* A step of one connection keeps the invariant of all of them.
LEMMA BecomesKeeps ==
  ASSUME IInv, NEW c \in Conns, NEW t, Becomes(c, t), Good(t)
  PROVE  IInv'
<1>1. t \in Connection
  BY DEF Good, Sound
<1>2. conn' = [conn EXCEPT ![c] = t]
  BY DEF Becomes
<1>3. conn' \in [Conns -> Connection] /\ \A k \in Conns : conn'[k] = IF k = c THEN t ELSE conn[k]
  BY <1>1, <1>2 DEF IInv
<1>4. QED
  BY <1>3 DEF IInv

\* Before anything comes in there is nothing to keep.
LEMMA InitGood == Init => IInv
<1>1. Good(Blank) /\ Blank \in Connection
  BY BlankGood DEF Good, Sound
<1>2. QED
  BY <1>1 DEF Init, IInv

\* It holds initially and every step keeps it.
LEMMA Inductive == Spec => []IInv
<1>1. IInv /\ [Next]_vars => IInv'
  <2> SUFFICES ASSUME IInv, [Next]_vars PROVE IInv'
    OBVIOUS
  <2>1. CASE UNCHANGED vars
    BY <2>1 DEF vars, IInv
  <2>2. CASE Next
    <3>1. PICK c \in Conns : Socket(c) \/ RequestStep(c)
      BY <2>2 DEF Next
    <3>2. \E t : Becomes(c, t) /\ Good(t)
      BY <3>1, OtherSteps, IncomingSteps DEF Steps
    <3>3. QED
      BY <3>2, BecomesKeeps
  <2>3. QED
    BY <2>1, <2>2
<1>2. QED
  BY <1>1, InitGood, PTL DEF Spec

\* The variables keep their types.
THEOREM TypeCorrect == Spec => []TypeOK
<1>1. IInv => TypeOK
  BY DEF IInv, TypeOK
<1>2. QED
  BY <1>1, Inductive, PTL

\* A handler gets each body exactly as it was declared and hears of its end once,
\* in whatever pieces it comes and whatever follows it.
THEOREM BodiesAreExact == Spec => []BodyIsExact
<1>1. IInv => BodyIsExact
  <2> SUFFICES ASSUME IInv, NEW c \in Conns
               PROVE  LET s == conn[c] IN
                      /\ s.consumed + s.remaining = s.length
                      /\ s.completions <= 1
                      /\ s.completions = 1 => s.consumed = s.length
    BY DEF BodyIsExact
  <2>1. Sound(conn[c])
    BY DEF IInv, Good
  <2>2. conn[c].consumed \in 0..MaxUnits /\ conn[c].length \in 0..MaxUnits
    BY <2>1 DEF Sound, Connection
  <2>3. QED
    BY <2>1, <2>2, UnitsAssumption DEF Sound
<1>2. QED
  BY <1>1, Inductive, PTL

\* A connection never waits for bytes that it has.
THEOREM BuffersAreEmptied == Spec => []NothingLeftInBuffer
<1>1. IInv => NothingLeftInBuffer
  BY DEF IInv, Good, NothingLeftInBuffer
<1>2. QED
  BY <1>1, Inductive, PTL

\* A sink is there until its call has returned.
THEOREM SinksOutlive == Spec => []SinkOutlivesItsCall
<1>1. IInv => SinkOutlivesItsCall
  BY DEF IInv, Good, Sound, SinkOutlivesItsCall
<1>2. QED
  BY <1>1, Inductive, PTL

\* No Content-Length is taken for another: what was compared with the handler's
\* cap is what the sender declared, however many digits he wrote.
THEOREM LengthsAreExact == Spec => []LengthIsExact
<1>1. IInv => LengthIsExact
  BY DEF IInv, Good, Sound, LengthIsExact
<1>2. QED
  BY <1>1, Inductive, PTL

\* The idle timer runs on every established connection, except exactly while a
\* handler waits for its user.
TimedUnlessWaiting == \A c \in Connections : conn[c].idle <=> conn[c].phase # "Handling"

\* No pause of the idle timer (pauseIdleTimeout) outlives the wait it is for, and
\* no connection is left without one: what EveryConnectionEnds rests on, for any
\* number of connections.
THEOREM ConnectionsAreTimed == Spec => []TimedUnlessWaiting
<1>1. IInv => TimedUnlessWaiting
  BY DEF IInv, Good, Sound, TimedUnlessWaiting, Connections
<1>2. QED
  BY <1>1, Inductive, PTL

-----------------------------------------------------------------------------
(* The limit on connections                                                *)

EstablishedIn(f) == {c \in Conns : f[c].phase \in Established}
HandshakingIn(f) == {c \in Conns : f[c].phase = "handshaking"}
ActiveIn(f) == {c \in Conns : f[c].phase \in Active}

\* Established connections and handshakes are different connections.
LEMMA ActiveAreBoth ==
  ASSUME NEW f
  PROVE  /\ IsFiniteSet(ActiveIn(f)) /\ Cardinality(ActiveIn(f)) \in Nat
         /\ Cardinality(EstablishedIn(f)) \in Nat /\ Cardinality(HandshakingIn(f)) \in Nat
         /\ Cardinality(EstablishedIn(f)) + Cardinality(HandshakingIn(f)) =
              Cardinality(ActiveIn(f))
<1> DEFINE E == EstablishedIn(f)
           H == HandshakingIn(f)
           A == ActiveIn(f)
<1>1. E \in SUBSET Conns /\ H \in SUBSET Conns /\ A \in SUBSET Conns
  BY DEF EstablishedIn, HandshakingIn, ActiveIn
<1>2. A = E \cup H /\ E \cap H = {}
  BY DEF EstablishedIn, HandshakingIn, ActiveIn, Active, Established
<1> HIDE DEF E, H, A
<1>3. IsFiniteSet(E) /\ IsFiniteSet(H) /\ IsFiniteSet(A)
  BY <1>1, ConnsAssumption, FS_Subset
<1>4. Cardinality(E) \in Nat /\ Cardinality(H) \in Nat /\ Cardinality(A) \in Nat
  BY <1>3, FS_CardinalityType
<1>5. Cardinality(A) = Cardinality(E) + Cardinality(H) - Cardinality(E \cap H)
  BY <1>2, <1>3, FS_Union
<1>6. Cardinality(E \cap H) = 0
  BY <1>2, FS_EmptySet
<1>7. QED
  BY <1>3, <1>4, <1>5, <1>6 DEF E, H, A

\* So the bound is one on their number, before a step and after it.
LEMMA BoundIsOnActive ==
  /\ BoundedConnections <=> Cardinality(ActiveIn(conn)) <= 2 * MaxConnections - 1
  /\ BoundedConnections' <=> Cardinality(ActiveIn(conn')) <= 2 * MaxConnections - 1
<1>1. Connections = EstablishedIn(conn) /\ Pending = HandshakingIn(conn)
  BY DEF Connections, Pending, EstablishedIn, HandshakingIn
<1>2. Connections' = EstablishedIn(conn') /\ Pending' = HandshakingIn(conn')
  BY DEF Connections, Pending, EstablishedIn, HandshakingIn
<1>3. BoundedConnections <=> Cardinality(ActiveIn(conn)) <= 2 * MaxConnections - 1
  BY <1>1, ActiveAreBoth DEF BoundedConnections
<1>4. BoundedConnections' <=> Cardinality(ActiveIn(conn')) <= 2 * MaxConnections - 1
  BY <1>2, ActiveAreBoth DEF BoundedConnections
<1>5. QED
  BY <1>3, <1>4

\* Fewer connections do not break a bound.
LEMMA FewerBounded ==
  ASSUME BoundedConnections, ActiveIn(conn') \subseteq ActiveIn(conn)
  PROVE  BoundedConnections'
<1>1. Cardinality(ActiveIn(conn')) <= Cardinality(ActiveIn(conn))
  BY ActiveAreBoth, FS_Subset
<1>2. /\ Cardinality(ActiveIn(conn)) \in Nat /\ Cardinality(ActiveIn(conn')) \in Nat
      /\ MaxConnections \in Nat
  BY ActiveAreBoth, LimitAssumption
<1>3. Cardinality(ActiveIn(conn)) <= 2 * MaxConnections - 1
  BY BoundIsOnActive
<1>4. Cardinality(ActiveIn(conn')) <= 2 * MaxConnections - 1
  BY <1>1, <1>2, <1>3
<1>5. QED
  BY <1>4, BoundIsOnActive

\* A socket that is let in finds fewer than the limit of either kind.
LEMMA IncomingBounded ==
  ASSUME IInv, BoundedConnections, NEW c \in Conns, Incoming(c)
  PROVE  BoundedConnections'
<1> DEFINE p == IF Cardinality(Connections) >= MaxConnections THEN "closed" ELSE "handshaking"
<1>1. /\ conn' = [conn EXCEPT ![c] = [conn[c] EXCEPT !.phase = p]]
      /\ conn[c].phase = "none" /\ Cardinality(Pending) < MaxConnections
  BY DEF Incoming, Becomes
<1>2. p \in {"closed", "handshaking"}
  OBVIOUS
<1>3. p = "handshaking" => ~(Cardinality(Connections) >= MaxConnections)
  OBVIOUS
<1> HIDE DEF p
<1>4. \A k \in Conns : conn'[k].phase = IF k = c THEN p ELSE conn[k].phase
  BY <1>1 DEF IInv, Connection
<1>5. CASE p = "closed"
  <2>1. ActiveIn(conn') \subseteq ActiveIn(conn)
    BY <1>4, <1>5 DEF ActiveIn, Active, Established
  <2>2. QED
    BY <2>1, FewerBounded
<1>6. CASE p = "handshaking"
  <2>1. ActiveIn(conn') = ActiveIn(conn) \cup {c} /\ c \notin ActiveIn(conn)
    BY <1>1, <1>4, <1>6 DEF ActiveIn, Active, Established
  <2>2. Cardinality(ActiveIn(conn')) = Cardinality(ActiveIn(conn)) + 1
    BY <2>1, ActiveAreBoth, FS_AddElement
  <2>3. Connections = EstablishedIn(conn) /\ Pending = HandshakingIn(conn)
    BY DEF Connections, Pending, EstablishedIn, HandshakingIn
  <2>4. /\ Cardinality(EstablishedIn(conn)) \in Nat /\ Cardinality(HandshakingIn(conn)) \in Nat
        /\ Cardinality(EstablishedIn(conn)) + Cardinality(HandshakingIn(conn)) =
             Cardinality(ActiveIn(conn))
    BY ActiveAreBoth
  <2>5. Cardinality(EstablishedIn(conn)) < MaxConnections
    BY <1>3, <1>6, <2>3, <2>4, LimitAssumption
  <2>6. Cardinality(ActiveIn(conn')) <= 2 * MaxConnections - 1
    BY <1>1, <2>2, <2>3, <2>4, <2>5, LimitAssumption
  <2>7. QED
    BY <2>6, BoundIsOnActive
<1>7. QED
  BY <1>2, <1>5, <1>6

\* Connections and handshakes together stay below twice the limit.
THEOREM ConnectionsAreBounded == Spec => []BoundedConnections
<1>1. Init => BoundedConnections
  <2> SUFFICES ASSUME Init PROVE BoundedConnections
    OBVIOUS
  <2>1. ActiveIn(conn) = {}
    BY DEF Init, Blank, ActiveIn, Active, Established
  <2>2. Cardinality(ActiveIn(conn)) = 0
    BY <2>1, FS_EmptySet
  <2>3. QED
    BY <2>2, BoundIsOnActive, LimitAssumption
<1>2. IInv /\ BoundedConnections /\ [Next]_vars => BoundedConnections'
  <2> SUFFICES ASSUME IInv, BoundedConnections, [Next]_vars PROVE BoundedConnections'
    OBVIOUS
  <2>1. CASE UNCHANGED vars
    BY <2>1, FewerBounded DEF vars
  <2>2. ASSUME NEW c \in Conns, Socket(c) \/ RequestStep(c), ~Incoming(c)
        PROVE  BoundedConnections'
    <3>1. PICK t : Becomes(c, t) /\ Steps(conn[c], t)
      BY <2>2, OtherSteps
    <3>2. ActiveIn(conn') \subseteq ActiveIn(conn)
      BY <3>1 DEF Becomes, Steps, ActiveIn, IInv
    <3>3. QED
      BY <3>2, FewerBounded
  <2>3. QED
    BY <2>1, <2>2, IncomingBounded DEF Next
<1>3. QED
  BY <1>1, <1>2, Inductive, PTL DEF Spec

-----------------------------------------------------------------------------
(* The refinement                                                          *)

\* Going onwards through the phases is going onwards in life.
LEMMA OnwardsInLife ==
  ASSUME NEW p \in Phases, NEW q \in Phases, Onwards(p, q)
  PROVE  LifeOf(q) \in Life!Lives /\ LifeOf(q) \in Life!Onward[LifeOf(p)]
  BY DEF Phases, Onwards, LifeOf, Life!Lives, Life!Onward

\* A connection carries one request, is answered once, waits at most once, and
\* never comes back.
THEOREM KeepsLife == Spec => ImplementsLife
<1> DEFINE life == [c \in Conns |-> LifeOf(conn[c].phase)]
<1>1. Init => Life!LifeInit
  BY DEF Init, Life!LifeInit, Blank, LifeOf
<1>2. IInv /\ [Next]_vars => [Life!LifeNext]_life
  <2> SUFFICES ASSUME IInv, [Next]_vars PROVE [Life!LifeNext]_life
    OBVIOUS
  <2>1. CASE UNCHANGED vars
    BY <2>1 DEF vars
  <2>2. ASSUME NEW c \in Conns, NEW t, Becomes(c, t), Good(t), Onwards(conn[c].phase, t.phase)
        PROVE  Life!LifeNext
    <3>1. /\ \A k \in Conns : conn[k].phase \in Phases /\ conn'[k].phase \in Phases
          /\ \A k \in Conns : Onwards(conn[k].phase, conn'[k].phase)
      BY <2>2 DEF Becomes, Good, Sound, IInv, Connection, Onwards
    <3>2. \A k \in Conns : /\ LifeOf(conn'[k].phase) \in Life!Lives
                           /\ LifeOf(conn'[k].phase) \in Life!Onward[LifeOf(conn[k].phase)]
      BY <3>1, OnwardsInLife
    <3>3. life' = [k \in Conns |-> LifeOf(conn'[k].phase)]
      OBVIOUS
    <3>4. QED
      BY <3>2, <3>3 DEF Life!LifeNext
  <2>3. CASE Next
    <3>1. PICK c \in Conns : Socket(c) \/ RequestStep(c)
      BY <2>3 DEF Next
    <3>2. \E t : Becomes(c, t) /\ Good(t) /\ Onwards(conn[c].phase, t.phase)
      BY <3>1, OtherSteps, IncomingSteps DEF Steps
    <3>3. QED
      BY <2>2, <3>2
  <2>4. QED
    BY <2>1, <2>3
<1>3. QED
  BY <1>1, <1>2, Inductive, PTL DEF Spec, ImplementsLife, Life!LifeSpec
=============================================================================
