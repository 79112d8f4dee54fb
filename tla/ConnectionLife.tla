--------------------------- MODULE ConnectionLife ---------------------------
(***************************************************************************)
(* What the handlers of core/transfer rely on in a connection: it carries  *)
(* one request, is answered at most once, waits for a user at most once    *)
(* and only before that, and never comes back.  HttpServer is shown to     *)
(* keep this, and ReceiveService and Pairing to ask for no more.           *)
(***************************************************************************)
CONSTANT Conns

VARIABLE life

Lives == {"new", "body", "waiting", "answered", "closed"}

\* Where a connection may go from each stage.
Onward ==
    [new |-> Lives, body |-> {"body", "waiting", "answered", "closed"},
     waiting |-> {"waiting", "answered", "closed"},
     answered |-> {"answered", "closed"}, closed |-> {"closed"}]

LifeInit == life = [c \in Conns |-> "new"]

\* One event may end several connections: a teardown aborts the upload in flight
\* while the request that caused it is answered.
LifeNext ==
    /\ life' \in [Conns -> Lives]
    /\ \A c \in Conns : life'[c] \in Onward[life[c]]

LifeSpec == LifeInit /\ [][LifeNext]_life
=============================================================================
