--------------------------- MODULE WinDnsSdProofs ---------------------------
(***************************************************************************)
(* Proofs about WinDnsSd, for any number of requests, peers and events:    *)
(* its type invariant, the two lifetimes the backend has to get right, and *)
(* that it forgets its peers when it is stopped.                           *)
(***************************************************************************)
EXTENDS WinDnsSd, TLAPS

\* Nothing has happened before start().
FreshIsBlank ==
    life = "fresh" =>
        /\ instance = "none" /\ ~completed
        /\ posted = <<>> /\ inside = {} /\ resolved = {}
        /\ apiHolds = {} /\ ~started

\* A thread is inside only a context that names the object, and no context names
\* one that does not exist: the lock is what keeps the first, the destructor's
\* pass over the contexts the second.
OwnersAreAlive ==
    /\ \A c \in inside : context[c].owned
    /\ \A c \in Contexts : context[c].owned => life \in {"alive", "destroying"}

\* Until stop() asks for the opposite, the word that a request is complete, seen
\* or still posted, is the registration's.  Only such an instance is freed.
CompletedIsTheEnd ==
    /\ started =>
         /\ "deregister" \notin apiHolds
         /\ completed => "register" \notin apiHolds
         /\ \A i \in DOMAIN posted : posted[i].what = "completed" => "register" \notin apiHolds
    /\ instance = "freed" => "register" \notin apiHolds

\* What is reported of a peer names one.
Names(e) == e.what \in {"found", "resolved"} => e.peer \in Peers
ReportsNamePeers ==
    /\ \A i \in DOMAIN posted : Names(posted[i])
    /\ \A c \in Contexts : context[c].owned =>
         \/ context[c].kind \in {"register", "browse"}
         \/ context[c].kind = "resolve" /\ context[c].peer \in Peers

IInv ==
    /\ TypeOK /\ FreshIsBlank /\ OwnersAreAlive /\ CompletedIsTheEnd
    /\ ReportsNamePeers /\ StoppedKnowsNobody

-----------------------------------------------------------------------------
\* An event is what it was made from.
LEMMA HappenedType ==
  ASSUME NEW w \in {"completed", "failed", "found", "resolved"},
         NEW p \in Peers \cup {NoPeer}
  PROVE  Happened(w, p) \in Event /\ Happened(w, p).what = w /\ Happened(w, p).peer = p
  BY DEF Happened, Event

\* What a callback reports is a short sequence of events, and only the callback
\* of a registration reports its completion.
LEMMA ReportsType ==
  ASSUME TypeOK, OwnersAreAlive, ReportsNamePeers, NEW c \in inside, NEW report \in Reports(c)
  PROVE  /\ report \in Seq(Event)
         /\ \A i \in DOMAIN report : Names(report[i])
         /\ context[c].kind # "register" =>
              \A i \in DOMAIN report : report[i].what # "completed"
<1>1. /\ context[c].kind \in {"register", "browse", "resolve"}
      /\ context[c].kind = "resolve" => context[c].peer \in Peers
  BY DEF TypeOK, OwnersAreAlive, ReportsNamePeers
<1>2. CASE context[c].kind = "register"
  <2> DEFINE done == Happened("completed", NoPeer)
             failed == Happened("failed", NoPeer)
  <2>1. report = <<done>> \/ report = <<done, failed>>
    BY <1>2 DEF Reports
  <2>2. /\ done \in Event /\ failed \in Event
        /\ done.what = "completed" /\ failed.what = "failed"
    BY HappenedType
  <2> HIDE DEF done, failed
  <2>3. Names(done) /\ Names(failed)
    BY <2>2 DEF Names
  <2>4. CASE report = <<done>>
    BY <1>2, <2>2, <2>3, <2>4
  <2>5. CASE report = <<done, failed>>
    BY <1>2, <2>2, <2>3, <2>5
  <2>6. QED
    BY <2>1, <2>4, <2>5
<1>3. ASSUME NEW w \in {"found", "resolved"}, NEW p \in Peers,
             report = <<>> \/ report = <<Happened(w, p)>>
      PROVE  /\ report \in Seq(Event)
             /\ \A i \in DOMAIN report : Names(report[i]) /\ report[i].what # "completed"
  <2> DEFINE e == Happened(w, p)
  <2>1. e \in Event /\ e.what = w /\ e.peer = p
    BY HappenedType
  <2>2. report = <<>> \/ report = <<e>>
    BY <1>3
  <2> HIDE DEF e
  <2>3. Names(e)
    BY <2>1 DEF Names
  <2>4. CASE report = <<>>
    BY <2>4
  <2>5. CASE report = <<e>>
    BY <2>1, <2>3, <2>5
  <2>6. QED
    BY <2>2, <2>4, <2>5
<1>4. CASE context[c].kind = "browse"
  <2>1. report = <<>> \/ \E p \in Peers : report = <<Happened("found", p)>>
    BY <1>4 DEF Reports
  <2>2. CASE report = <<>>
    BY <1>4, <2>2
  <2>3. CASE \E p \in Peers : report = <<Happened("found", p)>>
    BY <1>3, <1>4, <2>3
  <2>4. QED
    BY <2>1, <2>2, <2>3
<1>5. CASE context[c].kind = "resolve"
  <2>1. report = <<>> \/ report = <<Happened("resolved", context[c].peer)>>
    BY <1>5 DEF Reports
  <2>2. QED
    BY <1>1, <1>3, <1>5, <2>1
<1>6. QED
  BY <1>1, <1>2, <1>4, <1>5

-----------------------------------------------------------------------------
(* Each action keeps the inductive invariant.                              *)

\* stop() keeps what it touches well typed, and frees only what is complete.
LEMMA StopKeeps ==
  ASSUME TypeOK, Stop
  PROVE  /\ started' = FALSE /\ resolved' = {}
         /\ instance' \in {"none", "made", "freed"}
         /\ instance' = "freed" => instance = "freed" \/ (started /\ completed)
         /\ instance = "none" => instance' = "none"
         /\ apiHolds' \in SUBSET {"register", "deregister"}
         /\ "register" \in apiHolds' => "register" \in apiHolds
         /\ callable' \in SUBSET Contexts
<1>1. /\ apiHolds \in SUBSET {"register", "deregister"} /\ callable \in SUBSET Contexts
      /\ instance \in {"none", "made", "freed"}
  BY DEF TypeOK
<1>2. CASE Registered
  BY <1>1, <1>2 DEF Stop, Deregister, Registered
<1>3. CASE ~Registered
  BY <1>1, <1>3 DEF Stop, Deregister, Registered
<1>4. QED
  BY <1>2, <1>3

\* start() leaves nothing behind that a stop() could free wrongly.
LEMMA StartKeeps ==
  ASSUME IInv, NEW announce \in BOOLEAN, Start(announce)
  PROVE  IInv'
<1> DEFINE register == Made("register", NoPeer)
           browse == Made("browse", NoPeer)
           Typed ==
             /\ started' \in BOOLEAN /\ apiHolds' \in SUBSET {"register", "deregister"}
             /\ started' => "deregister" \notin apiHolds'
             /\ instance' \in {"none", "made"}
             /\ callable' \in SUBSET Contexts
             /\ context' \in [Contexts -> Context]
             /\ \A c \in Contexts : context'[c] \in {context[c], register, browse}
<1> USE DEF IInv
<1>1. life = "fresh" /\ life' = "alive" /\ UNCHANGED <<completed, inside, posted, resolved>>
  BY DEF Start
<1>2. /\ instance = "none" /\ ~completed /\ posted = <<>> /\ inside = {} /\ resolved = {}
      /\ \A c \in Contexts : ~context[c].owned
  BY <1>1 DEF FreshIsBlank, OwnersAreAlive
<1>10. apiHolds = {} /\ ~started
  BY <1>1 DEF FreshIsBlank
<1>3. /\ register \in Context /\ register.kind = "register"
      /\ browse \in Context /\ browse.kind = "browse"
  BY DEF Made, Context, Kinds
<1> HIDE DEF register, browse
<1>4. Typed
  <2>1. CASE announce /\ UNCHANGED <<started, instance, apiHolds, context, callable>>
    BY <1>2, <1>10, <2>1 DEF TypeOK
  <2>2. ASSUME NEW r \in Contexts, NEW b \in Contexts \ {r},
               context' = [context EXCEPT ![r] = register, ![b] = browse],
               \/ callable' = {r, b} /\ started' = TRUE /\ apiHolds' = {"register"}
               \/ callable' = {r} /\ started' = FALSE /\ apiHolds' = {"register", "deregister"},
               instance' = "made"
        PROVE  Typed
    BY <1>3, <2>2 DEF TypeOK
  <2>3. ASSUME NEW b \in Contexts,
               context' = [context EXCEPT ![b] = browse],
               \/ callable' = {b} /\ started' = TRUE
               \/ callable' = {} /\ started' = FALSE,
               UNCHANGED <<instance, apiHolds>>
        PROVE  Typed
    BY <1>2, <1>3, <1>10, <2>3 DEF TypeOK
  <2>4. QED
    BY <2>1, <2>2, <2>3 DEF Start, register, browse
<1>5. TypeOK'
  BY <1>1, <1>4 DEF TypeOK
<1>6. FreshIsBlank' /\ OwnersAreAlive'
  BY <1>1, <1>2 DEF FreshIsBlank, OwnersAreAlive
<1>7. CompletedIsTheEnd' /\ StoppedKnowsNobody'
  BY <1>1, <1>2, <1>4 DEF CompletedIsTheEnd, StoppedKnowsNobody
<1>8. ReportsNamePeers'
  BY <1>1, <1>2, <1>3, <1>4 DEF ReportsNamePeers
<1>9. QED
  BY <1>5, <1>6, <1>7, <1>8

\* stop(), called by the program, keeps it,
LEMMA StopCalledKeeps ==
  ASSUME IInv, StopCalled
  PROVE  IInv'
  BY StopKeeps
     DEF IInv, TypeOK, FreshIsBlank, OwnersAreAlive, CompletedIsTheEnd,
         ReportsNamePeers, StoppedKnowsNobody,
         StopCalled, poolVars

\* and so does the first half of the destructor, which calls it.
LEMMA DestroyKeeps ==
  ASSUME IInv, Destroy
  PROVE  IInv'
  BY StopKeeps
     DEF IInv, TypeOK, FreshIsBlank, OwnersAreAlive, CompletedIsTheEnd,
         ReportsNamePeers, StoppedKnowsNobody,
         Destroy, poolVars

\* Taking the oldest event off the queue keeps it a queue of what was in it.
LEMMA TailKeeps ==
  ASSUME NEW S, NEW q \in Seq(S), q # <<>>
  PROVE  /\ Head(q) \in S /\ Tail(q) \in Seq(S)
         /\ 1 \in DOMAIN q /\ Head(q) = q[1]
         /\ \A i \in DOMAIN Tail(q) : i + 1 \in DOMAIN q /\ Tail(q)[i] = q[i + 1]
  OBVIOUS

\* Each kind of event keeps it, whatever has happened since it was posted.
LEMMA DispatchKeeps ==
  ASSUME IInv, Dispatch
  PROVE  IInv'
<1> DEFINE e == Head(posted)
<1> USE DEF IInv
<1>1. life = "alive" /\ life' = "alive" /\ posted # <<>> /\ posted' = Tail(posted)
  BY DEF Dispatch
<1>2. posted \in Seq(Event)
  BY DEF TypeOK
<1>3. /\ e \in Event /\ posted' \in Seq(Event)
      /\ 1 \in DOMAIN posted /\ e = posted[1]
      /\ \A i \in DOMAIN posted' : i + 1 \in DOMAIN posted /\ posted'[i] = posted[i + 1]
  BY <1>1, <1>2, TailKeeps
<1>4. started =>
        /\ e.what = "completed" => "register" \notin apiHolds
        /\ \A i \in DOMAIN posted' : posted'[i].what = "completed" => "register" \notin apiHolds
  BY <1>3 DEF CompletedIsTheEnd
<1>11. Names(e) /\ \A i \in DOMAIN posted' : Names(posted'[i])
  BY <1>3 DEF ReportsNamePeers
<1>5. RegisterCompleted(e) \/ RegisterFailed(e) \/ ResolveInstance(e) \/ AdoptResolved(e)
  BY DEF Dispatch
<1> HIDE DEF e
<1>6. CASE RegisterCompleted(e)
  BY <1>1, <1>3, <1>4, <1>11, <1>6
     DEF RegisterCompleted, TypeOK, FreshIsBlank, OwnersAreAlive, CompletedIsTheEnd,
         ReportsNamePeers, StoppedKnowsNobody, poolVars
<1>7. CASE RegisterFailed(e)
  BY <1>1, <1>3, <1>4, <1>11, <1>7, StopKeeps
     DEF RegisterFailed, TypeOK, FreshIsBlank, OwnersAreAlive, CompletedIsTheEnd,
         ReportsNamePeers, StoppedKnowsNobody, poolVars
<1>8. CASE ResolveInstance(e)
  <2> DEFINE new == Made("resolve", e.peer)
  <2>1. e.peer \in Peers
    BY <1>8, <1>11 DEF ResolveInstance, Names
  <2>2. PICK c \in Contexts : context' = [context EXCEPT ![c] = new] /\ callable' = callable \cup {c}
    BY <1>8 DEF ResolveInstance
  <2>3. UNCHANGED <<started, completed, instance, apiHolds, inside, resolved>>
    BY <1>8 DEF ResolveInstance, sessionVars
  <2>4. new \in Context /\ new.owned /\ new.kind = "resolve" /\ new.peer \in Peers
    BY <2>1 DEF Made, Context, Kinds
  <2> HIDE DEF new
  <2>5. /\ context' \in [Contexts -> Context]
        /\ \A k \in Contexts : context'[k] \in {context[k], new}
    BY <2>2, <2>4 DEF TypeOK
  <2>6. TypeOK'
    BY <1>1, <1>3, <2>2, <2>3, <2>5 DEF TypeOK
  <2>7. OwnersAreAlive' /\ ReportsNamePeers'
    BY <1>1, <1>11, <2>3, <2>4, <2>5 DEF OwnersAreAlive, ReportsNamePeers, TypeOK
  <2>8. FreshIsBlank' /\ CompletedIsTheEnd' /\ StoppedKnowsNobody'
    BY <1>1, <1>4, <2>3 DEF FreshIsBlank, CompletedIsTheEnd, StoppedKnowsNobody
  <2>9. QED
    BY <2>6, <2>7, <2>8
<1>9. CASE AdoptResolved(e)
  <2>1. e.peer \in Peers
    BY <1>9, <1>11 DEF AdoptResolved, Names
  <2>2. UNCHANGED <<started, completed, instance, apiHolds, context, callable, inside>>
    BY <1>9 DEF AdoptResolved, sessionVars, poolVars
  <2>3. resolved' = IF started THEN resolved \cup {e.peer} ELSE resolved
    BY <1>9 DEF AdoptResolved
  <2>4. FreshIsBlank' /\ OwnersAreAlive' /\ CompletedIsTheEnd'
    BY <1>1, <1>4, <2>2 DEF FreshIsBlank, OwnersAreAlive, CompletedIsTheEnd
  <2>5. ReportsNamePeers' /\ StoppedKnowsNobody'
    BY <1>11, <2>2, <2>3 DEF ReportsNamePeers, StoppedKnowsNobody
  <2>6. TypeOK'
    BY <1>1, <1>3, <2>1, <2>2, <2>3 DEF TypeOK
  <2>7. QED
    BY <2>4, <2>5, <2>6
<1>10. QED
  BY <1>5, <1>6, <1>7, <1>8, <1>9

\* The event that is looked up goes to the end of the queue.
LEMMA LookUpHostKeeps ==
  ASSUME IInv, LookUpHost
  PROVE  IInv'
<1> DEFINE e == Head(posted)
<1> USE DEF IInv
<1>1. /\ life = "alive" /\ posted # <<>> /\ posted' = Append(Tail(posted), e)
      /\ UNCHANGED <<life, started, completed, instance, apiHolds, context, callable, inside,
                     resolved>>
  BY DEF LookUpHost, sessionVars, poolVars
<1>2. posted \in Seq(Event)
  BY DEF TypeOK
<1>3. /\ e \in Event /\ Tail(posted) \in Seq(Event)
      /\ 1 \in DOMAIN posted /\ e = posted[1]
      /\ \A i \in DOMAIN Tail(posted) :
           i + 1 \in DOMAIN posted /\ Tail(posted)[i] = posted[i + 1]
  BY <1>1, <1>2, TailKeeps
<1> DEFINE rest == Tail(posted)
<1> HIDE DEF e, rest
<1>4. /\ posted' \in Seq(Event)
      /\ \A i \in DOMAIN posted' : posted'[i] = e \/ \E j \in DOMAIN rest : posted'[i] = rest[j]
  BY <1>1, <1>3 DEF rest
<1>5. \A i \in DOMAIN posted' : \E j \in DOMAIN posted : posted'[i] = posted[j]
  BY <1>3, <1>4 DEF rest
<1>6. TypeOK'
  BY <1>1, <1>4 DEF TypeOK
<1>7. CompletedIsTheEnd' /\ ReportsNamePeers'
  BY <1>1, <1>5 DEF CompletedIsTheEnd, ReportsNamePeers
<1>8. FreshIsBlank' /\ OwnersAreAlive' /\ StoppedKnowsNobody'
  BY <1>1 DEF FreshIsBlank, OwnersAreAlive, StoppedKnowsNobody
<1>9. QED
  BY <1>6, <1>7, <1>8

\* The destructor clears a name only when nobody is inside.
LEMMA ForgetOwnerKeeps ==
  ASSUME IInv, NEW c \in Contexts, ForgetOwner(c)
  PROVE  IInv'
<1> USE DEF IInv
<1>1. /\ life = "destroying" /\ c \notin inside
      /\ context' = [context EXCEPT ![c].owned = FALSE]
      /\ UNCHANGED <<life, started, completed, instance, apiHolds, callable, inside, posted,
                     resolved>>
  BY DEF ForgetOwner, sessionVars
<1>2. /\ context' \in [Contexts -> Context]
      /\ ~context'[c].owned
      /\ \A k \in Contexts \ {c} : context'[k] = context[k]
  BY <1>1 DEF TypeOK, Context
<1>3. TypeOK'
  BY <1>1, <1>2 DEF TypeOK
<1>4. OwnersAreAlive' /\ ReportsNamePeers'
  BY <1>1, <1>2 DEF OwnersAreAlive, ReportsNamePeers, TypeOK
<1>5. FreshIsBlank' /\ CompletedIsTheEnd' /\ StoppedKnowsNobody'
  BY <1>1 DEF FreshIsBlank, CompletedIsTheEnd, StoppedKnowsNobody
<1>6. QED
  BY <1>3, <1>4, <1>5

\* The destructor's end comes when no context names the object.
LEMMA DestroyedKeeps ==
  ASSUME IInv, Destroyed
  PROVE  IInv'
  BY DEF IInv, TypeOK, FreshIsBlank, OwnersAreAlive, CompletedIsTheEnd, ReportsNamePeers,
         StoppedKnowsNobody, Destroyed, sessionVars, poolVars

\* A thread goes in only where the object is named.
LEMMA EnterKeeps ==
  ASSUME IInv, NEW c \in Contexts, Enter(c)
  PROVE  IInv'
  BY DEF IInv, TypeOK, FreshIsBlank, OwnersAreAlive, CompletedIsTheEnd, ReportsNamePeers,
         StoppedKnowsNobody, Enter, sessionVars

\* A joined sequence holds what its parts hold.
LEMMA ConcatKeeps ==
  ASSUME NEW S, NEW q \in Seq(S), NEW r \in Seq(S)
  PROVE  /\ q \o r \in Seq(S)
         /\ \A i \in DOMAIN (q \o r) :
              \/ \E j \in DOMAIN q : (q \o r)[i] = q[j]
              \/ \E j \in DOMAIN r : (q \o r)[i] = r[j]
<1>1. /\ q \o r \in Seq(S) /\ DOMAIN (q \o r) = 1..(Len(q) + Len(r))
      /\ Len(q) \in Nat /\ Len(r) \in Nat
      /\ DOMAIN q = 1..Len(q) /\ DOMAIN r = 1..Len(r)
  OBVIOUS
<1>2. ASSUME NEW i \in DOMAIN (q \o r), i <= Len(q)
      PROVE  i \in DOMAIN q /\ (q \o r)[i] = q[i]
  BY <1>1, <1>2
<1>3. ASSUME NEW i \in DOMAIN (q \o r), ~(i <= Len(q))
      PROVE  i - Len(q) \in DOMAIN r /\ (q \o r)[i] = r[i - Len(q)]
  BY <1>1, <1>3
<1>4. QED
  BY <1>1, <1>2, <1>3

\* What is posted is appended to the queue; the completion of a registration is
\* posted in the step in which the system has registered the instance.
LEMMA PostKeeps ==
  ASSUME IInv, NEW c \in Contexts, Post(c)
  PROVE  IInv'
<1> USE DEF IInv
<1>1. /\ c \in inside /\ inside' = inside \ {c}
      /\ callable' \in {callable, callable \ {c}}
      /\ context[c].kind = "register" => \E request \in apiHolds : apiHolds' = apiHolds \ {request}
      /\ context[c].kind # "register" => apiHolds' = apiHolds
      /\ UNCHANGED <<life, started, completed, instance, context, resolved>>
  BY DEF Post
<1>2. PICK report \in Reports(c) : posted' = posted \o report
  BY DEF Post
<1>3. /\ report \in Seq(Event)
      /\ \A i \in DOMAIN report : Names(report[i])
      /\ context[c].kind # "register" => \A i \in DOMAIN report : report[i].what # "completed"
  BY <1>1, ReportsType
<1>4. posted \in Seq(Event)
  BY DEF TypeOK
<1>5. /\ posted' \in Seq(Event)
      /\ \A i \in DOMAIN posted' :
           \/ \E j \in DOMAIN posted : posted'[i] = posted[j]
           \/ \E j \in DOMAIN report : posted'[i] = report[j]
  BY <1>2, <1>3, <1>4, ConcatKeeps
<1>6. life # "fresh"
  BY <1>1 DEF FreshIsBlank
<1>12. /\ apiHolds' \in SUBSET apiHolds
       /\ started /\ context[c].kind = "register" => "register" \notin apiHolds'
  BY <1>1 DEF CompletedIsTheEnd, TypeOK
<1>7. TypeOK'
  BY <1>1, <1>5, <1>12 DEF TypeOK
<1>8. CompletedIsTheEnd'
  BY <1>1, <1>3, <1>5, <1>12 DEF CompletedIsTheEnd, TypeOK
<1>9. ReportsNamePeers'
  BY <1>1, <1>3, <1>5 DEF ReportsNamePeers
<1>10. FreshIsBlank' /\ OwnersAreAlive' /\ StoppedKnowsNobody'
  BY <1>1, <1>6 DEF FreshIsBlank, OwnersAreAlive, StoppedKnowsNobody
<1>11. QED
  BY <1>7, <1>8, <1>9, <1>10

-----------------------------------------------------------------------------
\* All of it holds initially and is kept by every step.
LEMMA Inductive == Spec => []IInv
<1>1. Init => IInv
  <2> SUFFICES ASSUME Init PROVE IInv
    OBVIOUS
  <2>1. Unused \in Context /\ ~Unused.owned
    BY DEF Unused, Context, Kinds
  <2>2. /\ context \in [Contexts -> Context] /\ \A c \in Contexts : ~context[c].owned
        /\ posted \in Seq(Event) /\ DOMAIN posted = {}
    BY <2>1 DEF Init
  <2>3. TypeOK
    BY <2>2 DEF Init, TypeOK
  <2>4. FreshIsBlank /\ OwnersAreAlive /\ CompletedIsTheEnd
    BY <2>2 DEF Init, FreshIsBlank, OwnersAreAlive, CompletedIsTheEnd
  <2>5. ReportsNamePeers /\ StoppedKnowsNobody
    BY <2>2 DEF Init, ReportsNamePeers, StoppedKnowsNobody
  <2>6. QED
    BY <2>3, <2>4, <2>5 DEF IInv
<1>2. IInv /\ [Next]_vars => IInv'
  <2> SUFFICES ASSUME IInv, [Next]_vars PROVE IInv'
    OBVIOUS
  <2>1. CASE QtStep
    BY <2>1, StartKeeps, StopCalledKeeps, DispatchKeeps, LookUpHostKeeps, DestroyKeeps,
       DestroyedKeeps, ForgetOwnerKeeps DEF QtStep
  <2>2. CASE PoolStep
    BY <2>2, EnterKeeps, PostKeeps DEF PoolStep
  <2>3. CASE UNCHANGED vars
    BY <2>3 DEF IInv, TypeOK, FreshIsBlank, OwnersAreAlive, CompletedIsTheEnd,
                ReportsNamePeers, StoppedKnowsNobody, vars, sessionVars, poolVars
  <2>4. QED
    BY <2>1, <2>2, <2>3 DEF Next
<1>3. QED
  BY <1>1, <1>2, PTL DEF Spec

\* The variables keep their types.
THEOREM TypeCorrect == Spec => []TypeOK
<1>1. IInv => TypeOK
  BY DEF IInv
<1>2. QED
  BY <1>1, Inductive, PTL

\* No thread of the pool uses the object after its end, however many requests are
\* under way and however late they report.
THEOREM OwnerOutlives == Spec => []OwnerOutlivesItsUse
<1>1. IInv => OwnerOutlivesItsUse
  BY DEF IInv, OwnersAreAlive, OwnerOutlivesItsUse, TypeOK
<1>2. QED
  BY <1>1, Inductive, PTL

\* The instance is never freed while it is being registered: a completion that is
\* read while the backend runs cannot be the deregistration's, which stop() alone
\* asks for.  (It is freed while it is being deregistered: InstanceOutlivesTheApi
\* is false.)
THEOREM InstanceOutlives == Spec => []InstanceOutlivesRegistration
<1>1. IInv => InstanceOutlivesRegistration
  BY DEF IInv, CompletedIsTheEnd, InstanceOutlivesRegistration
<1>2. QED
  BY <1>1, Inductive, PTL

\* A backend that was stopped has no peer left to announce, although events that
\* were posted before are still handled.
THEOREM StoppedForgets == Spec => []StoppedKnowsNobody
<1>1. IInv => StoppedKnowsNobody
  BY DEF IInv
<1>2. QED
  BY <1>1, Inductive, PTL
=============================================================================
