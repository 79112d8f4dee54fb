------------------------------- MODULE WinDnsSd -------------------------------
(***************************************************************************)
(* The Windows backend of the discovery                                    *)
(* (core/discovery/windnssddiscovery.cpp): one object of the Qt thread, to *)
(* which threads of the system's pool report.  A callback finds the object *)
(* through a context that is never freed, takes the context's lock, and    *)
(* posts an event to the object, if the context still names it; the        *)
(* destructor takes each lock to clear the name.                           *)
(*                                                                         *)
(* The program starts a backend once.  A context belongs to one request to *)
(* the system; Contexts bounds how many are made, and MaxPosted how many   *)
(* events wait.  The calls of onRegisterComplete() and onBrowseComplete()  *)
(* to postToOwner() are one step: what is posted by the first of them is   *)
(* thrown away if the object goes before the second.                       *)
(***************************************************************************)
EXTENDS Naturals, Sequences

CONSTANTS Contexts, Peers, MaxPosted, NoPeer

ASSUME NullAssumption == NoPeer \notin Peers

VARIABLES
    life,       \* the object: fresh, alive, destroying, destroyed
    started,    \* m_started
    completed,  \* m_session->registerCompleted
    instance,   \* m_session->registeredInstance
    apiHolds,   \* what the system was asked to do with it, and has not confirmed
    context,    \* the requests made
    callable,   \* the contexts the system may still call back
    inside,     \* contexts whose lock a pool thread holds, having seen the owner
    posted,     \* events posted to the object
    resolved    \* m_resolved

sessionVars == <<completed, instance, apiHolds>>
poolVars == <<context, callable, inside>>
vars == <<life, started, sessionVars, poolVars, posted, resolved>>

Kinds == {"unused", "register", "browse", "resolve"}
Context == [kind : Kinds, owned : BOOLEAN, peer : Peers \cup {NoPeer}]
Event == [what : {"completed", "failed", "found", "resolved"}, peer : Peers \cup {NoPeer}]

Unused == [kind |-> "unused", owned |-> FALSE, peer |-> NoPeer]
Made(kind, p) == [kind |-> kind, owned |-> TRUE, peer |-> p]
Happened(what, p) == [what |-> what, peer |-> p]

Free(c) == context[c].kind = "unused"

-----------------------------------------------------------------------------
(* The Qt thread                                                           *)

\* m_session->registered: the system was asked to register, and stop() has not run.
Registered == started /\ instance = "made"

\* DnsServiceDeRegister() hands the same request back to the system, with the
\* instance in it and onRegisterComplete() to be called once more.
Deregister ==
    IF Registered
    THEN /\ apiHolds' = apiHolds \cup {"deregister"}
         /\ callable' = callable \cup {c \in Contexts : context[c].kind = "register"}
    ELSE UNCHANGED <<apiHolds, callable>>

\* Mutation: the instance is freed whether or not it has been registered yet.
StopFreesAnyway ==
    /\ started' = FALSE
    /\ resolved' = {}
    /\ Deregister
    /\ instance' = IF Registered THEN "freed" ELSE instance

\* stop(), which does nothing the second time.  An instance whose registration the
\* system has not yet confirmed is left to it for good.  That the browsing is
\* cancelled has no effect that could be relied on: callbacks may follow.
Stop ==
    /\ started' = FALSE
    /\ resolved' = {}
    /\ Deregister
    /\ instance' = IF Registered /\ completed THEN "freed" ELSE instance

\* start(): registerService() and browse(), or browse() fails and stops what was
\* registered, or registerService() fails.  An instance whose registration failed
\* at once is never freed either, and is left out.
Start(announce) ==
    /\ life = "fresh"
    /\ life' = "alive"
    /\ \/ /\ announce
          /\ \E r \in Contexts : \E b \in Contexts \ {r} :
               /\ context' = [context EXCEPT ![r] = Made("register", NoPeer),
                                             ![b] = Made("browse", NoPeer)]
               /\ \/ callable' = {r, b} /\ started' = TRUE /\ apiHolds' = {"register"}
                  \/ /\ callable' = {r} /\ started' = FALSE
                     /\ apiHolds' = {"register", "deregister"}
          /\ instance' = "made"
       \/ /\ ~announce
          /\ \E b \in Contexts :
               /\ context' = [context EXCEPT ![b] = Made("browse", NoPeer)]
               /\ \/ callable' = {b} /\ started' = TRUE
                  \/ callable' = {} /\ started' = FALSE
          /\ UNCHANGED <<instance, apiHolds>>
       \/ announce /\ UNCHANGED <<started, instance, apiHolds, context, callable>>
    /\ UNCHANGED <<completed, inside, posted, resolved>>

\* stop() called by the program, or by fail() in the middle of start().
StopCalled ==
    /\ life = "alive"
    /\ Stop
    /\ UNCHANGED <<life, completed, context, inside, posted>>

\* onRegisterComplete()'s first event.
RegisterCompleted(e) ==
    /\ e.what = "completed"
    /\ completed' = TRUE
    /\ UNCHANGED <<started, instance, apiHolds, poolVars, resolved>>

\* onRegisterComplete()'s second event: fail().
RegisterFailed(e) ==
    /\ e.what = "failed"
    /\ Stop
    /\ UNCHANGED <<completed, context, inside>>

\* resolveInstances(), started or not.
ResolveInstance(e) ==
    /\ e.what = "found"
    /\ \E c \in Contexts :
         /\ Free(c)
         /\ context' = [context EXCEPT ![c] = Made("resolve", e.peer)]
         /\ callable' = callable \cup {c}
    /\ UNCHANGED <<started, sessionVars, inside, resolved>>

\* adoptResolved(): nothing is taken after stop().  A service that is not ours,
\* or is ourselves, is no peer.
AdoptResolved(e) ==
    /\ e.what = "resolved"
    /\ resolved' = IF started THEN resolved \cup {e.peer} ELSE resolved
    /\ UNCHANGED <<started, sessionVars, poolVars>>

\* The event loop runs the oldest event.
Dispatch ==
    /\ life = "alive" /\ posted # <<>>
    /\ posted' = Tail(posted)
    /\ LET e == Head(posted) IN
         RegisterCompleted(e) \/ RegisterFailed(e) \/ ResolveInstance(e) \/ AdoptResolved(e)
    /\ UNCHANGED life

\* No address came with the result: the name is looked up first.
LookUpHost ==
    /\ life = "alive" /\ posted # <<>>
    /\ Head(posted).what = "resolved"
    /\ posted' = Append(Tail(posted), Head(posted))
    /\ UNCHANGED <<life, started, sessionVars, poolVars, resolved>>

\* The destructor.
Destroy ==
    /\ life = "alive"
    /\ life' = "destroying"
    /\ Stop
    /\ UNCHANGED <<completed, context, inside, posted>>

\* Mutation: the destructor does not wait for a callback that is posting.
ForgetOwnerUnlocked(c) ==
    /\ life = "destroying" /\ context[c].owned
    /\ context' = [context EXCEPT ![c].owned = FALSE]
    /\ UNCHANGED <<life, started, sessionVars, callable, inside, posted, resolved>>

\* The destructor has a context's lock, and clears its owner.
ForgetOwner(c) ==
    /\ life = "destroying" /\ context[c].owned
    /\ c \notin inside
    /\ context' = [context EXCEPT ![c].owned = FALSE]
    /\ UNCHANGED <<life, started, sessionVars, callable, inside, posted, resolved>>

\* ~QObject() drops what has been posted.
Destroyed ==
    /\ life = "destroying" /\ \A c \in Contexts : ~context[c].owned
    /\ life' = "destroyed"
    /\ posted' = <<>>
    /\ UNCHANGED <<started, sessionVars, poolVars, resolved>>

-----------------------------------------------------------------------------
(* The system's threads                                                    *)

\* postToOwner() has the lock; without an owner it returns.
Enter(c) ==
    /\ c \in callable \ inside
    /\ context[c].owned
    /\ inside' = inside \cup {c}
    /\ UNCHANGED <<life, started, sessionVars, context, callable, posted, resolved>>

\* What a callback may have to report.
Reports(c) ==
    CASE context[c].kind = "register" ->
           {<<Happened("completed", NoPeer)>>,
            <<Happened("completed", NoPeer), Happened("failed", NoPeer)>>}
      [] context[c].kind = "browse" -> {<<>>} \cup {<<Happened("found", p)>> : p \in Peers}
      [] OTHER -> {<<>>, <<Happened("resolved", context[c].peer)>>}

\* Whether the system may call back again: a browse goes on, a registration has a
\* callback for each of the two requests, a resolution one.
CallsAgain(c) ==
    \/ context[c].kind = "browse"
    \/ context[c].kind = "register" /\ apiHolds' # {}

\* The callback posts, and lets go of the lock.  onRegisterComplete() does not ask
\* whether it is the registration that ended or the deregistration.
Post(c) ==
    /\ c \in inside
    /\ \E report \in Reports(c) :
         /\ Len(posted) + Len(report) <= MaxPosted
         /\ posted' = posted \o report
    /\ inside' = inside \ {c}
    /\ IF context[c].kind = "register"
       THEN \E request \in apiHolds : apiHolds' = apiHolds \ {request}
       ELSE UNCHANGED apiHolds
    /\ callable' = IF CallsAgain(c) THEN callable ELSE callable \ {c}
    /\ UNCHANGED <<life, started, completed, instance, context, resolved>>

-----------------------------------------------------------------------------
Init ==
    /\ life = "fresh" /\ started = FALSE
    /\ completed = FALSE /\ instance = "none" /\ apiHolds = {}
    /\ context = [c \in Contexts |-> Unused]
    /\ callable = {} /\ inside = {}
    /\ posted = <<>>
    /\ resolved = {}

QtStep ==
    \/ \E announce \in BOOLEAN : Start(announce)
    \/ StopCalled \/ Dispatch \/ LookUpHost
    \/ Destroy \/ Destroyed
    \/ \E c \in Contexts : ForgetOwner(c)

PoolStep == \E c \in Contexts : Enter(c) \/ Post(c)

Next == QtStep \/ PoolStep

Spec == Init /\ [][Next]_vars

-----------------------------------------------------------------------------
(* Properties                                                              *)

\* The types of the variables.
TypeOK ==
    /\ life \in {"fresh", "alive", "destroying", "destroyed"}
    /\ started \in BOOLEAN
    /\ completed \in BOOLEAN
    /\ instance \in {"none", "made", "freed"}
    /\ apiHolds \in SUBSET {"register", "deregister"}
    /\ context \in [Contexts -> Context]
    /\ callable \in SUBSET Contexts
    /\ inside \in SUBSET Contexts
    /\ posted \in Seq(Event)
    /\ resolved \in SUBSET Peers

\* A pool thread that has found the object posts to it while it still exists,
\* however late the callback comes: the destructor waits for the lock.
OwnerOutlivesItsUse == inside # {} => life \in {"alive", "destroying"}

\* An instance is not freed while its registration is under way, whichever of
\* stop(), a failure and the destructor comes first.
InstanceOutlivesRegistration == instance = "freed" => "register" \notin apiHolds

\* What windnssddiscovery.h:151-158 and docs/handover.md:154-156 say of the handles
\* given to the system: none is freed while it may still use it.  The instance is:
\* stop() gives it to the asynchronous DnsServiceDeRegister() and frees it in the
\* next statement.
InstanceOutlivesTheApi == instance = "freed" => apiHolds = {}

\* A backend that has been stopped knows no peers, whatever the requests that
\* were under way still report; refresh() would go on announcing them.
StoppedKnowsNobody == ~started => resolved = {}
=============================================================================
