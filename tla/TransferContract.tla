-------------------------- MODULE TransferContract --------------------------
(***************************************************************************)
(* What the receiver promises about its one transfer session, without      *)
(* connections, timers, prompts or directories: a session opens under an   *)
(* id that was never used before, promising a set of files; each promised  *)
(* file is delivered at most once and only while its session is open; a    *)
(* session that is over stays over.  The next one can only open then.      *)
(* (TECHNICAL_ROUTE.md sections 5.2, 5.5, 5.6, 5.13, as ReceiveService     *)
(* carries them out.)                                                      *)
(***************************************************************************)
CONSTANTS SessionIds, Files, NoSession

VARIABLES
    open,       \* the open session
    promised,   \* the files it may deliver
    delivered,  \* the files each session has delivered
    over        \* ids that are not, or never again, an open session's

contractVars == <<open, promised, delivered, over>>

ContractInit ==
    /\ open = NoSession
    /\ promised = {}
    /\ delivered = [s \in SessionIds |-> {}]
    /\ over = {}

\* Ids may be used up without a session coming of it at any time.
UseUp(live) == over' \in SUBSET SessionIds /\ over \subseteq over' /\ live \notin over'

Open(s) ==
    /\ open = NoSession
    /\ s \notin over
    /\ open' = s
    /\ promised' \in SUBSET Files
    /\ UseUp(s)
    /\ UNCHANGED delivered

Deliver(f) ==
    /\ open # NoSession
    /\ f \in promised \ delivered[open]
    /\ delivered' = [delivered EXCEPT ![open] = @ \cup {f}]
    /\ UNCHANGED <<open, promised, over>>

Close ==
    /\ open # NoSession
    /\ open' = NoSession
    /\ promised' = {}
    /\ UseUp(NoSession)
    /\ open \in over'
    /\ UNCHANGED delivered

Idle == UseUp(open) /\ UNCHANGED <<open, promised, delivered>>

ContractNext ==
    \/ \E s \in SessionIds : Open(s)
    \/ \E f \in Files : Deliver(f)
    \/ Close
    \/ Idle

ContractSpec == ContractInit /\ [][ContractNext]_contractVars
=============================================================================
