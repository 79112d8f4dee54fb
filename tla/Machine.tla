-------------------------------- MODULE Machine --------------------------------
(***************************************************************************)
(* The programs one user runs on a device (cli/main.cpp): "serve", "send"  *)
(* and "pair" load the identity and then the trust store; "block" needs    *)
(* only the store.  They share the files and nothing else, and any of them *)
(* may end at any step, of itself or by a crash.                           *)
(***************************************************************************)
EXTENDS TrustStore

CONSTANTS Keys, NoKey

ASSUME NoKeyAssumption == NoKey \notin Keys

VARIABLES keyFile, certFile, phase, privateKey, certified, overlapped

Id == INSTANCE Identity

idVars == <<keyFile, certFile, phase, privateKey, certified, overlapped>>
vars == <<trustVars, idVars>>

\* The trust store is opened when the identity has been loaded, or without one.
MayUseTrust(p) == phase[p] \in {"off", "running"}

TrustUsed(p) == MayUseTrust(p) /\ TrustStep(p) /\ UNCHANGED idVars

IdentityLoaded(p) == p \notin opened /\ Id!LoadOrCreate(p) /\ UNCHANGED trustVars

Ends(p) ==
    \/ phase[p] = "off" /\ Close(p) /\ UNCHANGED idVars
    \/ p \notin opened /\ Id!Leave(p) /\ UNCHANGED trustVars
    \/ Close(p) /\ Id!Leave(p)

World == (Id!Expire \/ Id!UserDeletes) /\ UNCHANGED trustVars

Init == TrustInit /\ Id!IdentityInit

Next == World \/ \E p \in Programs : TrustUsed(p) \/ IdentityLoaded(p) \/ Ends(p)

Spec == Init /\ [][Next]_vars

RunsWithItsOwnCertificate == Id!RunsWithItsOwnCertificate

OnlyFirstStartsTear == Id!OnlyFirstStartsTear

OnlyFirstStartsFail == Id!OnlyFirstStartsFail
=============================================================================
