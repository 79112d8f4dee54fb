-------------------------- MODULE MCReceiveService --------------------------
(***************************************************************************)
(* Small instances of ReceiveService for TLC.  Connections and session ids *)
(* are numbered, and the behaviours are cut down to one of each class that *)
(* differs only in names: a symmetry that is sound for liveness too.       *)
(***************************************************************************)
EXTENDS ReceiveService, TLC

CONSTANTS f1, f2, d1

\* One file arrives in a single piece, the other in two.
SizeTwoFiles == f1 :> 1 @@ f2 :> 2

\* Connections and ids are used in the order of their numbers, and the first
\* request is d1's: all three are only compared with each other.  Nobody is on
\* the black list: it only ever refuses a prepare, which the prompt limiter may
\* refuse as well, and no property reads it.
Canonical ==
    /\ \A c \in Conns : IsNew(c) => \A k \in Conns : k > c => IsNew(k)
    /\ \A id \in issued : 1 .. id \subseteq issued
    /\ conn[1].peer \in {d1, NoDevice}
    /\ blocked = {}

MCInit == Init /\ blocked = {}
MCNext == Next /\ Canonical'

MCFairSpec == MCInit /\ [][MCNext]_vars /\ LoopFairness
=============================================================================
