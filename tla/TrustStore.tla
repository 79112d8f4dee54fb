------------------------------- MODULE TrustStore -------------------------------
(***************************************************************************)
(* The paired and the blocked devices (core/trust/truststore.cpp): one     *)
(* file that the programs of a user share, and the lists each program has  *)
(* in memory.  Every change is made in memory, the whole is written to the *)
(* file, and the change is taken back if it could not be written.  There   *)
(* is no lock between the programs: who writes last wins, and only a       *)
(* reload() before the change limits what is lost.                         *)
(*                                                                         *)
(* An entry is the device it is about; the names and times with it are     *)
(* left out.                                                               *)
(***************************************************************************)
EXTENDS FiniteSets

CONSTANTS Programs, Devices

VARIABLES
    disk,       \* trust.json
    lists,      \* m_entries and m_blocked of each program
    opened,     \* the programs that have loaded the file
    current     \* those that have read or written it since it was last written

trustVars == <<disk, lists, opened, current>>

Lists == [peers : SUBSET Devices, blocked : SUBSET Devices]
Nobody == [peers |-> {}, blocked |-> {}]

-----------------------------------------------------------------------------
\* load(): a file that is not there is an empty one.  Without a readable file the
\* program does not start.
Load(p) ==
    /\ p \notin opened
    /\ opened' = opened \cup {p}
    /\ lists' = [lists EXCEPT ![p] = disk]
    /\ current' = current \cup {p}
    /\ UNCHANGED disk

\* reload(); one that fails leaves the lists as they are.
Reload(p) ==
    /\ p \in opened
    /\ lists' = [lists EXCEPT ![p] = disk]
    /\ current' = current \cup {p}
    /\ UNCHANGED <<disk, opened>>

\* save() of the changed lists, which replaces the file.
Saved(p, changed) ==
    /\ disk' = changed
    /\ lists' = [lists EXCEPT ![p] = changed]
    /\ current' = {p}
    /\ UNCHANGED opened

\* Mutation: the change stays in memory.
NotSavedStays(p, changed) ==
    /\ lists' = [lists EXCEPT ![p] = changed]
    /\ UNCHANGED <<disk, opened, current>>

\* save() failed: the change is taken back.
NotSaved(p, changed) == UNCHANGED trustVars

Change(p, changed) == p \in opened /\ (Saved(p, changed) \/ NotSaved(p, changed))

Block(p, d) == Change(p, [lists[p] EXCEPT !.blocked = @ \cup {d}])

Unblock(p, d) == d \in lists[p].blocked /\ Change(p, [lists[p] EXCEPT !.blocked = @ \ {d}])

Add(p, d) == Change(p, [lists[p] EXCEPT !.peers = @ \cup {d}])

Remove(p, d) == d \in lists[p].peers /\ Change(p, [lists[p] EXCEPT !.peers = @ \ {d}])

\* Mutation: the file is emptied.
ClearAll(p) == Change(p, Nobody)

Clear(p) == Change(p, [lists[p] EXCEPT !.peers = {}])

\* The program ends.
Close(p) ==
    /\ p \in opened
    /\ opened' = opened \ {p}
    /\ lists' = [lists EXCEPT ![p] = Nobody]
    /\ current' = current \ {p}
    /\ UNCHANGED disk

TrustInit ==
    /\ disk = Nobody
    /\ lists = [p \in Programs |-> Nobody]
    /\ opened = {} /\ current = {}

TrustStep(p) ==
    \/ Load(p) \/ Reload(p) \/ Clear(p)
    \/ \E d \in Devices : Block(p, d) \/ Unblock(p, d) \/ Add(p, d) \/ Remove(p, d)

-----------------------------------------------------------------------------
(* Properties                                                              *)

\* The types of the variables.
TrustTypeOK ==
    /\ disk \in Lists
    /\ lists \in [Programs -> Lists]
    /\ opened \in SUBSET Programs
    /\ current \in SUBSET opened

\* A program that has read the file since anybody last wrote it decides by what
\* is in it, though it has changed its lists many times and some of its writes
\* have failed.
CurrentListsAreTheFile == \A p \in current : lists[p] = disk

\* An entry leaves the file only when a user takes that one off the list, or all
\* of the paired ones, or when a program saves that had not read the file since
\* another one wrote it: the one way in which a block can be lost.
EntriesAreLostOnlyToStaleWriters ==
    [][\A d \in Devices :
        /\ d \in disk.blocked \ disk'.blocked =>
             \E p \in Programs : Unblock(p, d) \/ (current' = {p} /\ p \notin current)
        /\ d \in disk.peers \ disk'.peers =>
             \E p \in Programs :
                Remove(p, d) \/ Clear(p) \/ (current' = {p} /\ p \notin current)]_trustVars
=============================================================================
