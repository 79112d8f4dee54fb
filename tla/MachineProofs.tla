---------------------------- MODULE MachineProofs ----------------------------
(***************************************************************************)
(* Proofs about Machine, for any number of programs, keys and devices: the *)
(* files the programs share, what they may lose, and when a device's       *)
(* identity can be torn.                                                   *)
(***************************************************************************)
EXTENDS Machine, TLAPS

-----------------------------------------------------------------------------
(* The trust store                                                         *)

TrustInv == TrustTypeOK /\ CurrentListsAreTheFile

\* Saving makes the writer's lists the file's, and everybody else's old.
LEMMA SavedKeeps ==
  ASSUME TrustInv, NEW p \in Programs, p \in opened, NEW changed \in Lists, Saved(p, changed)
  PROVE  TrustInv'
  BY DEF TrustInv, TrustTypeOK, CurrentListsAreTheFile, Saved

\* A change that could not be written changes nothing.
LEMMA ChangeKeeps ==
  ASSUME TrustInv, NEW p \in Programs, NEW changed \in Lists, Change(p, changed)
  PROVE  TrustInv'
<1>1. CASE Saved(p, changed)
  BY <1>1, SavedKeeps DEF Change
<1>2. CASE NotSaved(p, changed)
  BY <1>2 DEF NotSaved, trustVars, TrustInv, TrustTypeOK, CurrentListsAreTheFile
<1>3. QED
  BY <1>1, <1>2 DEF Change

\* The lists stay lists, however they are changed.
LEMMA ListsType ==
  ASSUME TrustInv, NEW p \in Programs, NEW d \in Devices
  PROVE  /\ [lists[p] EXCEPT !.blocked = @ \cup {d}] \in Lists
         /\ [lists[p] EXCEPT !.blocked = @ \ {d}] \in Lists
         /\ [lists[p] EXCEPT !.peers = @ \cup {d}] \in Lists
         /\ [lists[p] EXCEPT !.peers = @ \ {d}] \in Lists
<1>1. lists[p] \in Lists
  BY DEF TrustInv, TrustTypeOK
<1>2. QED
  BY <1>1 DEF Lists

\* So do lists that are cleared.
LEMMA ClearedType ==
  ASSUME TrustInv, NEW p \in Programs
  PROVE  [lists[p] EXCEPT !.peers = {}] \in Lists
<1>1. lists[p] \in Lists
  BY DEF TrustInv, TrustTypeOK
<1>2. QED
  BY <1>1 DEF Lists

\* Every operation of the store keeps its invariant.
LEMMA TrustStepKeeps ==
  ASSUME TrustInv, NEW p \in Programs, TrustStep(p)
  PROVE  TrustInv'
<1>1. CASE Load(p) \/ Reload(p)
  BY <1>1 DEF TrustInv, TrustTypeOK, CurrentListsAreTheFile, Load, Reload
<1>2. CASE Clear(p)
  BY <1>2, ClearedType, ChangeKeeps DEF Clear
<1>3. ASSUME NEW d \in Devices, Block(p, d) \/ Unblock(p, d) \/ Add(p, d) \/ Remove(p, d)
      PROVE  TrustInv'
  BY <1>3, ListsType, ChangeKeeps DEF Block, Unblock, Add, Remove
<1>4. QED
  BY <1>1, <1>2, <1>3 DEF TrustStep

\* The end of a program, too.
LEMMA CloseKeeps ==
  ASSUME TrustInv, NEW p \in Programs, Close(p)
  PROVE  TrustInv'
<1>1. Nobody \in Lists
  BY DEF Nobody, Lists
<1>2. QED
  BY <1>1 DEF TrustInv, TrustTypeOK, CurrentListsAreTheFile, Close

\* What a program saves that knows the file leaves out nothing but what it was
\* told to take off.
LEMMA LossesAreMeant ==
  ASSUME TrustInv, NEW p \in Programs, TrustStep(p) \/ Close(p), NEW d \in Devices
  PROVE  /\ d \in disk.blocked \ disk'.blocked =>
              \E q \in Programs : Unblock(q, d) \/ (current' = {q} /\ q \notin current)
         /\ d \in disk.peers \ disk'.peers =>
              \E q \in Programs :
                 Remove(q, d) \/ Clear(q) \/ (current' = {q} /\ q \notin current)
<1> DEFINE Lost == d \in disk.blocked \ disk'.blocked \/ d \in disk.peers \ disk'.peers
<1>1. CASE disk' = disk
  BY <1>1
<1>2. CASE disk' # disk /\ p \notin current
  <2>1. current' = {p}
    BY <1>2 DEF TrustStep, Load, Reload, Clear, Block, Unblock, Add, Remove, Change, Saved,
                NotSaved, trustVars, Close
  <2>2. QED
    BY <1>2, <2>1
<1>3. CASE disk' # disk /\ p \in current
  <2>1. lists[p] = disk /\ disk \in Lists
    BY <1>3 DEF TrustInv, TrustTypeOK, CurrentListsAreTheFile
  <2>2. ~(Load(p) \/ Reload(p) \/ Close(p))
    BY <1>3 DEF Load, Reload, Close
  <2>3. \A changed : Change(p, changed) => disk' = changed
    BY <1>3 DEF Change, Saved, NotSaved, trustVars
  <2>4. CASE Clear(p)
    <3>1. disk' = [disk EXCEPT !.peers = {}]
      BY <2>1, <2>3, <2>4 DEF Clear
    <3>2. disk'.blocked = disk.blocked
      BY <2>1, <3>1 DEF Lists
    <3>3. QED
      BY <2>4, <3>2
  <2>5. CASE \E e \in Devices : Block(p, e)
    <3>1. PICK e \in Devices : disk' = [disk EXCEPT !.blocked = @ \cup {e}]
      BY <2>1, <2>3, <2>5 DEF Block
    <3>2. disk'.peers = disk.peers /\ disk.blocked \subseteq disk'.blocked
      BY <2>1, <3>1 DEF Lists
    <3>3. QED
      BY <3>2
  <2>6. CASE \E e \in Devices : Add(p, e)
    <3>1. PICK e \in Devices : disk' = [disk EXCEPT !.peers = @ \cup {e}]
      BY <2>1, <2>3, <2>6 DEF Add
    <3>2. disk'.blocked = disk.blocked /\ disk.peers \subseteq disk'.peers
      BY <2>1, <3>1 DEF Lists
    <3>3. QED
      BY <3>2
  <2>7. CASE \E e \in Devices : Unblock(p, e)
    <3>1. PICK e \in Devices : Unblock(p, e)
      BY <2>7
    <3>2. disk' = [disk EXCEPT !.blocked = @ \ {e}]
      BY <2>1, <2>3, <3>1 DEF Unblock
    <3>3. disk'.peers = disk.peers /\ disk'.blocked = disk.blocked \ {e}
      BY <2>1, <3>2 DEF Lists
    <3>4. QED
      BY <3>1, <3>3
  <2>8. CASE \E e \in Devices : Remove(p, e)
    <3>1. PICK e \in Devices : Remove(p, e)
      BY <2>8
    <3>2. disk' = [disk EXCEPT !.peers = @ \ {e}]
      BY <2>1, <2>3, <3>1 DEF Remove
    <3>3. disk'.blocked = disk.blocked /\ disk'.peers = disk.peers \ {e}
      BY <2>1, <3>2 DEF Lists
    <3>4. QED
      BY <3>1, <3>3
  <2>9. QED
    BY <2>2, <2>4, <2>5, <2>6, <2>7, <2>8 DEF TrustStep
<1>4. QED
  BY <1>1, <1>2, <1>3

-----------------------------------------------------------------------------
(* The identity                                                            *)

\* A start that is past the key has one.
StartsHaveKeys ==
    \A p \in Programs : phase[p] \notin {"off", "looked"} => privateKey[p] \in Keys

\* As long as no start has overwritten another's key: the two files belong
\* together, a start that has a key has the one in the file and takes a
\* certificate for it, and one that has found no key has found no certificate.
FilesBelong ==
    ~overlapped =>
        /\ keyFile # NoKey /\ certFile # Id!NoCert => keyFile = certFile.of
        /\ \A p \in Programs :
             /\ phase[p] \in {"keyed", "issuing"} => keyFile = privateKey[p]
             /\ phase[p] \in {"looked", "generated"} /\ keyFile = NoKey => certFile = Id!NoCert
             /\ phase[p] = "certified" => certified[p] = privateKey[p]

IdInv == Id!IdentityTypeOK /\ StartsHaveKeys /\ Id!RunsWithItsOwnCertificate /\ FilesBelong

\* Program p moves to phase ph with k and c, and nobody else moves.
Moves(p, ph, k, c) ==
    /\ phase' \in [Programs -> {"off", "looked", "generated", "keyed", "issuing",
                                "certified", "running"}]
    /\ privateKey' \in [Programs -> Keys \cup {NoKey}]
    /\ certified' \in [Programs -> Keys \cup {NoKey}]
    /\ phase'[p] = ph /\ privateKey'[p] = k /\ certified'[p] = c
    /\ \A q \in Programs \ {p} :
         phase'[q] = phase[q] /\ privateKey'[q] = privateKey[q] /\ certified'[q] = certified[q]

\* What a program holds changes for itself alone.
LEMMA HoldsType ==
  ASSUME IdInv, NEW p \in Programs,
         NEW ph \in {"off", "looked", "generated", "keyed", "issuing", "certified", "running"},
         NEW k \in Keys \cup {NoKey}, NEW c \in Keys \cup {NoKey}, Id!Holds(p, ph, k, c)
  PROVE  Moves(p, ph, k, c)
  BY DEF IdInv, Id!IdentityTypeOK, Id!Holds, Moves

\* A certificate in the file was issued for a key.
LEMMA CertificateType ==
  ASSUME IdInv
  PROVE  /\ certFile.of \in Keys \cup {NoKey}
         /\ certFile # Id!NoCert => certFile \in [of : Keys, old : BOOLEAN]
  BY DEF IdInv, Id!IdentityTypeOK, Id!NoCert

\* Steps that only look, or only remember.
LEMMA LookingKeeps ==
  ASSUME IdInv, NEW p \in Programs,
         Id!CheckFiles(p) \/ Id!ReadKey(p) \/ Id!GenerateKey(p) \/ Id!ReadCertificate(p)
  PROVE  IdInv'
<1>1. UNCHANGED <<keyFile, certFile, overlapped>>
  BY DEF Id!CheckFiles, Id!ReadKey, Id!GenerateKey, Id!ReadCertificate
<1>2. keyFile \in Keys \cup {NoKey} /\ privateKey[p] \in Keys \cup {NoKey}
  BY DEF IdInv, Id!IdentityTypeOK
<1>3. CASE Id!CheckFiles(p)
  <2>1. /\ Id!Holds(p, "looked", NoKey, NoKey)
        /\ ~(certFile # Id!NoCert /\ keyFile = NoKey)
    BY <1>3 DEF Id!CheckFiles
  <2>2. Moves(p, "looked", NoKey, NoKey)
    BY <2>1, HoldsType
  <2>3. QED
    BY <1>1, <2>1, <2>2
       DEF IdInv, Id!IdentityTypeOK, StartsHaveKeys, Id!RunsWithItsOwnCertificate, FilesBelong,
           Moves
<1>4. CASE Id!ReadKey(p)
  <2>1. Id!Holds(p, "keyed", keyFile, NoKey) /\ keyFile \in Keys
    BY <1>2, <1>4 DEF Id!ReadKey
  <2>2. Moves(p, "keyed", keyFile, NoKey)
    BY <2>1, HoldsType
  <2>3. QED
    BY <1>1, <2>1, <2>2
       DEF IdInv, Id!IdentityTypeOK, StartsHaveKeys, Id!RunsWithItsOwnCertificate, FilesBelong,
           Moves
<1>5. CASE Id!GenerateKey(p)
  <2>1. PICK k \in Keys : Id!Holds(p, "generated", k, NoKey)
    BY <1>5 DEF Id!GenerateKey
  <2>2. phase[p] = "looked"
    BY <1>5 DEF Id!GenerateKey
  <2>3. Moves(p, "generated", k, NoKey)
    BY <2>1, HoldsType
  <2>4. QED
    BY <1>1, <2>2, <2>3
       DEF Moves, IdInv, Id!IdentityTypeOK, StartsHaveKeys, Id!RunsWithItsOwnCertificate,
           FilesBelong
<1>6. CASE Id!ReadCertificate(p)
  <2>1. phase[p] = "keyed" /\ privateKey[p] \in Keys
    BY <1>6 DEF Id!ReadCertificate, IdInv, StartsHaveKeys
  <2>2. PICK ph \in {"issuing", "certified"} :
          /\ Id!Holds(p, ph, privateKey[p], certFile.of)
          /\ ph = "certified" => certFile # Id!NoCert
    BY <1>6 DEF Id!ReadCertificate
  <2>3. certFile.of \in Keys \cup {NoKey}
    BY CertificateType
  <2>4. Moves(p, ph, privateKey[p], certFile.of)
    BY <1>2, <2>2, <2>3, HoldsType
  <2>5. ~overlapped /\ ph = "certified" => certFile.of = privateKey[p]
    BY <2>1, <2>2, NoKeyAssumption DEF IdInv, FilesBelong
  <2>6. Id!IdentityTypeOK' /\ StartsHaveKeys' /\ Id!RunsWithItsOwnCertificate'
    BY <1>1, <2>1, <2>4
       DEF Moves, IdInv, Id!IdentityTypeOK, StartsHaveKeys, Id!RunsWithItsOwnCertificate
  <2>7. FilesBelong'
    BY <1>1, <2>1, <2>4, <2>5 DEF Moves, IdInv, FilesBelong
  <2>8. QED
    BY <2>6, <2>7 DEF IdInv
<1>7. QED
  BY <1>3, <1>4, <1>5, <1>6

\* The key is written: it overlaps, or nobody has used another and there is no
\* certificate.
LEMMA WriteKeyKeeps ==
  ASSUME IdInv, NEW p \in Programs, Id!WriteKey(p)
  PROVE  IdInv'
<1>1. /\ phase[p] = "generated" /\ privateKey[p] \in Keys
      /\ keyFile' = privateKey[p] /\ certFile' = certFile
      /\ overlapped' = (overlapped \/ keyFile # NoKey)
      /\ Id!Holds(p, "keyed", privateKey[p], NoKey)
  BY DEF Id!WriteKey, IdInv, StartsHaveKeys
<1>2. /\ Id!IdentityTypeOK' /\ StartsHaveKeys' /\ Id!RunsWithItsOwnCertificate'
  BY <1>1, HoldsType
     DEF Moves, IdInv, Id!IdentityTypeOK, StartsHaveKeys, Id!RunsWithItsOwnCertificate
<1>3. ASSUME ~overlapped' PROVE FilesBelong'
  <2>1. ~overlapped /\ keyFile = NoKey /\ certFile = Id!NoCert
    BY <1>1, <1>3 DEF IdInv, FilesBelong
  <2>2. \A q \in Programs : phase[q] \notin {"keyed", "issuing"}
    BY <2>1, NoKeyAssumption DEF IdInv, FilesBelong, StartsHaveKeys
  <2>3. Moves(p, "keyed", privateKey[p], NoKey)
    BY <1>1, HoldsType
  <2>4. QED
    BY <1>1, <2>1, <2>2, <2>3 DEF Moves, FilesBelong, IdInv
<1>4. QED
  BY <1>2, <1>3 DEF IdInv, FilesBelong

\* A certificate is issued from the key that is in the file.
LEMMA IssueKeeps ==
  ASSUME IdInv, NEW p \in Programs, Id!IssueCertificate(p)
  PROVE  IdInv'
<1>1. /\ phase[p] = "issuing" /\ privateKey[p] \in Keys
      /\ certFile' = Id!Issued(privateKey[p]) /\ UNCHANGED <<keyFile, overlapped>>
      /\ Id!Holds(p, "certified", privateKey[p], privateKey[p])
  BY DEF Id!IssueCertificate, IdInv, StartsHaveKeys
<1>2. certFile' \in [of : Keys, old : BOOLEAN] /\ certFile'.of = privateKey[p]
  BY <1>1 DEF Id!Issued
<1>3. Id!IdentityTypeOK' /\ StartsHaveKeys' /\ Id!RunsWithItsOwnCertificate'
  BY <1>1, <1>2, HoldsType
     DEF Moves, IdInv, Id!IdentityTypeOK, StartsHaveKeys, Id!RunsWithItsOwnCertificate
<1>4. ASSUME ~overlapped' PROVE FilesBelong'
  <2>1. ~overlapped /\ keyFile = privateKey[p] /\ keyFile # NoKey
    BY <1>1, <1>4, NoKeyAssumption DEF IdInv, FilesBelong
  <2>2. QED
    BY <1>1, <1>2, <2>1, HoldsType DEF Moves, IdInv, FilesBelong
<1>5. QED
  BY <1>3, <1>4 DEF IdInv, FilesBelong

\* The last check, and every way out.
LEMMA VerifyKeeps ==
  ASSUME IdInv, NEW p \in Programs, Id!Verify(p) \/ Id!Leave(p)
  PROVE  IdInv'
<1>1. UNCHANGED <<keyFile, certFile, overlapped>>
  BY DEF Id!Verify, Id!Leave
<1>2. \/ /\ Id!Holds(p, "running", privateKey[p], certified[p])
         /\ certified[p] = privateKey[p] /\ privateKey[p] \in Keys
      \/ Id!Holds(p, "off", NoKey, NoKey)
  BY DEF Id!Verify, Id!Leave, Id!Gone, IdInv, StartsHaveKeys
<1>3. CASE Id!Holds(p, "off", NoKey, NoKey)
  <2>1. Moves(p, "off", NoKey, NoKey)
    BY <1>3, HoldsType
  <2>2. QED
    BY <1>1, <2>1
     DEF Moves, IdInv, Id!IdentityTypeOK, StartsHaveKeys, Id!RunsWithItsOwnCertificate, FilesBelong
<1>4. CASE /\ Id!Holds(p, "running", privateKey[p], certified[p])
           /\ certified[p] = privateKey[p] /\ privateKey[p] \in Keys
  BY <1>1, <1>4, HoldsType
     DEF Moves, IdInv, Id!IdentityTypeOK, StartsHaveKeys, Id!RunsWithItsOwnCertificate, FilesBelong
<1>5. QED
  BY <1>2, <1>3, <1>4

\* Time passes, or the user deletes files while nobody starts.
LEMMA WorldKeeps ==
  ASSUME IdInv, Id!Expire \/ Id!UserDeletes
  PROVE  IdInv'
<1>1. UNCHANGED <<phase, privateKey, certified, overlapped>>
  BY DEF Id!Expire, Id!UserDeletes, Id!memoryVars
<1>2. StartsHaveKeys' /\ Id!RunsWithItsOwnCertificate'
  BY <1>1 DEF IdInv, StartsHaveKeys, Id!RunsWithItsOwnCertificate
<1>3. CASE Id!Expire
  <2>1. /\ certFile # Id!NoCert /\ keyFile' = keyFile
        /\ certFile' = [certFile EXCEPT !.old = TRUE]
    BY <1>3 DEF Id!Expire
  <2>2. certFile' \in [of : Keys, old : BOOLEAN] /\ certFile'.of = certFile.of
    BY <2>1, CertificateType
  <2>3. Id!IdentityTypeOK'
    BY <1>1, <2>1, <2>2 DEF IdInv, Id!IdentityTypeOK
  <2>4. FilesBelong'
    BY <1>1, <2>1, <2>2 DEF IdInv, FilesBelong
  <2>5. QED
    BY <1>2, <2>3, <2>4 DEF IdInv
<1>4. CASE Id!UserDeletes
  <2>1. /\ keyFile' \in {keyFile, NoKey} /\ certFile' \in {certFile, Id!NoCert}
        /\ \A p \in Programs : phase[p] \in {"off", "running"}
    BY <1>4 DEF Id!UserDeletes, Id!Starting
  <2>2. Id!IdentityTypeOK'
    BY <1>1, <2>1 DEF IdInv, Id!IdentityTypeOK
  <2>3. FilesBelong'
    BY <1>1, <2>1 DEF IdInv, FilesBelong
  <2>4. QED
    BY <1>2, <2>2, <2>3 DEF IdInv
<1>5. QED
  BY <1>3, <1>4

-----------------------------------------------------------------------------
\* A step of the machine is one of the store, of an identity, of both, or of
\* neither.
LEMMA StepsOfTheMachine ==
  ASSUME [Next]_vars
  PROVE  /\ \/ UNCHANGED trustVars
            \/ \E p \in Programs : TrustStep(p) \/ Close(p)
         /\ \/ UNCHANGED idVars
            \/ Id!Expire \/ Id!UserDeletes
            \/ \E p \in Programs : Id!LoadOrCreate(p) \/ Id!Leave(p)
  BY DEF Next, vars, World, TrustUsed, IdentityLoaded, Ends

\* Both invariants hold initially and every step keeps them.
LEMMA Inductive == Spec => [](TrustInv /\ IdInv)
<1>1. Init => TrustInv
  BY DEF Init, TrustInit, TrustInv, TrustTypeOK, CurrentListsAreTheFile, Nobody, Lists
<1>2. Init => IdInv
  BY DEF Init, Id!IdentityInit, IdInv, Id!IdentityTypeOK, StartsHaveKeys,
         Id!RunsWithItsOwnCertificate, FilesBelong
<1>3. TrustInv /\ [Next]_vars => TrustInv'
  <2> SUFFICES ASSUME TrustInv, [Next]_vars PROVE TrustInv'
    OBVIOUS
  <2>1. CASE UNCHANGED trustVars
    BY <2>1 DEF trustVars, TrustInv, TrustTypeOK, CurrentListsAreTheFile
  <2>2. QED
    BY <2>1, StepsOfTheMachine, TrustStepKeeps, CloseKeeps
<1>4. IdInv /\ [Next]_vars => IdInv'
  <2> SUFFICES ASSUME IdInv, [Next]_vars PROVE IdInv'
    OBVIOUS
  <2>1. CASE UNCHANGED idVars
    BY <2>1 DEF idVars, IdInv, Id!IdentityTypeOK, StartsHaveKeys,
                Id!RunsWithItsOwnCertificate, FilesBelong
  <2>2. CASE Id!Expire \/ Id!UserDeletes
    BY <2>2, WorldKeeps
  <2>3. ASSUME NEW p \in Programs, Id!LoadOrCreate(p) \/ Id!Leave(p) PROVE IdInv'
    BY <2>3, LookingKeeps, WriteKeyKeeps, IssueKeeps, VerifyKeeps DEF Id!LoadOrCreate
  <2>4. QED
    BY <2>1, <2>2, <2>3, StepsOfTheMachine
<1>5. QED
  BY <1>1, <1>2, <1>3, <1>4, PTL DEF Spec

\* The variables keep their types.
THEOREM TypesCorrect == Spec => [](TrustTypeOK /\ Id!IdentityTypeOK)
<1>1. TrustInv /\ IdInv => TrustTypeOK /\ Id!IdentityTypeOK
  BY DEF TrustInv, IdInv
<1>2. QED
  BY <1>1, Inductive, PTL

\* A program that has read the trust store since it was last written decides by
\* what is in it.
THEOREM CurrentListsAreRight == Spec => []CurrentListsAreTheFile
<1>1. TrustInv => CurrentListsAreTheFile
  BY DEF TrustInv
<1>2. QED
  BY <1>1, Inductive, PTL

\* An entry is lost only to a user who takes it off or to a program that saves
\* lists it had read before another one saved.
THEOREM OnlyStaleWritersLose == Spec => EntriesAreLostOnlyToStaleWriters
<1> DEFINE Meant ==
             \A d \in Devices :
               /\ d \in disk.blocked \ disk'.blocked =>
                    \E p \in Programs : Unblock(p, d) \/ (current' = {p} /\ p \notin current)
               /\ d \in disk.peers \ disk'.peers =>
                    \E p \in Programs :
                       Remove(p, d) \/ Clear(p) \/ (current' = {p} /\ p \notin current)
<1>1. TrustInv /\ [Next]_vars => [Meant]_trustVars
  BY StepsOfTheMachine, LossesAreMeant
<1>2. QED
  BY <1>1, Inductive, PTL DEF Spec, EntriesAreLostOnlyToStaleWriters

\* A program that runs has a certificate for its own key.
THEOREM RunningIsCertified == Spec => []RunsWithItsOwnCertificate
<1>1. IdInv => RunsWithItsOwnCertificate
  BY DEF IdInv, RunsWithItsOwnCertificate
<1>2. QED
  BY <1>1, Inductive, PTL

\* The two files of an identity come apart only when two first starts overlap,
\* whatever else goes wrong.
THEOREM TornByFirstStarts == Spec => []OnlyFirstStartsTear
<1>1. IdInv => OnlyFirstStartsTear
  BY DEF IdInv, FilesBelong, OnlyFirstStartsTear, Id!OnlyFirstStartsTear, Id!IdentityTypeOK
<1>2. QED
  BY <1>1, Inductive, PTL

\* No start fails for want of files that fit, but where two first starts overlap.
THEOREM StartsSucceed == Spec => []OnlyFirstStartsFail
<1>1. IdInv => OnlyFirstStartsFail
  BY DEF IdInv, FilesBelong, OnlyFirstStartsFail, Id!OnlyFirstStartsFail
<1>2. QED
  BY <1>1, Inductive, PTL
=============================================================================
