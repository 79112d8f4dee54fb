-------------------------------- MODULE Identity --------------------------------
(***************************************************************************)
(* The identity of a device (core/identity.cpp): a private key and a       *)
(* certificate for it, in two files that every program of the user shares. *)
(* loadOrCreate() looks at the files, reads the key or makes one, reads    *)
(* the certificate or issues one from that key, and checks that the two    *)
(* belong together.  It holds no lock, so the starts of several programs   *)
(* interleave; each file is replaced as a whole (atomicwrite.cpp).         *)
(*                                                                         *)
(* A key is a model value, a certificate the key it was issued for and     *)
(* whether it is about to expire.  Keys that nothing refers to any more    *)
(* are generated again, which bounds them.                                 *)
(***************************************************************************)
CONSTANTS Programs, Keys, NoKey

VARIABLES
    keyFile,    \* key.pem: a key, or NoKey
    certFile,   \* cert.pem: the key it was issued for and whether it must be renewed
    phase,      \* how far each program's loadOrCreate() is
    privateKey, \* m_privateKey of each program
    certified,  \* the key m_certificate of each program was issued for
    overlapped  \* a start has overwritten the key of another it had not seen

memoryVars == <<phase, privateKey, certified>>

NoCert == [of |-> NoKey, old |-> FALSE]
Issued(k) == [of |-> k, old |-> FALSE]

Starting(p) == phase[p] \notin {"off", "running"}

Known(k) ==
    \/ k = keyFile \/ k = certFile.of
    \/ \E p \in Programs : k = privateKey[p] \/ k = certified[p]

\* Program p holds the key k and a certificate for the key c.
Holds(p, ph, k, c) ==
    /\ phase' = [phase EXCEPT ![p] = ph]
    /\ privateKey' = [privateKey EXCEPT ![p] = k]
    /\ certified' = [certified EXCEPT ![p] = c]

Gone(p) == Holds(p, "off", NoKey, NoKey)

-----------------------------------------------------------------------------
(* loadOrCreate()                                                          *)

\* Mutation: a certificate without its key does not stop the start.
CheckFilesNever(p) ==
    /\ phase[p] = "off"
    /\ Holds(p, "looked", NoKey, NoKey)
    /\ UNCHANGED <<keyFile, certFile, overlapped>>

\* A certificate without its key is an identity that is lost: no start.
CheckFiles(p) ==
    /\ phase[p] = "off"
    /\ ~(certFile # NoCert /\ keyFile = NoKey)
    /\ Holds(p, "looked", NoKey, NoKey)
    /\ UNCHANGED <<keyFile, certFile, overlapped>>

ReadKey(p) ==
    /\ phase[p] = "looked" /\ keyFile # NoKey
    /\ Holds(p, "keyed", keyFile, NoKey)
    /\ UNCHANGED <<keyFile, certFile, overlapped>>

GenerateKey(p) ==
    /\ phase[p] = "looked" /\ keyFile = NoKey
    /\ \E k \in Keys : ~Known(k) /\ Holds(p, "generated", k, NoKey)
    /\ UNCHANGED <<keyFile, certFile, overlapped>>

WriteKey(p) ==
    /\ phase[p] = "generated"
    /\ keyFile' = privateKey[p]
    /\ overlapped' = (overlapped \/ keyFile # NoKey)
    /\ Holds(p, "keyed", privateKey[p], NoKey)
    /\ UNCHANGED certFile

\* The certificate there is, unless it must be renewed.
ReadCertificate(p) ==
    /\ phase[p] = "keyed"
    /\ Holds(p, IF certFile = NoCert \/ certFile.old THEN "issuing" ELSE "certified",
             privateKey[p], certFile.of)
    /\ UNCHANGED <<keyFile, certFile, overlapped>>

\* A new certificate from the same key, which keeps the device's fingerprint.
IssueCertificate(p) ==
    /\ phase[p] = "issuing"
    /\ certFile' = Issued(privateKey[p])
    /\ Holds(p, "certified", privateKey[p], privateKey[p])
    /\ UNCHANGED <<keyFile, overlapped>>

\* Mutation: the two are not compared.
VerifyNothing(p) ==
    /\ phase[p] = "certified"
    /\ Holds(p, "running", privateKey[p], certified[p])
    /\ UNCHANGED <<keyFile, certFile, overlapped>>

\* certificateMatchesKey(), or the start fails.
Verify(p) ==
    /\ phase[p] = "certified"
    /\ IF certified[p] = privateKey[p]
       THEN Holds(p, "running", privateKey[p], certified[p])
       ELSE Gone(p)
    /\ UNCHANGED <<keyFile, certFile, overlapped>>

\* A file that cannot be read or written, an error of the library, or the end of
\* the program: what is on the disk stays as it is.
Leave(p) ==
    /\ phase[p] # "off"
    /\ Gone(p)
    /\ UNCHANGED <<keyFile, certFile, overlapped>>

-----------------------------------------------------------------------------
(* The world                                                               *)

\* The certificate comes within its renewal window.
Expire ==
    /\ certFile # NoCert
    /\ certFile' = [certFile EXCEPT !.old = TRUE]
    /\ UNCHANGED <<keyFile, memoryVars, overlapped>>

\* The user deletes files, as the messages of the failed starts advise; it is
\* assumed that no program is starting meanwhile.
UserDeletes ==
    /\ \A p \in Programs : ~Starting(p)
    /\ keyFile' \in {keyFile, NoKey}
    /\ certFile' \in {certFile, NoCert}
    /\ UNCHANGED <<memoryVars, overlapped>>

IdentityInit ==
    /\ keyFile = NoKey /\ certFile = NoCert
    /\ phase = [p \in Programs |-> "off"]
    /\ privateKey = [p \in Programs |-> NoKey]
    /\ certified = [p \in Programs |-> NoKey]
    /\ overlapped = FALSE

LoadOrCreate(p) ==
    \/ CheckFiles(p) \/ ReadKey(p) \/ GenerateKey(p) \/ WriteKey(p)
    \/ ReadCertificate(p) \/ IssueCertificate(p) \/ Verify(p)

-----------------------------------------------------------------------------
(* Properties                                                              *)

\* The types of the variables.
IdentityTypeOK ==
    /\ keyFile \in Keys \cup {NoKey}
    /\ certFile \in [of : Keys, old : BOOLEAN] \cup {NoCert}
    /\ phase \in [Programs -> {"off", "looked", "generated", "keyed", "issuing",
                               "certified", "running"}]
    /\ privateKey \in [Programs -> Keys \cup {NoKey}]
    /\ certified \in [Programs -> Keys \cup {NoKey}]
    /\ overlapped \in BOOLEAN

\* A program that runs presents a certificate whose key it holds, whatever
\* happened to the two files while it started: otherwise its peers would know it
\* by a fingerprint it cannot prove, and every handshake would fail.
RunsWithItsOwnCertificate ==
    \A p \in Programs : phase[p] = "running" =>
        privateKey[p] \in Keys /\ certified[p] = privateKey[p]

\* The files end up with a certificate and a key of different identities, which no
\* later start repairs before the certificate expires, only when two first starts
\* ran at once: crashes, failed writes, renewals and deleted files do not do it.
OnlyFirstStartsTear ==
    keyFile # NoKey /\ certFile # NoCert /\ keyFile # certFile.of => overlapped

\* A start finds that its key and its certificate do not belong together, and
\* fails, only where two first starts ran at once: a start among renewals, crashes
\* and other starts reads two files that fit.
OnlyFirstStartsFail ==
    ~overlapped =>
        \A p \in Programs : phase[p] = "certified" => certified[p] = privateKey[p]
=============================================================================
