--------------------------- MODULE ReceiveService ---------------------------
(***************************************************************************)
(* The receiver's four transfer endpoints: prepare, upload, complete and   *)
(* abort (core/transfer/receiveservice.cpp, receivesession.cpp, the sink   *)
(* of core/files/localsink.cpp, and the part of an HttpConnection the      *)
(* service sees).  One receiver process runs one event loop: an action is  *)
(* one event (a request head, a piece of a body, a timer, a disconnected   *)
(* socket, a click in the user interface) together with every slot that    *)
(* the event runs before control returns to the loop.                      *)
(*                                                                         *)
(* A connection carries one request and is never reused, so a member of    *)
(* Conns stands for one request and |Conns| bounds a behaviour's requests. *)
(* A session id is 16 random bytes, drawn once; SessionIds bounds how many *)
(* prepares get as far as drawing one.  Files stand for the ids in a       *)
(* prepare's list, and Size[f] counts the pieces the body arrives in.      *)
(***************************************************************************)
EXTENDS Naturals, FiniteSets

CONSTANTS
    Conns,        \* connections, one request each
    Devices,      \* peers, told apart by the certificate of the connection
    Files,        \* file ids a prepare may declare
    SessionIds,   \* session ids that may be drawn
    Size,         \* declared size of a file, in pieces of a body
    DirFaults,    \* TRUE if an operation in the receive directory may fail
    BlockingInput, \* TRUE for the command line: the slot that asks the user reads
                  \* the answer itself, and the event loop stands still
    NoConn, NoDevice, NoFile, NoSession

ASSUME SizeAssumption == Size \in [Files -> Nat]
ASSUME FaultAssumption == DirFaults \in BOOLEAN
ASSUME InputAssumption == BlockingInput \in BOOLEAN
ASSUME NullAssumption ==
    /\ NoConn \notin Conns
    /\ NoDevice \notin Devices
    /\ NoFile \notin Files
    /\ NoSession \notin SessionIds

VARIABLES
    conn,       \* the requests, as the service and their peers see them
    blocked,    \* the black list in the memory of the trust store
    pending,    \* m_pendingApproval
    pendingId,  \* m_pendingSessionId
    approvalTimer, \* m_approvalTimer is running
    session,    \* id of m_session, NoSession when there is none
    sender,     \* the device m_session belongs to
    entry,      \* state of each file of m_session
    ttl,        \* m_sessionTtl is running
    upload,     \* m_upload; m_uploadSink and m_uploadDevice live as long
    written,    \* m_uploadWritten
    cancels,    \* ids captured by the teardowns cancelActive() has queued
    tempDirs,   \* .lanpipe-tmp/<sessionId> directories on disk
    stale,      \* those of them untouched for kTempRetention (24 h)
    copies,     \* how often each session's file was renamed into place
    issued,     \* every session id drawn so far
    lost        \* ids the service forgot about without removing the directory

pendingVars == <<pending, pendingId, approvalTimer>>
sessionVars == <<session, sender, entry, ttl, upload, written>>
diskVars == <<tempDirs, stale, copies>>
historyVars == <<issued, lost>>
vars == <<conn, blocked, pendingVars, sessionVars, cancels, diskVars, historyVars>>

-----------------------------------------------------------------------------
(* Requests and the answers to them.                                       *)

Phases == {"new", "body", "waiting", "answered", "closed"}
Kinds == {"none", "prepare", "put", "complete", "abort"}
Replies == {"none", "Ok", "BadRequest", "Forbidden", "Conflict", "Gone",
            "InternalError", "GatewayTimeout", "InsufficientStorage"}

\* A connection whose request is being handled.  "waiting" is a prepare that
\* waits for the user with its idle timer paused; files is what a prepare
\* declares, and in the answer to a complete what the report calls received.
Request(kind, d, sid, f, fs) ==
    [phase |-> "body", kind |-> kind, peer |-> d, sid |-> sid, file |-> f,
     files |-> fs, reply |-> "none"]

Blank(phase) ==
    [phase |-> phase, kind |-> "none", peer |-> NoDevice, sid |-> NoSession,
     file |-> NoFile, files |-> {}, reply |-> "none"]

Connection ==
    [phase : Phases, kind : Kinds, peer : Devices \cup {NoDevice},
     sid : SessionIds \cup {NoSession}, file : Files \cup {NoFile},
     files : SUBSET Files, reply : Replies]

Answered(request, reply) == [request EXCEPT !.phase = "answered", !.reply = reply]
Answer(c, reply) == conn' = [conn EXCEPT ![c] = Answered(conn[c], reply)]

IsNew(c) == conn[c].phase = "new"

\* The event loop runs.
Running == ~(BlockingInput /\ pending # NoConn)

-----------------------------------------------------------------------------
(* The session's entries and the pieces several handlers share.            *)

EntryStates == {"absent", "expected", "inFlight", "committed"}
NoEntries == [f \in Files |-> "absent"]
EntriesFor(fs) == [f \in Files |-> IF f \in fs THEN "expected" ELSE "absent"]

\* The definitions marked "Mutation" are slips a change to this code could make;
\* each alters the definition that follows it and is used nowhere else.

\* requireSession(): "Ok", or what it answers instead.
RequireSession(d, sid) ==
    IF sid # session THEN "Gone" ELSE IF d # sender THEN "Forbidden" ELSE "Ok"

\* Mutation: the report gives every file its declared size.
ReportedReceivedAsDeclared == {f \in Files : entry[f] # "absent"}

\* ReceiveSession::report() gives 0 bytes for a file that has not been
\* committed; the sender reads "all of it arrived" off the declared size.
ReportedReceived ==
    {f \in Files : /\ entry[f] # "absent"
                   /\ (IF entry[f] = "committed" THEN Size[f] ELSE 0) = Size[f]}

\* abort() on the upload in flight closes it at once and without an answer.
AfterAbort ==
    [c \in Conns |-> IF c = upload THEN Blank("closed") ELSE conn[c]]

ReleaseUpload == upload' = NoConn /\ written' = 0

\* Writing into or removing from a session's directory renews its mtime.
Touch(sid) == stale' = stale \ {sid}

\* Mutation: teardown() leaves the upload in flight alone.
EndSessionKeepsUpload ==
    /\ session' = NoSession /\ sender' = NoDevice /\ entry' = NoEntries
    /\ ttl' = FALSE
    /\ UNCHANGED <<upload, written>>
    /\ tempDirs' = tempDirs \ {session} /\ stale' = stale \ {session}

\* Mutation: teardown() leaves the TTL running.
EndSessionKeepsTtl ==
    /\ session' = NoSession /\ sender' = NoDevice /\ entry' = NoEntries
    /\ ReleaseUpload
    /\ tempDirs' = tempDirs \ {session} /\ stale' = stale \ {session}
    /\ UNCHANGED ttl

\* Mutation: teardown() forgets the temporary data.
EndSessionKeepsTempDir ==
    /\ session' = NoSession /\ sender' = NoDevice /\ entry' = NoEntries
    /\ ttl' = FALSE
    /\ ReleaseUpload
    /\ UNCHANGED <<tempDirs, stale>>

\* teardown() of the session there is; what becomes of conn is up to the caller.
EndSession ==
    /\ session' = NoSession
    /\ sender' = NoDevice
    /\ entry' = NoEntries
    /\ ttl' = FALSE
    /\ ReleaseUpload
    /\ tempDirs' = tempDirs \ {session}
    /\ stale' = stale \ {session}

\* Mutation: half a clearPendingRequest(), which leaves the timer running.
DropPendingKeepsTimer ==
    /\ pending' = NoConn /\ pendingId' = NoSession
    /\ tempDirs' = tempDirs \ {pendingId} /\ stale' = stale \ {pendingId}
    /\ UNCHANGED approvalTimer

\* clearPendingRequest(), and the refusing half of finishPrepare().
DropPending ==
    /\ pending' = NoConn
    /\ pendingId' = NoSession
    /\ approvalTimer' = FALSE
    /\ tempDirs' = tempDirs \ {pendingId}
    /\ stale' = stale \ {pendingId}

-----------------------------------------------------------------------------
(* prepare                                                                 *)

\* handlePrepare(): only one prepare may wait for the user, and the check is
\* made here, when the head has been read and the body has not.  readBody()
\* refuses a body that is declared too long with the same status.
HandlePrepare(c, d) ==
    LET request == Request("prepare", d, NoSession, NoFile, {}) IN
    /\ IsNew(c)
    /\ \/ pending = NoConn /\ conn' = [conn EXCEPT ![c] = request]
       \/ conn' = [conn EXCEPT ![c] = Answered(request, "Conflict")]
    /\ UNCHANGED <<blocked, pendingVars, sessionVars, cancels, diskVars, historyVars>>

\* A body that is no valid prepare: nothing else is looked at.
PrepareMalformed(c) ==
    /\ conn[c].phase = "body" /\ conn[c].kind = "prepare"
    /\ Answer(c, "BadRequest")
    /\ UNCHANGED <<blocked, pendingVars, sessionVars, cancels, diskVars, historyVars>>

\* The refusals of onPrepareBody() that come before anything is set up: the
\* peer's identity changed, a name cannot be used, a session is active, there
\* is no space, the directory cannot be made.  The trust store was reloaded,
\* and another process may have written any black list.
PrepareRefused(c) ==
    /\ conn[c].phase = "body" /\ conn[c].kind = "prepare"
    /\ blocked' \in SUBSET Devices
    /\ \/ \E reply \in {"Forbidden", "BadRequest"} : Answer(c, reply)
       \/ session # NoSession /\ Answer(c, "Conflict")
       \/ session = NoSession /\ DirFaults
          /\ \E reply \in {"InsufficientStorage", "InternalError"} : Answer(c, reply)
    /\ UNCHANGED <<pendingVars, sessionVars, cancels, diskVars, historyVars>>

\* Mutation: onPrepareBody() does not ask for an active session.
PrepareAdmissibleAnyway(c, id) ==
    /\ conn[c].phase = "body" /\ conn[c].kind = "prepare"
    /\ blocked' \in SUBSET Devices
    /\ id \notin issued
    /\ issued' = issued \cup {id}
    /\ lost' = lost \cup ({pendingId} \ {NoSession})

\* What onPrepareBody() has done by the time it asks the policy: it drew an
\* id and made its directory.  It took the pending slot without looking into
\* it again, so a prepare that held the slot is forgotten.
PrepareAdmissible(c, id) ==
    /\ conn[c].phase = "body" /\ conn[c].kind = "prepare"
    /\ blocked' \in SUBSET Devices
    /\ session = NoSession
    /\ id \notin issued
    /\ issued' = issued \cup {id}
    /\ lost' = lost \cup ({pendingId} \ {NoSession})

\* Mutation: the approval window never starts.
TakePendingSlotUntimed(c, id) == pending' = c /\ pendingId' = id /\ approvalTimer' = FALSE

\* The slot is c's, and its approval window starts.
TakePendingSlot(c, id) == pending' = c /\ pendingId' = id /\ approvalTimer' = TRUE

\* decide() rejects a blocked device, or the prompt limiter has had enough of
\* it: the new directory goes at once, and so does the pending slot.
PrepareTurnedAway(c, id) ==
    /\ PrepareAdmissible(c, id)
    /\ pending' = NoConn /\ pendingId' = NoSession /\ approvalTimer' = FALSE
    /\ Answer(c, "Forbidden")
    /\ UNCHANGED <<sessionVars, cancels, diskVars>>

\* decide() leaves it to the user: the connection waits, its idle timer
\* paused, and approvalRequired is emitted.
PrepareAsksUser(c, id, fs) ==
    /\ PrepareAdmissible(c, id)
    /\ conn[c].peer \notin blocked'
    /\ TakePendingSlot(c, id)
    /\ tempDirs' = tempDirs \cup {id}
    /\ conn' = [conn EXCEPT ![c].phase = "waiting", ![c].files = fs]
    /\ UNCHANGED <<sessionVars, cancels, stale, copies>>

\* acceptRequest().  It tears down a session that is still there first.
OpenSession(c, id, fs) ==
    /\ session' = id
    /\ sender' = conn[c].peer
    /\ entry' = EntriesFor(fs)
    /\ ttl' = TRUE
    /\ ReleaseUpload
    /\ pending' = NoConn /\ pendingId' = NoSession /\ approvalTimer' = FALSE
    /\ tempDirs' = (tempDirs \cup {id}) \ {session}
    /\ conn' = [AfterAbort EXCEPT ![c] =
                  Answered([conn[c] EXCEPT !.sid = id, !.files = fs], "Ok")]

\* decide() accepts by itself: open mode, or a paired device.
PrepareAccepted(c, id, fs) ==
    /\ PrepareAdmissible(c, id)
    /\ conn[c].peer \notin blocked'
    /\ OpenSession(c, id, fs)
    /\ UNCHANGED <<cancels, stale, copies>>

\* submitApproval(true)
UserAccepts ==
    /\ pending # NoConn
    /\ OpenSession(pending, pendingId, conn[pending].files)
    /\ UNCHANGED <<blocked, cancels, stale, copies, historyVars>>

\* submitApproval(false)
UserRejects ==
    /\ pending # NoConn
    /\ DropPending
    /\ Answer(pending, "Forbidden")
    /\ UNCHANGED <<blocked, sessionVars, cancels, copies, historyVars>>

\* submitBlock(): a black list that cannot be saved is rolled back, the
\* request is refused all the same.
UserBlocks ==
    /\ pending # NoConn
    /\ blocked' \in {blocked, blocked \cup {conn[pending].peer}}
    /\ DropPending
    /\ Answer(pending, "Forbidden")
    /\ UNCHANGED <<sessionVars, cancels, copies, historyVars>>

\* m_approvalTimer, 30 s after the user was asked.
ApprovalTimeout ==
    /\ approvalTimer /\ pending # NoConn
    /\ DropPending
    /\ Answer(pending, "GatewayTimeout")
    /\ UNCHANGED <<blocked, sessionVars, cancels, copies, historyVars>>

-----------------------------------------------------------------------------
(* upload                                                                  *)

\* Mutation: the result of commit() is not looked at.
CommitUploadAnyway(c, request) ==
    /\ ReleaseUpload
    /\ Touch(session)
    /\ entry' = [entry EXCEPT ![request.file] = "committed"]
    /\ \/ copies' = [copies EXCEPT ![session][request.file] = @ + 1]
       \/ DirFaults /\ UNCHANGED copies
    /\ ttl' = TRUE
    /\ conn' = [conn EXCEPT ![c] = Answered(request, "Ok")]

\* commitUpload(): the last piece of a body has been written.  Either the
\* file is renamed into the receive directory, or commit() fails; then
\* failUpload() lets go of the file and of the connection.  m_sessionTtl,
\* which handleUpload() stopped, is started again in the first case only.
CommitUpload(c, request) ==
    LET f == request.file IN
    /\ ReleaseUpload
    /\ Touch(session)
    /\ \/ /\ entry' = [entry EXCEPT ![f] = "committed"]
          /\ copies' = [copies EXCEPT ![session][f] = @ + 1]
          /\ ttl' = TRUE
          /\ conn' = [conn EXCEPT ![c] = Answered(request, "Ok")]
       \/ /\ DirFaults
          /\ entry' = [entry EXCEPT ![f] = "expected"]
          /\ ttl' = FALSE
          /\ conn' = [conn EXCEPT ![c] = Answered(request, "InternalError")]
          /\ UNCHANGED copies

\* Mutation: a file that has been committed may be sent again.
MayUploadAgain(f, exactLength) ==
    upload = NoConn /\ entry[f] # "absent" /\ exactLength

\* The guards of handleUpload() once the session has been found.
MayUpload(f, exactLength) ==
    upload = NoConn /\ entry[f] = "expected" /\ exactLength

\* handleUpload() refuses: no such session, not the peer's session, another
\* PUT in flight, not a file to be sent, a length that was not approved.
UploadRefused(c, d, sid, f, exactLength) ==
    LET found == RequireSession(d, sid) IN
    /\ IsNew(c)
    /\ found # "Ok" \/ ~MayUpload(f, exactLength)
    /\ conn' = [conn EXCEPT ![c] = Answered(Request("put", d, sid, f, {}),
                                IF found # "Ok" THEN found ELSE "Conflict")]
    /\ UNCHANGED <<blocked, pendingVars, sessionVars, cancels, diskVars, historyVars>>

\* handleUpload() cannot create or open the temporary file, or the .part.meta
\* beside it, which may have renewed the directory's mtime by then.
UploadSinkFails(c, d, sid, f) ==
    /\ IsNew(c)
    /\ RequireSession(d, sid) = "Ok" /\ MayUpload(f, TRUE)
    /\ DirFaults
    /\ \E reply \in {"InsufficientStorage", "InternalError"} :
         conn' = [conn EXCEPT ![c] = Answered(Request("put", d, sid, f, {}), reply)]
    /\ UNCHANGED stale \/ Touch(sid)
    /\ UNCHANGED <<blocked, pendingVars, sessionVars, cancels, tempDirs, copies, historyVars>>

\* handleUpload() takes the file on.  A body of no bytes is complete, and
\* committed, before readBody() returns.
UploadStarts(c, d, sid, f) ==
    /\ IsNew(c)
    /\ RequireSession(d, sid) = "Ok" /\ MayUpload(f, TRUE)
    /\ tempDirs' = tempDirs \cup {sid}
    /\ LET request == Request("put", d, sid, f, {}) IN
       IF Size[f] = 0
       THEN CommitUpload(c, request)
       ELSE /\ conn' = [conn EXCEPT ![c] = request]
            /\ entry' = [entry EXCEPT ![f] = "inFlight"]
            /\ upload' = c /\ written' = 0
            /\ ttl' = FALSE
            /\ Touch(sid)
            /\ UNCHANGED copies
    /\ UNCHANGED <<blocked, pendingVars, session, sender, cancels, historyVars>>

\* A piece of the body that is not the last one is written.
UploadProgress ==
    /\ upload # NoConn /\ conn[upload].phase = "body"
    /\ written + 1 < Size[conn[upload].file]
    /\ written' = written + 1
    /\ UNCHANGED <<conn, blocked, pendingVars, session, sender, entry, ttl, upload,
                   cancels, diskVars, historyVars>>

\* The last piece is written, and bodyComplete is emitted in the same call.
UploadLastPiece ==
    /\ upload # NoConn /\ conn[upload].phase = "body"
    /\ written + 1 = Size[conn[upload].file]
    /\ CommitUpload(upload, conn[upload])
    /\ UNCHANGED <<blocked, pendingVars, session, sender, cancels, tempDirs, historyVars>>

\* A write fails: failBody() answers 507.  The upload is given up later, when
\* the connection reports that it has finished.
UploadWriteFails ==
    /\ upload # NoConn /\ conn[upload].phase = "body"
    /\ DirFaults
    /\ Answer(upload, "InsufficientStorage")
    /\ UNCHANGED <<blocked, pendingVars, sessionVars, cancels, diskVars, historyVars>>

-----------------------------------------------------------------------------
(* complete, abort, and the other ways a session ends                      *)

\* handleComplete() answers with the report, then tears the session down.
HandleComplete(c, d, sid) ==
    LET found == RequireSession(d, sid) IN
    /\ IsNew(c)
    /\ IF found = "Ok"
       THEN /\ conn' = [AfterAbort EXCEPT ![c] =
                  Answered(Request("complete", d, sid, NoFile, ReportedReceived), "Ok")]
            /\ EndSession
       ELSE /\ conn' = [conn EXCEPT ![c] =
                  Answered(Request("complete", d, sid, NoFile, {}), found)]
            /\ UNCHANGED <<sessionVars, tempDirs, stale>>
    /\ UNCHANGED <<blocked, pendingVars, cancels, copies, historyVars>>

\* Mutation: an abort that meets a PUT in flight is answered, and ignored.
HandleAbortIdle(c, d, sid) ==
    LET request == Request("abort", d, sid, NoFile, {}) IN
    /\ IsNew(c)
    /\ IF sid = session /\ d = sender /\ upload = NoConn
       THEN /\ conn' = [AfterAbort EXCEPT ![c] = Answered(request, "Ok")]
            /\ EndSession
       ELSE /\ conn' = [conn EXCEPT ![c] =
                  Answered(request, IF sid = session /\ d # sender THEN "Forbidden" ELSE "Ok")]
            /\ UNCHANGED <<sessionVars, tempDirs, stale>>
    /\ UNCHANGED <<blocked, pendingVars, cancels, copies, historyVars>>

\* handleAbort() is idempotent: a session that is gone is answered with 200.
HandleAbort(c, d, sid) ==
    LET request == Request("abort", d, sid, NoFile, {}) IN
    /\ IsNew(c)
    /\ IF sid = session /\ d = sender
       THEN /\ conn' = [AfterAbort EXCEPT ![c] = Answered(request, "Ok")]
            /\ EndSession
       ELSE /\ conn' = [conn EXCEPT ![c] =
                  Answered(request, IF sid = session THEN "Forbidden" ELSE "Ok")]
            /\ UNCHANGED <<sessionVars, tempDirs, stale>>
    /\ UNCHANGED <<blocked, pendingVars, cancels, copies, historyVars>>

\* cancelActive(): the teardown is queued with the id of today's session.
CancelActive ==
    /\ session # NoSession
    /\ cancels' = cancels \cup {session}
    /\ UNCHANGED <<conn, blocked, pendingVars, sessionVars, diskVars, historyVars>>

\* Mutation: the queued teardown takes whatever session there is.
RunCancelUnguarded(sid) ==
    /\ sid \in cancels
    /\ cancels' = cancels \ {sid}
    /\ conn' = AfterAbort /\ EndSession
    /\ UNCHANGED <<blocked, pendingVars, copies, historyVars>>

\* The queued teardown runs, and does nothing unless its session is there.
RunCancel(sid) ==
    /\ sid \in cancels
    /\ cancels' = cancels \ {sid}
    /\ IF sid = session
       THEN conn' = AfterAbort /\ EndSession
       ELSE UNCHANGED <<conn, sessionVars, tempDirs, stale>>
    /\ UNCHANGED <<blocked, pendingVars, copies, historyVars>>

\* m_sessionTtl, 5 min after the last thing the session's sender did.
SessionExpires ==
    /\ ttl /\ session # NoSession
    /\ conn' = AfterAbort
    /\ EndSession
    /\ UNCHANGED <<blocked, pendingVars, cancels, copies, historyVars>>

-----------------------------------------------------------------------------
(* Connections, the temporary directory, and the process itself            *)

\* Mutation: a broken upload does not start the TTL again.
UploadBrokenUntimed(c) ==
    /\ ReleaseUpload
    /\ Touch(conn[c].sid)
    /\ entry' = [entry EXCEPT ![conn[c].file] = "expected"]
    /\ UNCHANGED ttl

\* The finished slot of an upload that is still in flight: its temporary file
\* goes, and its session waits for the file to be sent again.
UploadBroken(c) ==
    /\ ReleaseUpload
    /\ Touch(conn[c].sid)
    /\ IF conn[c].sid = session
       THEN entry' = [entry EXCEPT ![conn[c].file] = "expected"] /\ ttl' = TRUE
       ELSE UNCHANGED <<entry, ttl>>

\* Mutation: the finished slot of a prepare is missing.
FinishedKeepsPending(c) ==
    /\ conn' = [conn EXCEPT ![c] = Blank("closed")]
    /\ IF c = upload
       THEN UploadBroken(c) /\ UNCHANGED <<pendingVars, session, sender, tempDirs>>
       ELSE UNCHANGED <<pendingVars, sessionVars, tempDirs, stale>>
    /\ UNCHANGED <<blocked, cancels, copies, historyVars>>

\* HttpConnection::close() emits finished, which runs the slots that
\* handlePrepare() and handleUpload() have connected to it.
Finished(c) ==
    /\ conn' = [conn EXCEPT ![c] = Blank("closed")]
    /\ IF c = pending
       THEN DropPending /\ UNCHANGED sessionVars
       ELSE IF c = upload
       THEN UploadBroken(c) /\ UNCHANGED <<pendingVars, session, sender, tempDirs>>
       ELSE UNCHANGED <<pendingVars, sessionVars, tempDirs, stale>>
    /\ UNCHANGED <<blocked, cancels, copies, historyVars>>

\* The peer closes or loses the connection, before or after the answer.
PeerGone(c) == conn[c].phase \in {"body", "waiting", "answered"} /\ Finished(c)

\* Mutation: the idle timer stands still while a body is read.
IdleOnlyAnswered(c) == conn[c].phase = "answered" /\ Finished(c)

\* 30 s without a byte, or the answer has been flushed.  The idle timer of a
\* connection that waits for the user is paused.
IdleOrFlushed(c) == conn[c].phase \in {"body", "answered"} /\ Finished(c)

\* 24 h pass without a change in a directory.  A prepare waits that long only
\* where its timer cannot fire, and a session only where its TTL does not run.
DirAges(sid) ==
    /\ sid \in tempDirs \ stale
    /\ sid = pendingId => BlockingInput
    /\ sid = session => ~ttl
    /\ stale' = stale \cup {sid}
    /\ UNCHANGED <<conn, blocked, pendingVars, sessionVars, cancels, tempDirs, copies,
                   historyVars>>

\* Mutation: the sweep goes by age alone.
SweepByAge ==
    /\ tempDirs' = tempDirs \ stale
    /\ stale' = {}
    /\ UNCHANGED <<conn, blocked, pendingVars, sessionVars, cancels, copies, historyVars>>

\* sweepStaleTempData(), hourly: the active session's directory is kept.
Sweep ==
    /\ tempDirs' = tempDirs \ (stale \ {session})
    /\ stale' = stale \cap {session}
    /\ UNCHANGED <<conn, blocked, pendingVars, sessionVars, cancels, copies, historyVars>>

\* The process dies and is started again: memory and connections are lost,
\* the constructor sweeps, the trust store loads whatever is in its file.
Restart ==
    /\ conn' = [c \in Conns |-> IF IsNew(c) THEN conn[c] ELSE Blank("closed")]
    /\ blocked' \in SUBSET Devices
    /\ pending' = NoConn /\ pendingId' = NoSession /\ approvalTimer' = FALSE
    /\ session' = NoSession /\ sender' = NoDevice /\ entry' = NoEntries
    /\ ttl' = FALSE /\ ReleaseUpload
    /\ cancels' = {}
    /\ tempDirs' = tempDirs \ stale
    /\ stale' = {}
    /\ lost' = lost \cup ({session, pendingId} \ {NoSession})
    /\ UNCHANGED <<copies, issued>>

-----------------------------------------------------------------------------
Init ==
    /\ conn = [c \in Conns |-> Blank("new")]
    /\ blocked \in SUBSET Devices
    /\ pending = NoConn /\ pendingId = NoSession /\ approvalTimer = FALSE
    /\ session = NoSession /\ sender = NoDevice /\ entry = NoEntries
    /\ ttl = FALSE /\ upload = NoConn /\ written = 0
    /\ cancels = {}
    /\ tempDirs = {} /\ stale = {}
    /\ copies = [s \in SessionIds |-> [f \in Files |-> 0]]
    /\ issued = {} /\ lost = {}

Prepare(c) ==
    \/ \E d \in Devices : HandlePrepare(c, d)
    \/ PrepareMalformed(c)
    \/ PrepareRefused(c)
    \/ \E id \in SessionIds :
         \/ PrepareTurnedAway(c, id)
         \/ \E fs \in (SUBSET Files) \ {{}} : PrepareAsksUser(c, id, fs) \/ PrepareAccepted(c, id, fs)

\* A peer may name any session that was ever drawn, its own or not.
SessionRequest(c) ==
    \E d \in Devices, sid \in issued :
        \/ HandleComplete(c, d, sid)
        \/ HandleAbort(c, d, sid)
        \/ \E f \in Files :
             \/ \E exactLength \in BOOLEAN : UploadRefused(c, d, sid, f, exactLength)
             \/ UploadSinkFails(c, d, sid, f)
             \/ UploadStarts(c, d, sid, f)

\* An event of the loop.
LoopStep ==
    \/ \E c \in Conns : Prepare(c) \/ SessionRequest(c) \/ PeerGone(c) \/ IdleOrFlushed(c)
    \/ UploadProgress \/ UploadLastPiece \/ UploadWriteFails
    \/ CancelActive
    \/ ApprovalTimeout \/ SessionExpires
    \/ \E sid \in SessionIds : RunCancel(sid)
    \/ Sweep

\* The answer of the user, which the command line waits for inside the slot.
User == UserAccepts \/ UserRejects \/ UserBlocks

Next ==
    \/ Running /\ LoopStep
    \/ User
    \/ \E sid \in SessionIds : DirAges(sid)
    \/ Restart

Spec == Init /\ [][Next]_vars

\* What the loop does of its own accord: its timers (the approval window, the
\* session's TTL, the idle timer of each connection) and the calls queued to it.
LoopDue ==
    \/ ApprovalTimeout \/ SessionExpires
    \/ \E c \in Conns : IdleOrFlushed(c)
    \/ \E sid \in SessionIds : RunCancel(sid)

\* The event loop, while it runs, does not stand still for good when a timer is
\* up or a call is queued.  Which of them it serves is left open, and peers, the
\* user and the other process owe nothing.
LoopFairness == WF_vars(Running /\ LoopDue)
FairSpec == Spec /\ LoopFairness
-----------------------------------------------------------------------------
(* Safety                                                                  *)

\* The types of the variables.
TypeOK ==
    /\ conn \in [Conns -> Connection]
    /\ blocked \in SUBSET Devices
    /\ pending \in Conns \cup {NoConn}
    /\ pendingId \in SessionIds \cup {NoSession}
    /\ approvalTimer \in BOOLEAN
    /\ session \in SessionIds \cup {NoSession}
    /\ sender \in Devices \cup {NoDevice}
    /\ entry \in [Files -> EntryStates]
    /\ ttl \in BOOLEAN
    /\ upload \in Conns \cup {NoConn}
    /\ written \in Nat
    /\ cancels \in SUBSET SessionIds
    /\ tempDirs \in SUBSET SessionIds
    /\ stale \in SUBSET SessionIds
    /\ copies \in [SessionIds -> [Files -> Nat]]
    /\ issued \in SUBSET SessionIds
    /\ lost \in SUBSET SessionIds

\* A prepare that waits for the user and an active session exclude each other,
\* so the teardown at the top of acceptRequest() ("theoretically unreachable")
\* never has anything to tear down: the session check in onPrepareBody(), the
\* slot check in handlePrepare() and every way of leaving either state add up
\* to one slot for the two of them.
PendingExcludesSession == pending # NoConn => session = NoSession

\* Whatever holds the pending slot can be got rid of: the connection is still
\* waiting, its timer runs, and its id names a directory made for it.
PendingIsLive ==
    /\ pending # NoConn => /\ conn[pending].phase = "waiting"
                           /\ conn[pending].kind = "prepare"
                           /\ approvalTimer
                           /\ pendingId \in tempDirs
    /\ pending = NoConn => ~approvalTimer /\ pendingId = NoSession

\* The PUT in flight belongs to the active session and to the device that owns
\* it, and is for the one file marked as in flight: no file is left marked
\* after its PUT is over (it could never be sent again), and no upload
\* outlives its session (its bytes would be committed into the next one).
UploadBelongs ==
    /\ upload # NoConn =>
         /\ session # NoSession
         /\ conn[upload].kind = "put"
         /\ conn[upload].phase \in {"body", "answered"}
         /\ conn[upload].sid = session
         /\ conn[upload].peer = sender
         /\ written < Size[conn[upload].file]
    /\ \A f \in Files :
         entry[f] = "inFlight" <=> (upload # NoConn /\ f = conn[upload].file)

\* The session's TTL never runs down while a PUT is in flight (it would cut a
\* long upload in the middle), nor when there is no session to expire.
TtlOnlyWhenIdle == ttl => session # NoSession /\ upload = NoConn

\* The directory an active session or a waiting prepare writes into is on disk:
\* neither the sweep, nor the end of some other session, nor the refusal of
\* some other prepare removes it.
LiveDirsKept == {session, pendingId} \ {NoSession} \subseteq tempDirs

\* Every session directory on disk has an owner that will remove it, or was
\* left behind by a crash or by a prepare that lost its slot; those, and only
\* those, are the sweep's to remove.
TempDirsAccounted == tempDirs \subseteq {session, pendingId} \cup lost

\* A file is renamed into the receive directory at most once per session,
\* however often it is sent again, and an upload answered with 200 has been.
DeliveredOnce ==
    /\ \A s \in SessionIds, f \in Files : copies[s][f] <= 1
    /\ \A c \in Conns :
         conn[c].kind = "put" /\ conn[c].reply = "Ok" =>
             copies[conn[c].sid][conn[c].file] = 1

\* What complete reports is final: a file is reported as received if and only
\* if it is in the receive directory, and nothing arrives after the report.
\* (A file of no bytes is reported with 0 bytes whether it arrived or not.)
ReportIsFinal ==
    \A c \in Conns :
        conn[c].kind = "complete" /\ conn[c].reply = "Ok" =>
            \A f \in Files : Size[f] > 0 =>
                (f \in conn[c].files <=> copies[conn[c].sid][f] = 1)

\* Nobody asks for anything in this step: no request is taken up, no queued
\* cancellation runs.
NobodyAsks == cancels' = cancels /\ \A c \in Conns : IsNew(c) => IsNew(c)'

\* A session ends for a cause of its own: its TTL ran out, a cancellation that
\* was asked for while it was the active one, an abort or a complete of the
\* device that opened it and naming it, or the death of the process.  Neither
\* another device's request, nor a request about an earlier session, nor a
\* cancellation still queued from one, ends it.
EndsForACause ==
    session' # session /\ session # NoSession =>
        \/ ttl /\ NobodyAsks
        \/ session \in cancels
        \/ session \in lost' \ lost
        \/ \E c \in Conns : /\ IsNew(c)
                            /\ conn'[c].kind \in {"complete", "abort"}
                            /\ conn'[c].sid = session /\ conn'[c].peer = sender
SessionEndsForACause == [][EndsForACause]_vars

\* The request of c gets its answer in this step.
IsAnswered(c) == conn[c].phase # "answered" /\ conn'[c].phase = "answered"

\* An active session is tended: its TTL runs, or the PUT is in flight whose end
\* starts it again.  A session that is not, nothing but its own peer, a click or
\* the end of the process can end: the one slot may be taken for ever.
Tended == session # NoSession => ttl \/ upload # NoConn

\* A session stops being tended in one way only: the commit of one of its files
\* fails in this very step, and its PUT is answered so.  No refusal, no broken or
\* refused PUT, no write that fails and no earlier session gets it there.
CommitFails ==
    /\ DirFaults
    /\ \E c \in Conns : /\ IsAnswered(c) /\ conn'[c].reply = "InternalError"
                        /\ conn'[c].kind = "put" /\ conn'[c].sid = session
UntendedByCommit == [][Tended /\ ~Tended' => CommitFails]_vars

\* What arrives in a step belongs to the active session and was sent by the device
\* that opened it: the very PUT that is answered with 200 in this step.
DeliveredByItsSender ==
    \A s \in SessionIds, f \in Files : copies'[s][f] # copies[s][f] =>
        /\ s = session
        /\ \E c \in Conns : /\ IsAnswered(c) /\ conn'[c].reply = "Ok"
                            /\ conn'[c].kind = "put" /\ conn'[c].peer = sender
                            /\ conn'[c].sid = s /\ conn'[c].file = f
DeliveriesAreTheSenders == [][DeliveredByItsSender]_vars

\* ReceiveService keeps the promises of TransferContract: m_session is the
\* open session, its entries are what it promised, and a file is delivered by
\* the rename into the receive directory.
Contract == INSTANCE TransferContract WITH
    open <- session,
    promised <- {f \in Files : entry[f] # "absent"},
    delivered <- [s \in SessionIds |-> {f \in Files : copies[s][f] > 0}],
    over <- issued \ {session, pendingId}
ImplementsContract == Contract!ContractSpec

\* ReceiveService asks no more of a connection than HttpServer keeps: no request
\* is answered after its connection has gone, or taken up twice.
Life == INSTANCE ConnectionLife WITH life <- [c \in Conns |-> conn[c].phase]
KeepsToConnectionLife == Life!LifeSpec

-----------------------------------------------------------------------------
(* The inductive invariant: the safety invariants and what they rest on.   *)

\* Nothing of a session is left when there is none.
NothingWithoutSession ==
    session = NoSession => sender = NoDevice /\ entry = NoEntries /\ upload = NoConn

\* Ids in use were drawn, and are not those of a session or prepare that was
\* lost; the directory of a waiting prepare is not old enough to be swept, unless
\* the loop that would sweep it stands still.
IdsDrawn ==
    /\ stale \subseteq tempDirs
    /\ tempDirs \subseteq issued
    /\ {session, pendingId} \ {NoSession} \subseteq issued \ lost
    /\ lost \subseteq issued
    /\ BlockingInput \/ pendingId \notin stale

\* The entries of the active session are what its files in the receive
\* directory say, and an id that has not become a session has no files there.
CopiesMatch ==
    /\ \A f \in Files : session # NoSession =>
         copies[session][f] = IF entry[f] = "committed" THEN 1 ELSE 0
    /\ \A s \in SessionIds, f \in Files :
         s \notin issued \/ s = pendingId => copies[s][f] = 0

\* Requests come from a device and name ids that were drawn, and a report is
\* given for a session that is over by then.
RequestsNameIds ==
    \A c \in Conns :
        /\ conn[c].kind # "none" => conn[c].peer \in Devices
        /\ conn[c].kind = "put" => conn[c].sid \in issued /\ conn[c].file \in Files
        /\ conn[c].kind = "complete" /\ conn[c].reply = "Ok" =>
             conn[c].sid \in issued \ {session, pendingId}

SlotInv ==
    /\ PendingExcludesSession /\ PendingIsLive
    /\ IdsDrawn /\ LiveDirsKept /\ TempDirsAccounted
UploadInv == UploadBelongs /\ TtlOnlyWhenIdle /\ NothingWithoutSession
AnswersInv == RequestsNameIds /\ DeliveredOnce /\ ReportIsFinal
DeliveryInv == CopiesMatch /\ AnswersInv

Inductive == TypeOK /\ SlotInv /\ UploadInv /\ DeliveryInv

-----------------------------------------------------------------------------
(* Liveness                                                                *)

\* The only session slot there is comes free again, whatever its peer does or
\* stops doing: protocol.h (kSessionTtl) says that when the sender has vanished
\* "only the TTL can free this one slot", so the TTL has to.
SlotComesFree == session # NoSession ~> session = NoSession

\* As long as the session is tended, it does: whatever its peer, other peers, the
\* directory and the user do.  A failed commit is the only way out
\* (UntendedByCommit), and SlotComesFree, without this way out, is false.
TendedSlotComesFree == session # NoSession ~> (session = NoSession \/ ~Tended)

\* Where the user is asked asynchronously, a prepare that waits for the answer
\* does not hold the pending slot for ever: the approval window closes.  On the
\* command line it may, since the loop that runs the timer stands still
\* (BlockingInput): docs/handover.md:46-50 knows that, and that the approval has
\* no upper bound there.
ApprovalIsBounded == pending # NoConn ~> pending = NoConn

-----------------------------------------------------------------------------
(* What the documentation says and the code does not do                    *)

\* receiveservice.h: the prepare that waits for approval occupies the slot,
\* "or two dialogs could be shown at once".
OneApprovalAtATime == Cardinality({c \in Conns : conn[c].phase = "waiting"}) <= 1

\* Where the dialog blocks the event loop no second prepare gets past the check of
\* the slot: only the one that holds it waits for the user.
OneDialogIfBlocking ==
    BlockingInput => \A c \in Conns : conn[c].phase = "waiting" => c = pending
=============================================================================
