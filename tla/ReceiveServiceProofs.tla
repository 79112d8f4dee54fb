------------------------ MODULE ReceiveServiceProofs ------------------------
(***************************************************************************)
(* Proofs about ReceiveService: its type invariant, its safety invariants, *)
(* all parts of one inductive invariant, that it implements                *)
(* TransferContract, and that it keeps to ConnectionLife.                  *)
(***************************************************************************)
EXTENDS ReceiveService, TLAPS

-----------------------------------------------------------------------------
(* Requests, answers and blank connections are records of the declared     *)
(* type; the proofs below never look at how they are made.                 *)

\* The record of a connection that has no request is well typed.
LEMMA BlankType ==
  ASSUME NEW phase \in Phases
  PROVE  Blank(phase) \in Connection
  BY DEF Blank, Connection, Kinds, Replies

\* So is a request, and its fields are what it was made from.
LEMMA RequestType ==
  ASSUME NEW kind \in Kinds, NEW d \in Devices, NEW sid \in SessionIds \cup {NoSession},
         NEW f \in Files \cup {NoFile}, NEW fs \in SUBSET Files
  PROVE  LET r == Request(kind, d, sid, f, fs) IN
         /\ r \in Connection
         /\ r.phase = "body" /\ r.reply = "none" /\ r.kind = kind /\ r.peer = d
         /\ r.sid = sid /\ r.file = f /\ r.files = fs
  BY DEF Request, Connection, Phases, Replies

\* Answering a request changes its phase and its reply and nothing else.
LEMMA AnsweredType ==
  ASSUME NEW r \in Connection, NEW reply \in Replies
  PROVE  LET a == Answered(r, reply) IN
         /\ a \in Connection
         /\ a.phase = "answered" /\ a.reply = reply
         /\ a.kind = r.kind /\ a.peer = r.peer /\ a.sid = r.sid
         /\ a.file = r.file /\ a.files = r.files
  BY DEF Answered, Connection, Phases

\* Aborting the upload in flight leaves well-typed connections.
LEMMA AbortType ==
  ASSUME TypeOK
  PROVE  AfterAbort \in [Conns -> Connection]
  BY BlankType DEF TypeOK, AfterAbort, Phases

\* So does answering a request that is being handled,
LEMMA AnswerType ==
  ASSUME TypeOK, NEW c \in Conns, NEW reply \in Replies, Answer(c, reply)
  PROVE  conn' \in [Conns -> Connection]
<1>1. conn[c] \in Connection
  BY DEF TypeOK
<1>2. Answered(conn[c], reply) \in Connection
  BY <1>1, AnsweredType
<1>3. QED
  BY <1>2 DEF Answer, TypeOK

\* and answering one the moment it arrives, with or without an abort.
LEMMA ReplyType ==
  ASSUME TypeOK, NEW c \in Conns, NEW kind \in Kinds, NEW d \in Devices,
         NEW sid \in SessionIds \cup {NoSession}, NEW f \in Files \cup {NoFile},
         NEW fs \in SUBSET Files, NEW reply \in Replies
  PROVE  LET a == Answered(Request(kind, d, sid, f, fs), reply) IN
         /\ a \in Connection
         /\ [conn EXCEPT ![c] = a] \in [Conns -> Connection]
         /\ [AfterAbort EXCEPT ![c] = a] \in [Conns -> Connection]
<1> DEFINE r == Request(kind, d, sid, f, fs)
<1>1. r \in Connection
  BY RequestType
<1>2. Answered(r, reply) \in Connection
  BY <1>1, AnsweredType
<1> HIDE DEF r
<1>3. /\ [conn EXCEPT ![c] = Answered(r, reply)] \in [Conns -> Connection]
      /\ [AfterAbort EXCEPT ![c] = Answered(r, reply)] \in [Conns -> Connection]
  BY <1>2, AbortType DEF TypeOK
<1>4. QED
  BY <1>2, <1>3 DEF r

\* Ending a session keeps the types of what it changes.
LEMMA EndSessionType ==
  ASSUME TypeOK, EndSession
  PROVE  /\ session' \in SessionIds \cup {NoSession} /\ sender' \in Devices \cup {NoDevice}
         /\ entry' \in [Files -> EntryStates] /\ ttl' \in BOOLEAN
         /\ upload' \in Conns \cup {NoConn} /\ written' \in Nat
         /\ tempDirs' \in SUBSET SessionIds /\ stale' \in SUBSET SessionIds
  BY DEF TypeOK, EndSession, ReleaseUpload, NoEntries, EntryStates

\* So does dropping a prepare,
LEMMA DropPendingType ==
  ASSUME TypeOK, DropPending
  PROVE  /\ pending' \in Conns \cup {NoConn} /\ pendingId' \in SessionIds \cup {NoSession}
         /\ approvalTimer' \in BOOLEAN
         /\ tempDirs' \in SUBSET SessionIds /\ stale' \in SUBSET SessionIds
  BY DEF TypeOK, DropPending

\* and opening a session.
LEMMA OpenSessionType ==
  ASSUME TypeOK, NEW c \in Conns, NEW id \in SessionIds, NEW fs \in SUBSET Files,
         OpenSession(c, id, fs)
  PROVE  /\ conn' \in [Conns -> Connection]
         /\ session' \in SessionIds \cup {NoSession} /\ sender' \in Devices \cup {NoDevice}
         /\ entry' \in [Files -> EntryStates] /\ ttl' \in BOOLEAN
         /\ upload' \in Conns \cup {NoConn} /\ written' \in Nat
         /\ pending' \in Conns \cup {NoConn} /\ pendingId' \in SessionIds \cup {NoSession}
         /\ approvalTimer' \in BOOLEAN
         /\ tempDirs' \in SUBSET SessionIds
<1> DEFINE r == [conn[c] EXCEPT !.sid = id, !.files = fs]
<1>0. conn[c] \in Connection
  BY DEF TypeOK
<1>1. r \in Connection
  BY <1>0 DEF Connection
<1>2. Answered(r, "Ok") \in Connection
  BY <1>1, AnsweredType DEF Replies
<1>3. conn' = [AfterAbort EXCEPT ![c] = Answered(r, "Ok")]
  BY DEF OpenSession
<1> HIDE DEF r
<1>4. conn' \in [Conns -> Connection]
  BY <1>2, <1>3, AbortType
<1>5. sender' \in Devices \cup {NoDevice}
  BY <1>0 DEF OpenSession, Connection
<1>6. entry' \in [Files -> EntryStates]
  BY DEF OpenSession, EntriesFor, EntryStates
<1>7. QED
  BY <1>4, <1>5, <1>6 DEF TypeOK, OpenSession, ReleaseUpload

\* Committing an upload keeps the types of what it changes.
LEMMA CommitType ==
  ASSUME TypeOK, NEW c \in Conns, NEW r \in Connection, CommitUpload(c, r)
  PROVE  /\ conn' \in [Conns -> Connection]
         /\ entry' \in [Files -> EntryStates] /\ ttl' \in BOOLEAN
         /\ upload' \in Conns \cup {NoConn} /\ written' \in Nat
         /\ stale' \in SUBSET SessionIds
         /\ copies' \in [SessionIds -> [Files -> Nat]]
<1>1. \A reply \in Replies : Answered(r, reply) \in Connection
  BY AnsweredType
<1>2. conn' \in [Conns -> Connection]
  BY <1>1 DEF CommitUpload, TypeOK, Replies
<1>3. entry' \in [Files -> EntryStates] /\ ttl' \in BOOLEAN
  BY DEF CommitUpload, TypeOK, EntryStates
<1>4. copies' \in [SessionIds -> [Files -> Nat]]
  BY DEF CommitUpload, TypeOK
<1>5. QED
  BY <1>2, <1>3, <1>4 DEF CommitUpload, ReleaseUpload, Touch, TypeOK

\* Every step keeps the types.  A waiting prepare has to have drawn an id and to
\* come from a device: accepting and blocking would store the null values.
LEMMA TypeStep == TypeOK /\ PendingIsLive /\ RequestsNameIds /\ [Next]_vars => TypeOK'
<1> SUFFICES ASSUME TypeOK, PendingIsLive, RequestsNameIds, [Next]_vars PROVE TypeOK'
  OBVIOUS
<1>1. ASSUME NEW c \in Conns, Prepare(c) PROVE TypeOK'
  <2>1. ASSUME NEW d \in Devices, HandlePrepare(c, d) PROVE TypeOK'
    <3> DEFINE r == Request("prepare", d, NoSession, NoFile, {})
    <3>1. r \in Connection /\ Answered(r, "Conflict") \in Connection
      BY RequestType, ReplyType DEF Kinds, Replies
    <3>2. conn' \in [Conns -> Connection]
      BY <2>1, <3>1 DEF HandlePrepare, TypeOK
    <3>3. QED
      BY <2>1, <3>2
         DEF HandlePrepare, TypeOK, pendingVars, sessionVars, diskVars, historyVars
  <2>2. CASE PrepareMalformed(c)
    <3>1. conn' \in [Conns -> Connection]
      BY <2>2, AnswerType DEF PrepareMalformed, Replies
    <3>2. QED
      BY <2>2, <3>1
         DEF PrepareMalformed, TypeOK, pendingVars, sessionVars, diskVars, historyVars
  <2>3. CASE PrepareRefused(c)
    <3>1. conn' \in [Conns -> Connection]
      BY <2>3, AnswerType DEF PrepareRefused, Replies
    <3>2. QED
      BY <2>3, <3>1
         DEF PrepareRefused, TypeOK, pendingVars, sessionVars, diskVars, historyVars
  <2>4. ASSUME NEW id \in SessionIds, PrepareTurnedAway(c, id) PROVE TypeOK'
    <3>1. conn' \in [Conns -> Connection]
      BY <2>4, AnswerType DEF PrepareTurnedAway, Replies
    <3>2. QED
      BY <2>4, <3>1
         DEF PrepareTurnedAway, PrepareAdmissible, TypeOK, sessionVars, diskVars
  <2>5. ASSUME NEW id \in SessionIds, NEW fs \in SUBSET Files, PrepareAsksUser(c, id, fs)
        PROVE  TypeOK'
    <3> DEFINE waiting == [conn[c] EXCEPT !.phase = "waiting"]
    <3>1. waiting \in Connection
      BY DEF TypeOK, Connection, Phases
    <3>2. [waiting EXCEPT !.files = fs] \in Connection
      <4> HIDE DEF waiting
      <4> QED
        BY <3>1 DEF Connection
    <3>3. [conn[c] EXCEPT !.phase = "waiting", !.files = fs] \in Connection
      BY <3>2
    <3>4. conn' \in [Conns -> Connection]
      BY <2>5, <3>3 DEF PrepareAsksUser, TypeOK
    <3>5. QED
      BY <2>5, <3>4
         DEF PrepareAsksUser, PrepareAdmissible, TakePendingSlot, TypeOK, sessionVars
  <2>6. ASSUME NEW id \in SessionIds, NEW fs \in SUBSET Files, PrepareAccepted(c, id, fs)
        PROVE  TypeOK'
    <3>1. OpenSession(c, id, fs)
      BY <2>6 DEF PrepareAccepted
    <3>2. QED
      BY <2>6, <3>1, OpenSessionType DEF PrepareAccepted, PrepareAdmissible, TypeOK
  <2>7. QED
    BY <1>1, <2>1, <2>2, <2>3, <2>4, <2>5, <2>6 DEF Prepare
<1>2. ASSUME NEW c \in Conns, SessionRequest(c) PROVE TypeOK'
  <2> SUFFICES ASSUME NEW d \in Devices, NEW sid \in SessionIds,
                      \/ HandleComplete(c, d, sid)
                      \/ HandleAbort(c, d, sid)
                      \/ \E f \in Files :
                           \/ \E e \in BOOLEAN : UploadRefused(c, d, sid, f, e)
                           \/ UploadSinkFails(c, d, sid, f)
                           \/ UploadStarts(c, d, sid, f)
               PROVE  TypeOK'
    BY <1>2 DEF SessionRequest, TypeOK
  <2>1. RequireSession(d, sid) \in Replies
    BY DEF RequireSession, Replies
  <2>2. CASE HandleComplete(c, d, sid)
    <3> DEFINE yes == Answered(Request("complete", d, sid, NoFile, ReportedReceived), "Ok")
               no == Answered(Request("complete", d, sid, NoFile, {}), RequireSession(d, sid))
    <3>1. ReportedReceived \in SUBSET Files
      BY DEF ReportedReceived
    <3>2. /\ [AfterAbort EXCEPT ![c] = yes] \in [Conns -> Connection]
          /\ [conn EXCEPT ![c] = no] \in [Conns -> Connection]
      BY <2>1, <3>1, ReplyType DEF Kinds, Replies
    <3>3. CASE RequireSession(d, sid) = "Ok"
      <4>1. conn' = [AfterAbort EXCEPT ![c] = yes] /\ EndSession
        BY <2>2, <3>3 DEF HandleComplete
      <4> HIDE DEF yes, no
      <4>2. QED
        BY <2>2, <3>2, <4>1, EndSessionType
           DEF HandleComplete, TypeOK, pendingVars, historyVars
    <3>4. CASE RequireSession(d, sid) # "Ok"
      <4>1. conn' = [conn EXCEPT ![c] = no] /\ UNCHANGED <<sessionVars, tempDirs, stale>>
        BY <2>2, <3>4 DEF HandleComplete
      <4> HIDE DEF yes, no
      <4>2. QED
        BY <2>2, <3>2, <4>1
           DEF HandleComplete, TypeOK, pendingVars, sessionVars, historyVars
    <3>5. QED
      BY <3>3, <3>4
  <2>3. CASE HandleAbort(c, d, sid)
    <3> DEFINE a(reply) == Answered(Request("abort", d, sid, NoFile, {}), reply)
    <3>1. \A reply \in {"Ok", "Forbidden"} :
             /\ [AfterAbort EXCEPT ![c] = a(reply)] \in [Conns -> Connection]
             /\ [conn EXCEPT ![c] = a(reply)] \in [Conns -> Connection]
      BY ReplyType DEF Kinds, Replies
    <3>2. CASE sid = session /\ d = sender
      <4>1. conn' = [AfterAbort EXCEPT ![c] = a("Ok")] /\ EndSession
        BY <2>3, <3>2 DEF HandleAbort
      <4> HIDE DEF a
      <4>2. QED
        BY <2>3, <3>1, <4>1, EndSessionType
           DEF HandleAbort, TypeOK, pendingVars, historyVars
    <3>3. CASE ~(sid = session /\ d = sender)
      <4>1. /\ conn' = [conn EXCEPT ![c] = a(IF sid = session THEN "Forbidden" ELSE "Ok")]
            /\ UNCHANGED <<sessionVars, tempDirs, stale>>
        BY <2>3, <3>3 DEF HandleAbort
      <4> HIDE DEF a
      <4>2. QED
        BY <2>3, <3>1, <4>1 DEF HandleAbort, TypeOK, pendingVars, sessionVars, historyVars
    <3>4. QED
      BY <3>2, <3>3
  <2>4. ASSUME NEW f \in Files, NEW e \in BOOLEAN, UploadRefused(c, d, sid, f, e)
        PROVE  TypeOK'
    <3>1. conn' \in [Conns -> Connection]
      BY <2>1, <2>4, ReplyType DEF UploadRefused, Kinds, Replies
    <3>2. QED
      BY <2>4, <3>1
         DEF UploadRefused, TypeOK, pendingVars, sessionVars, diskVars, historyVars
  <2>5. ASSUME NEW f \in Files, UploadSinkFails(c, d, sid, f) PROVE TypeOK'
    <3>1. \A reply \in {"InsufficientStorage", "InternalError"} :
             [conn EXCEPT ![c] = Answered(Request("put", d, sid, f, {}), reply)]
               \in [Conns -> Connection]
      BY ReplyType DEF Kinds, Replies
    <3>2. conn' \in [Conns -> Connection]
      BY <2>5, <3>1 DEF UploadSinkFails
    <3>3. QED
      BY <2>5, <3>2
         DEF UploadSinkFails, Touch, TypeOK, pendingVars, sessionVars, diskVars, historyVars
  <2>6. ASSUME NEW f \in Files, UploadStarts(c, d, sid, f) PROVE TypeOK'
    <3> DEFINE r == Request("put", d, sid, f, {})
    <3>1. r \in Connection
      BY RequestType DEF Kinds
    <3>2. CASE Size[f] = 0
      <4>1. CommitUpload(c, r)
        BY <2>6, <3>2 DEF UploadStarts
      <4> HIDE DEF r
      <4>2. QED
        BY <2>6, <3>1, <4>1, CommitType DEF UploadStarts, TypeOK, pendingVars, historyVars
    <3>3. CASE Size[f] # 0
      <4>1. conn' \in [Conns -> Connection]
        BY <2>6, <3>1, <3>3 DEF UploadStarts, TypeOK
      <4>2. entry' \in [Files -> EntryStates]
        BY <2>6, <3>3 DEF UploadStarts, TypeOK, EntryStates
      <4>3. /\ upload' = c /\ written' = 0 /\ ttl' = FALSE
            /\ stale' = stale \ {sid} /\ copies' = copies /\ tempDirs' = tempDirs \cup {sid}
        BY <2>6, <3>3 DEF UploadStarts, Touch
      <4>4. UNCHANGED <<blocked, pendingVars, session, sender, cancels, historyVars>>
        BY <2>6 DEF UploadStarts
      <4>5. QED
        BY <4>1, <4>2, <4>3, <4>4 DEF TypeOK, pendingVars, historyVars
    <3>4. QED
      BY <3>2, <3>3
  <2>7. QED
    BY <2>2, <2>3, <2>4, <2>5, <2>6
<1>3. ASSUME NEW c \in Conns, Finished(c) PROVE TypeOK'
  <2>1. conn' \in [Conns -> Connection]
    BY <1>3, BlankType DEF Finished, TypeOK, Phases
  <2>2. CASE c = pending
    BY <1>3, <2>1, <2>2, DropPendingType DEF Finished, TypeOK, sessionVars, historyVars
  <2>3. CASE c # pending /\ c = upload
    <3>1. entry' \in [Files -> EntryStates] /\ ttl' \in BOOLEAN
      BY <1>3, <2>3 DEF Finished, UploadBroken, TypeOK, EntryStates
    <3>2. QED
      BY <1>3, <2>1, <2>3, <3>1
         DEF Finished, UploadBroken, ReleaseUpload, Touch, TypeOK, pendingVars,
             historyVars
  <2>4. CASE c # pending /\ c # upload
    BY <1>3, <2>1, <2>4 DEF Finished, TypeOK, pendingVars, sessionVars, historyVars
  <2>5. QED
    BY <2>2, <2>3, <2>4
<1>4. CASE UploadProgress
  BY <1>4 DEF UploadProgress, TypeOK, pendingVars, diskVars, historyVars
<1>5. CASE UploadLastPiece
  <2>1. upload \in Conns /\ conn[upload] \in Connection
    BY <1>5, NullAssumption DEF UploadLastPiece, TypeOK
  <2>2. CommitUpload(upload, conn[upload])
    BY <1>5 DEF UploadLastPiece
  <2>3. QED
    BY <1>5, <2>1, <2>2, CommitType DEF UploadLastPiece, TypeOK, pendingVars, historyVars
<1>6. CASE UploadWriteFails
  <2>1. conn' \in [Conns -> Connection]
    BY <1>6, AnswerType DEF UploadWriteFails, TypeOK, Replies
  <2>2. QED
    BY <1>6, <2>1
       DEF UploadWriteFails, TypeOK, pendingVars, sessionVars, diskVars, historyVars
<1>7. CASE UserAccepts
  <2>1. pending \in Conns /\ conn[pending] \in Connection /\ pendingId \in SessionIds
    BY <1>7 DEF UserAccepts, TypeOK, PendingIsLive
  <2>2. conn[pending].files \in SUBSET Files
    BY <2>1 DEF Connection
  <2>3. OpenSession(pending, pendingId, conn[pending].files)
    BY <1>7 DEF UserAccepts
  <2>4. QED
    BY <1>7, <2>1, <2>2, <2>3, OpenSessionType DEF UserAccepts, TypeOK, historyVars
<1>8. CASE UserRejects \/ UserBlocks \/ ApprovalTimeout
  <2>1. pending \in Conns /\ conn[pending] \in Connection
    BY <1>8 DEF UserRejects, UserBlocks, ApprovalTimeout, TypeOK
  <2>2. conn' \in [Conns -> Connection]
    BY <1>8, <2>1, AnswerType DEF UserRejects, UserBlocks, ApprovalTimeout, Replies
  <2>3. blocked' \in SUBSET Devices
    BY <1>8, <2>1
       DEF UserRejects, UserBlocks, ApprovalTimeout, TypeOK, PendingIsLive,
           RequestsNameIds
  <2>4. QED
    BY <1>8, <2>2, <2>3, DropPendingType
       DEF UserRejects, UserBlocks, ApprovalTimeout, TypeOK, sessionVars, historyVars
<1>9. CASE CancelActive
  BY <1>9 DEF CancelActive, TypeOK, pendingVars, sessionVars, diskVars, historyVars
<1>10. CASE SessionExpires
  BY <1>10, AbortType, EndSessionType DEF SessionExpires, TypeOK, pendingVars, historyVars
<1>11. ASSUME NEW sid \in SessionIds, RunCancel(sid) PROVE TypeOK'
  <2>1. CASE sid = session
    BY <1>11, <2>1, AbortType, EndSessionType
       DEF RunCancel, TypeOK, pendingVars, historyVars
  <2>2. CASE sid # session
    BY <1>11, <2>2 DEF RunCancel, TypeOK, pendingVars, sessionVars, historyVars
  <2>3. QED
    BY <2>1, <2>2
<1>12. ASSUME NEW sid \in SessionIds, DirAges(sid) PROVE TypeOK'
  BY <1>12 DEF DirAges, TypeOK, pendingVars, sessionVars, historyVars
<1>13. CASE Sweep
  BY <1>13 DEF Sweep, TypeOK, pendingVars, sessionVars, historyVars
<1>14. CASE Restart
  <2>1. conn' \in [Conns -> Connection]
    BY <1>14, BlankType DEF Restart, TypeOK, Phases
  <2>2. QED
    BY <1>14, <2>1 DEF Restart, ReleaseUpload, TypeOK, NoEntries, EntryStates
<1>15. CASE UNCHANGED vars
  BY <1>15 DEF vars, TypeOK, pendingVars, sessionVars, diskVars, historyVars
<1>16. QED
  BY <1>1, <1>2, <1>3, <1>4, <1>5, <1>6, <1>7, <1>8, <1>9, <1>10, <1>11, <1>12, <1>13,
     <1>14, <1>15
     DEF Next, LoopStep, User, PeerGone, IdleOrFlushed

\* Every step keeps the slot's invariant: no prepare waits beside a session, what
\* holds the slot can be got rid of, and directories have owners.
LEMMA SlotStep == TypeOK /\ SlotInv /\ [Next]_vars => SlotInv'
<1> SUFFICES ASSUME TypeOK, SlotInv, [Next]_vars PROVE SlotInv'
  OBVIOUS
<1> USE SizeAssumption, NullAssumption
    DEF TypeOK, SlotInv, PendingExcludesSession, PendingIsLive, IdsDrawn, LiveDirsKept,
        TempDirsAccounted, NoEntries, EntryStates, IsNew,
        pendingVars, sessionVars, diskVars, historyVars
<1>1. ASSUME NEW c \in Conns, NEW d \in Devices, HandlePrepare(c, d)
     PROVE  SlotInv'
  BY SMTT(20), <1>1 DEF HandlePrepare, Request, Answered
<1>2. ASSUME NEW c \in Conns, PrepareMalformed(c)
     PROVE  SlotInv'
  BY SMTT(20), <1>2 DEF PrepareMalformed, Answer, Answered
<1>3. ASSUME NEW c \in Conns, PrepareRefused(c)
     PROVE  SlotInv'
  BY SMTT(20), <1>3 DEF PrepareRefused, Answer, Answered
<1>4. ASSUME NEW c \in Conns, NEW id \in SessionIds, PrepareTurnedAway(c, id)
     PROVE  SlotInv'
  BY SMTT(20), <1>4 DEF PrepareTurnedAway, PrepareAdmissible, Answer, Answered
<1>5. ASSUME NEW c \in Conns, NEW id \in SessionIds, NEW fs \in SUBSET Files,
             PrepareAsksUser(c, id, fs)
     PROVE  SlotInv'
  BY SMTT(20), <1>5 DEF PrepareAsksUser, PrepareAdmissible, TakePendingSlot
<1>6. ASSUME NEW c \in Conns, NEW id \in SessionIds, NEW fs \in SUBSET Files,
             PrepareAccepted(c, id, fs)
     PROVE  SlotInv'
  BY SMTT(20), <1>6
     DEF PrepareAccepted, PrepareAdmissible, OpenSession, EntriesFor, ReleaseUpload,
         AfterAbort, Blank, Answered
<1>7. CASE UserAccepts
  BY SMTT(20), <1>7
     DEF UserAccepts, OpenSession, EntriesFor, ReleaseUpload, AfterAbort, Blank, Answered
<1>8. CASE UserRejects
  BY SMTT(20), <1>8 DEF UserRejects, DropPending, Answer, Answered
<1>9. CASE UserBlocks
  BY SMTT(20), <1>9 DEF UserBlocks, DropPending, Answer, Answered
<1>10. CASE ApprovalTimeout
  BY SMTT(20), <1>10 DEF ApprovalTimeout, DropPending, Answer, Answered
<1>11. ASSUME NEW c \in Conns, NEW d \in Devices, NEW sid \in issued, NEW f \in Files,
              NEW e \in BOOLEAN, UploadRefused(c, d, sid, f, e)
     PROVE  SlotInv'
  BY SMTT(20), <1>11 DEF UploadRefused, Request, Answered, RequireSession
<1>12. ASSUME NEW c \in Conns, NEW d \in Devices, NEW sid \in issued, NEW f \in Files,
              UploadSinkFails(c, d, sid, f)
     PROVE  SlotInv'
  BY SMTT(20), <1>12 DEF UploadSinkFails, Touch, Request, Answered, RequireSession
<1>13. ASSUME NEW c \in Conns, NEW d \in Devices, NEW sid \in issued, NEW f \in Files,
              UploadStarts(c, d, sid, f)
     PROVE  SlotInv'
  BY SMTT(20), <1>13
     DEF UploadStarts, MayUpload, RequireSession, CommitUpload, ReleaseUpload, Touch,
         Request, Answered
<1>14. CASE UploadProgress
  BY SMTT(20), <1>14 DEF UploadProgress
<1>15. CASE UploadLastPiece
  BY SMTT(20), <1>15 DEF UploadLastPiece, CommitUpload, ReleaseUpload, Touch, Answered
<1>16. CASE UploadWriteFails
  BY SMTT(20), <1>16 DEF UploadWriteFails, Answer, Answered
<1>17. ASSUME NEW c \in Conns, NEW d \in Devices, NEW sid \in issued,
              HandleComplete(c, d, sid)
     PROVE  SlotInv'
  BY SMTT(20), <1>17
     DEF HandleComplete, RequireSession, EndSession, ReleaseUpload, AfterAbort, Blank,
         ReportedReceived, Request, Answered
<1>18. ASSUME NEW c \in Conns, NEW d \in Devices, NEW sid \in issued, HandleAbort(c, d, sid)
     PROVE  SlotInv'
  BY SMTT(20), <1>18
     DEF HandleAbort, EndSession, ReleaseUpload, AfterAbort, Blank, Request, Answered
<1>19. CASE CancelActive
  BY SMTT(20), <1>19 DEF CancelActive
<1>20. ASSUME NEW sid \in SessionIds, RunCancel(sid)
     PROVE  SlotInv'
  BY SMTT(20), <1>20 DEF RunCancel, EndSession, ReleaseUpload, AfterAbort, Blank
<1>21. CASE SessionExpires
  BY SMTT(20), <1>21 DEF SessionExpires, EndSession, ReleaseUpload, AfterAbort, Blank
<1>22. ASSUME NEW c \in Conns, conn[c].phase \in {"body", "waiting", "answered"},
              Finished(c)
     PROVE  SlotInv'
  BY SMTT(20), <1>22 DEF Finished, DropPending, UploadBroken, ReleaseUpload, Touch, Blank
<1>23. ASSUME NEW sid \in SessionIds, DirAges(sid)
     PROVE  SlotInv'
  BY SMTT(20), <1>23 DEF DirAges
<1>24. CASE Running /\ Sweep
  BY SMTT(20), <1>24 DEF Running, Sweep
<1>25. CASE Restart
  BY SMTT(20), <1>25 DEF Restart, ReleaseUpload, Blank
<1>26. CASE UNCHANGED vars
  BY SMTT(20), <1>26 DEF vars
<1> HIDE SizeAssumption, NullAssumption
    DEF TypeOK, SlotInv, PendingExcludesSession, PendingIsLive, IdsDrawn, LiveDirsKept,
        TempDirsAccounted, NoEntries, EntryStates, IsNew,
        pendingVars, sessionVars, diskVars, historyVars
<1>27. QED
  BY <1>1, <1>2, <1>3, <1>4, <1>5, <1>6, <1>7, <1>8, <1>9, <1>10, <1>11, <1>12, <1>13,
     <1>14, <1>15, <1>16, <1>17, <1>18, <1>19, <1>20, <1>21, <1>22, <1>23, <1>24, <1>25,
     <1>26
     DEF Next, LoopStep, Prepare, SessionRequest, User, PeerGone, IdleOrFlushed

\* Every step keeps the upload's invariant: the PUT in flight is the session's,
\* and the TTL stands still.  It rests on the slot's.
LEMMA UploadStep == TypeOK /\ SlotInv /\ UploadInv /\ [Next]_vars => UploadInv'
<1> SUFFICES ASSUME TypeOK, SlotInv, UploadInv, [Next]_vars PROVE UploadInv'
  OBVIOUS
<1> USE SizeAssumption, NullAssumption
    DEF TypeOK, SlotInv, PendingExcludesSession, PendingIsLive, UploadInv, UploadBelongs,
        TtlOnlyWhenIdle, NothingWithoutSession, NoEntries, EntryStates, IsNew,
        pendingVars, sessionVars, diskVars, historyVars
<1>1. ASSUME NEW c \in Conns, NEW d \in Devices, HandlePrepare(c, d)
     PROVE  UploadInv'
  BY SMTT(20), <1>1 DEF HandlePrepare, Request, Answered
<1>2. ASSUME NEW c \in Conns, PrepareMalformed(c)
     PROVE  UploadInv'
  BY SMTT(20), <1>2 DEF PrepareMalformed, Answer, Answered
<1>3. ASSUME NEW c \in Conns, PrepareRefused(c)
     PROVE  UploadInv'
  BY SMTT(20), <1>3 DEF PrepareRefused, Answer, Answered
<1>4. ASSUME NEW c \in Conns, NEW id \in SessionIds, PrepareTurnedAway(c, id)
     PROVE  UploadInv'
  BY SMTT(20), <1>4 DEF PrepareTurnedAway, PrepareAdmissible, Answer, Answered
<1>5. ASSUME NEW c \in Conns, NEW id \in SessionIds, NEW fs \in SUBSET Files,
             PrepareAsksUser(c, id, fs)
     PROVE  UploadInv'
  BY SMTT(20), <1>5 DEF PrepareAsksUser, PrepareAdmissible, TakePendingSlot
<1>6. ASSUME NEW c \in Conns, NEW id \in SessionIds, NEW fs \in SUBSET Files,
             PrepareAccepted(c, id, fs)
     PROVE  UploadInv'
  BY SMTT(20), <1>6
     DEF PrepareAccepted, PrepareAdmissible, OpenSession, EntriesFor, ReleaseUpload,
         AfterAbort, Blank, Answered
<1>7. CASE UserAccepts
  BY SMTT(20), <1>7
     DEF UserAccepts, OpenSession, EntriesFor, ReleaseUpload, AfterAbort, Blank, Answered
<1>8. CASE UserRejects
  BY SMTT(20), <1>8 DEF UserRejects, DropPending, Answer, Answered
<1>9. CASE UserBlocks
  BY SMTT(20), <1>9 DEF UserBlocks, DropPending, Answer, Answered
<1>10. CASE ApprovalTimeout
  BY SMTT(20), <1>10 DEF ApprovalTimeout, DropPending, Answer, Answered
<1>11. ASSUME NEW c \in Conns, NEW d \in Devices, NEW sid \in issued, NEW f \in Files,
              NEW e \in BOOLEAN, UploadRefused(c, d, sid, f, e)
     PROVE  UploadInv'
  BY SMTT(20), <1>11 DEF UploadRefused, Request, Answered, RequireSession
<1>12. ASSUME NEW c \in Conns, NEW d \in Devices, NEW sid \in issued, NEW f \in Files,
              UploadSinkFails(c, d, sid, f)
     PROVE  UploadInv'
  BY SMTT(20), <1>12 DEF UploadSinkFails, Touch, Request, Answered, RequireSession
<1>13. ASSUME NEW c \in Conns, NEW d \in Devices, NEW sid \in issued, NEW f \in Files,
              UploadStarts(c, d, sid, f)
     PROVE  UploadInv'
  BY SMTT(20), <1>13
     DEF UploadStarts, MayUpload, RequireSession, CommitUpload, ReleaseUpload, Touch,
         Request, Answered
<1>14. CASE UploadProgress
  BY SMTT(20), <1>14 DEF UploadProgress
<1>15. CASE UploadLastPiece
  BY SMTT(20), <1>15 DEF UploadLastPiece, CommitUpload, ReleaseUpload, Touch, Answered
<1>16. CASE UploadWriteFails
  BY SMTT(20), <1>16 DEF UploadWriteFails, Answer, Answered
<1>17. ASSUME NEW c \in Conns, NEW d \in Devices, NEW sid \in issued,
              HandleComplete(c, d, sid)
     PROVE  UploadInv'
  BY SMTT(20), <1>17
     DEF HandleComplete, RequireSession, EndSession, ReleaseUpload, AfterAbort, Blank,
         ReportedReceived, Request, Answered
<1>18. ASSUME NEW c \in Conns, NEW d \in Devices, NEW sid \in issued, HandleAbort(c, d, sid)
     PROVE  UploadInv'
  BY SMTT(20), <1>18
     DEF HandleAbort, EndSession, ReleaseUpload, AfterAbort, Blank, Request, Answered
<1>19. CASE CancelActive
  BY SMTT(20), <1>19 DEF CancelActive
<1>20. ASSUME NEW sid \in SessionIds, RunCancel(sid)
     PROVE  UploadInv'
  BY SMTT(20), <1>20 DEF RunCancel, EndSession, ReleaseUpload, AfterAbort, Blank
<1>21. CASE SessionExpires
  BY SMTT(20), <1>21 DEF SessionExpires, EndSession, ReleaseUpload, AfterAbort, Blank
<1>22. ASSUME NEW c \in Conns, conn[c].phase \in {"body", "waiting", "answered"},
              Finished(c)
     PROVE  UploadInv'
  BY SMTT(20), <1>22 DEF Finished, DropPending, UploadBroken, ReleaseUpload, Touch, Blank
<1>23. ASSUME NEW sid \in SessionIds, DirAges(sid)
     PROVE  UploadInv'
  BY SMTT(20), <1>23 DEF DirAges
<1>24. CASE Sweep
  BY SMTT(20), <1>24 DEF Sweep
<1>25. CASE Restart
  BY SMTT(20), <1>25 DEF Restart, ReleaseUpload, Blank
<1>26. CASE UNCHANGED vars
  BY SMTT(20), <1>26 DEF vars
<1> HIDE SizeAssumption, NullAssumption
    DEF TypeOK, SlotInv, PendingExcludesSession, PendingIsLive, UploadInv, UploadBelongs,
        TtlOnlyWhenIdle, NothingWithoutSession, NoEntries, EntryStates, IsNew,
        pendingVars, sessionVars, diskVars, historyVars
<1>27. QED
  BY <1>1, <1>2, <1>3, <1>4, <1>5, <1>6, <1>7, <1>8, <1>9, <1>10, <1>11, <1>12, <1>13,
     <1>14, <1>15, <1>16, <1>17, <1>18, <1>19, <1>20, <1>21, <1>22, <1>23, <1>24, <1>25,
     <1>26
     DEF Next, LoopStep, Prepare, SessionRequest, User, PeerGone, IdleOrFlushed

\* Every step keeps the entries in line with the receive directory.
LEMMA CopiesStep ==
  TypeOK /\ SlotInv /\ UploadInv /\ CopiesMatch /\ [Next]_vars => CopiesMatch'
<1> SUFFICES ASSUME TypeOK, SlotInv, UploadInv, CopiesMatch, [Next]_vars PROVE CopiesMatch'
  OBVIOUS
<1> USE SizeAssumption, NullAssumption
    DEF TypeOK, SlotInv, PendingExcludesSession, PendingIsLive, IdsDrawn, UploadInv,
        UploadBelongs, NothingWithoutSession, CopiesMatch, NoEntries, EntryStates, IsNew,
        pendingVars, sessionVars, diskVars, historyVars
<1>1. ASSUME NEW c \in Conns, NEW d \in Devices, HandlePrepare(c, d)
     PROVE  CopiesMatch'
  BY SMTT(20), <1>1 DEF HandlePrepare, Request, Answered
<1>2. ASSUME NEW c \in Conns, PrepareMalformed(c)
     PROVE  CopiesMatch'
  BY SMTT(20), <1>2 DEF PrepareMalformed, Answer, Answered
<1>3. ASSUME NEW c \in Conns, PrepareRefused(c)
     PROVE  CopiesMatch'
  BY SMTT(20), <1>3 DEF PrepareRefused, Answer, Answered
<1>4. ASSUME NEW c \in Conns, NEW id \in SessionIds, PrepareTurnedAway(c, id)
     PROVE  CopiesMatch'
  BY SMTT(20), <1>4 DEF PrepareTurnedAway, PrepareAdmissible, Answer, Answered
<1>5. ASSUME NEW c \in Conns, NEW id \in SessionIds, NEW fs \in SUBSET Files,
             PrepareAsksUser(c, id, fs)
     PROVE  CopiesMatch'
  BY SMTT(20), <1>5 DEF PrepareAsksUser, PrepareAdmissible, TakePendingSlot
<1>6. ASSUME NEW c \in Conns, NEW id \in SessionIds, NEW fs \in SUBSET Files,
             PrepareAccepted(c, id, fs)
     PROVE  CopiesMatch'
  BY SMTT(20), <1>6
     DEF PrepareAccepted, PrepareAdmissible, OpenSession, EntriesFor, ReleaseUpload,
         AfterAbort, Blank, Answered
<1>7. CASE UserAccepts
  BY SMTT(20), <1>7
     DEF UserAccepts, OpenSession, EntriesFor, ReleaseUpload, AfterAbort, Blank, Answered
<1>8. CASE UserRejects
  BY SMTT(20), <1>8 DEF UserRejects, DropPending, Answer, Answered
<1>9. CASE UserBlocks
  BY SMTT(20), <1>9 DEF UserBlocks, DropPending, Answer, Answered
<1>10. CASE ApprovalTimeout
  BY SMTT(20), <1>10 DEF ApprovalTimeout, DropPending, Answer, Answered
<1>11. ASSUME NEW c \in Conns, NEW d \in Devices, NEW sid \in issued, NEW f \in Files,
              NEW e \in BOOLEAN, UploadRefused(c, d, sid, f, e)
     PROVE  CopiesMatch'
  BY SMTT(20), <1>11 DEF UploadRefused, Request, Answered, RequireSession
<1>12. ASSUME NEW c \in Conns, NEW d \in Devices, NEW sid \in issued, NEW f \in Files,
              UploadSinkFails(c, d, sid, f)
     PROVE  CopiesMatch'
  BY SMTT(20), <1>12 DEF UploadSinkFails, Touch, Request, Answered, RequireSession
<1>13. ASSUME NEW c \in Conns, NEW d \in Devices, NEW sid \in issued, NEW f \in Files,
              UploadStarts(c, d, sid, f)
     PROVE  CopiesMatch'
  BY SMTT(20), <1>13
     DEF UploadStarts, MayUpload, RequireSession, CommitUpload, ReleaseUpload, Touch,
         Request, Answered
<1>14. CASE UploadProgress
  BY SMTT(20), <1>14 DEF UploadProgress
<1>15. CASE UploadLastPiece
  BY SMTT(20), <1>15 DEF UploadLastPiece, CommitUpload, ReleaseUpload, Touch, Answered
<1>16. CASE UploadWriteFails
  BY SMTT(20), <1>16 DEF UploadWriteFails, Answer, Answered
<1>17. ASSUME NEW c \in Conns, NEW d \in Devices, NEW sid \in issued,
              HandleComplete(c, d, sid)
     PROVE  CopiesMatch'
  BY SMTT(20), <1>17
     DEF HandleComplete, RequireSession, EndSession, ReleaseUpload, AfterAbort, Blank,
         ReportedReceived, Request, Answered
<1>18. ASSUME NEW c \in Conns, NEW d \in Devices, NEW sid \in issued, HandleAbort(c, d, sid)
     PROVE  CopiesMatch'
  BY SMTT(20), <1>18
     DEF HandleAbort, EndSession, ReleaseUpload, AfterAbort, Blank, Request, Answered
<1>19. CASE CancelActive
  BY SMTT(20), <1>19 DEF CancelActive
<1>20. ASSUME NEW sid \in SessionIds, RunCancel(sid)
     PROVE  CopiesMatch'
  BY SMTT(20), <1>20 DEF RunCancel, EndSession, ReleaseUpload, AfterAbort, Blank
<1>21. CASE SessionExpires
  BY SMTT(20), <1>21 DEF SessionExpires, EndSession, ReleaseUpload, AfterAbort, Blank
<1>22. ASSUME NEW c \in Conns, conn[c].phase \in {"body", "waiting", "answered"},
              Finished(c)
     PROVE  CopiesMatch'
  BY SMTT(20), <1>22 DEF Finished, DropPending, UploadBroken, ReleaseUpload, Touch, Blank
<1>23. ASSUME NEW sid \in SessionIds, DirAges(sid)
     PROVE  CopiesMatch'
  BY SMTT(20), <1>23 DEF DirAges
<1>24. CASE Sweep
  BY SMTT(20), <1>24 DEF Sweep
<1>25. CASE Restart
  BY SMTT(20), <1>25 DEF Restart, ReleaseUpload, Blank
<1>26. CASE UNCHANGED vars
  BY SMTT(20), <1>26 DEF vars
<1> HIDE SizeAssumption, NullAssumption
    DEF TypeOK, SlotInv, PendingExcludesSession, PendingIsLive, IdsDrawn, UploadInv,
        UploadBelongs, NothingWithoutSession, CopiesMatch, NoEntries, EntryStates, IsNew,
        pendingVars, sessionVars, diskVars, historyVars
<1>27. QED
  BY <1>1, <1>2, <1>3, <1>4, <1>5, <1>6, <1>7, <1>8, <1>9, <1>10, <1>11, <1>12, <1>13,
     <1>14, <1>15, <1>16, <1>17, <1>18, <1>19, <1>20, <1>21, <1>22, <1>23, <1>24, <1>25,
     <1>26
     DEF Next, LoopStep, Prepare, SessionRequest, User, PeerGone, IdleOrFlushed

\* What an answer after an abort, or without one, does to the connections: the
\* others are as they were, or closed without a request.
LEMMA OthersKept ==
  ASSUME TypeOK, NEW c \in Conns, NEW a,
         conn' = [AfterAbort EXCEPT ![c] = a] \/ conn' = [conn EXCEPT ![c] = a]
  PROVE  /\ conn'[c] = a
         /\ \A x \in Conns \ {c} : conn'[x] = conn[x] \/ conn'[x].kind = "none"
<1>1. conn'[c] = a
  BY DEF TypeOK, AfterAbort
<1>2. Blank("closed").kind = "none"
  BY DEF Blank
<1>3. \A x \in Conns \ {c} : conn'[x] = conn[x] \/ conn'[x] = Blank("closed")
  BY DEF TypeOK, AfterAbort
<1>4. QED
  BY <1>1, <1>2, <1>3

\* Every step keeps the answers true.  Steps that answer are taken apart: what
\* the answer says, that the other connections keep theirs, and what it is about.
LEMMA AnswersStep ==
  TypeOK /\ SlotInv /\ UploadInv /\ CopiesMatch /\ AnswersInv /\ [Next]_vars => AnswersInv'
<1> SUFFICES ASSUME TypeOK, SlotInv, UploadInv, CopiesMatch, AnswersInv,
                    [Next]_vars PROVE AnswersInv'
  OBVIOUS
<1> USE SizeAssumption, NullAssumption
    DEF TypeOK, SlotInv, PendingExcludesSession, PendingIsLive, IdsDrawn, UploadInv,
        UploadBelongs, NothingWithoutSession, CopiesMatch, AnswersInv, RequestsNameIds,
        DeliveredOnce, ReportIsFinal, NoEntries, EntryStates, IsNew,
        pendingVars, sessionVars, diskVars, historyVars
<1>1. ASSUME NEW c \in Conns, NEW d \in Devices, HandlePrepare(c, d)
     PROVE  AnswersInv'
  <2> HIDE DEF TypeOK
  <2> DEFINE r == Request("prepare", d, NoSession, NoFile, {})
             a == Answered(r, "Conflict")
  <2>1. r \in Connection /\ r.kind = "prepare" /\ r.peer = d
    BY RequestType DEF Kinds
  <2>2. conn' = [conn EXCEPT ![c] = r] \/ conn' = [conn EXCEPT ![c] = a]
    BY <1>1 DEF HandlePrepare
  <2> HIDE DEF r
  <2>3. a.kind = "prepare" /\ a.peer = d
    BY <2>1, AnsweredType DEF Replies
  <2> HIDE DEF a
  <2>4. /\ conn'[c] = r \/ conn'[c] = a
        /\ \A x \in Conns \ {c} : conn'[x] = conn[x] \/ conn'[x].kind = "none"
    <3>1. CASE conn' = [conn EXCEPT ![c] = r]
      BY <3>1, OthersKept
    <3>2. CASE conn' = [conn EXCEPT ![c] = a]
      BY <3>2, OthersKept
    <3>3. QED
      BY <2>2, <3>1, <3>2
  <2>5. UNCHANGED <<session, pendingId, copies, issued>>
    BY <1>1 DEF HandlePrepare
  <2>6. QED
    BY <2>1, <2>3, <2>4, <2>5
<1>2. ASSUME NEW c \in Conns, PrepareMalformed(c)
     PROVE  AnswersInv'
  BY SMTT(20), <1>2 DEF PrepareMalformed, Answer, Answered
<1>3. ASSUME NEW c \in Conns, PrepareRefused(c)
     PROVE  AnswersInv'
  <2> HIDE DEF TypeOK
  <2>1. \E reply \in Replies \ {"Ok"} : Answer(c, reply)
    BY <1>3 DEF PrepareRefused, Replies
  <2>2. PICK reply \in Replies \ {"Ok"} : Answer(c, reply)
    BY <2>1
  <2>3. conn[c] \in Connection /\ conn[c].kind = "prepare"
    BY <1>3 DEF TypeOK, PrepareRefused
  <2> DEFINE a == Answered(conn[c], reply)
  <2>4. a.kind = "prepare" /\ a.peer = conn[c].peer
    BY <2>3, AnsweredType
  <2>5. conn' = [conn EXCEPT ![c] = a]
    BY <2>2 DEF Answer
  <2> HIDE DEF a
  <2>6. /\ conn'[c] = a
        /\ \A x \in Conns \ {c} : conn'[x] = conn[x] \/ conn'[x].kind = "none"
    BY <2>5, OthersKept
  <2>7. UNCHANGED <<session, pendingId, copies, issued>>
    BY <1>3 DEF PrepareRefused
  <2>8. QED
    BY <2>3, <2>4, <2>6, <2>7
<1>4. ASSUME NEW c \in Conns, NEW id \in SessionIds, PrepareTurnedAway(c, id)
     PROVE  AnswersInv'
  BY SMTT(20), <1>4 DEF PrepareTurnedAway, PrepareAdmissible, Answer, Answered
<1>5. ASSUME NEW c \in Conns, NEW id \in SessionIds, NEW fs \in SUBSET Files,
             PrepareAsksUser(c, id, fs)
     PROVE  AnswersInv'
  BY SMTT(20), <1>5 DEF PrepareAsksUser, PrepareAdmissible, TakePendingSlot
<1>6. ASSUME NEW c \in Conns, NEW id \in SessionIds, NEW fs \in SUBSET Files,
             PrepareAccepted(c, id, fs)
     PROVE  AnswersInv'
  <2> HIDE DEF TypeOK
  <2> DEFINE r == [conn[c] EXCEPT !.sid = id, !.files = fs]
  <2>0. conn[c] \in Connection /\ conn[c].kind = "prepare" /\ conn[c].peer \in Devices
    BY <1>6 DEF TypeOK, PrepareAccepted, PrepareAdmissible
  <2>1. r \in Connection /\ r.kind = "prepare" /\ r.peer \in Devices
    BY <2>0 DEF Connection
  <2>2. Answered(r, "Ok").kind = "prepare" /\ Answered(r, "Ok").peer \in Devices
    <3> HIDE DEF r
    <3>1. QED
      BY <2>1, AnsweredType DEF Replies
  <2>3. conn' = [AfterAbort EXCEPT ![c] = Answered(r, "Ok")]
    BY <1>6 DEF PrepareAccepted, OpenSession
  <2> HIDE DEF r
  <2>4. /\ conn'[c].kind = "prepare" /\ conn'[c].peer \in Devices
        /\ \A x \in Conns \ {c} : conn'[x] = conn[x] \/ conn'[x].kind = "none"
    <3>1. /\ conn'[c] = Answered(r, "Ok")
          /\ \A x \in Conns \ {c} : conn'[x] = conn[x] \/ conn'[x].kind = "none"
      BY <2>3, OthersKept
    <3>2. QED
      BY <2>2, <3>1
  <2>5. /\ session' = id /\ id \notin issued /\ pendingId' = NoSession
        /\ issued' = issued \cup {id} /\ copies' = copies
    BY <1>6 DEF PrepareAccepted, PrepareAdmissible, OpenSession
  <2>6. QED
    BY <2>4, <2>5
<1>7. CASE UserAccepts
  BY SMTT(20), <1>7
     DEF UserAccepts, OpenSession, EntriesFor, ReleaseUpload, AfterAbort, Blank, Answered
<1>8. CASE UserRejects
  BY SMTT(20), <1>8 DEF UserRejects, DropPending, Answer, Answered
<1>9. CASE UserBlocks
  BY SMTT(20), <1>9 DEF UserBlocks, DropPending, Answer, Answered
<1>10. CASE ApprovalTimeout
  BY SMTT(20), <1>10 DEF ApprovalTimeout, DropPending, Answer, Answered
<1>11. ASSUME NEW c \in Conns, NEW d \in Devices, NEW sid \in issued, NEW f \in Files,
              NEW e \in BOOLEAN, UploadRefused(c, d, sid, f, e)
     PROVE  AnswersInv'
  BY SMTT(20), <1>11 DEF UploadRefused, Request, Answered, RequireSession
<1>12. ASSUME NEW c \in Conns, NEW d \in Devices, NEW sid \in issued, NEW f \in Files,
              UploadSinkFails(c, d, sid, f)
     PROVE  AnswersInv'
  BY SMTT(20), <1>12 DEF UploadSinkFails, Touch, Request, Answered, RequireSession
<1>13. ASSUME NEW c \in Conns, NEW d \in Devices, NEW sid \in issued, NEW f \in Files,
              UploadStarts(c, d, sid, f)
     PROVE  AnswersInv'
  <2> HIDE DEF TypeOK
  <2> DEFINE r == Request("put", d, sid, f, {})
  <2>1. /\ r \in Connection /\ r.kind = "put" /\ r.peer = d /\ r.sid = sid /\ r.file = f
        /\ r.reply = "none"
    BY RequestType DEF Kinds, TypeOK
  <2>2. /\ sid = session /\ session # NoSession /\ entry[f] = "expected"
        /\ session' = session /\ pendingId' = pendingId /\ issued' = issued
    BY <1>13 DEF UploadStarts, RequireSession, MayUpload, TypeOK
  <2>3. copies[sid][f] = 0
    BY <2>2
  <2>4. CASE copies' = copies /\ conn' = [conn EXCEPT ![c] = r]
    <3> HIDE DEF r
    <3>1. /\ conn'[c] = r
          /\ \A x \in Conns \ {c} : conn'[x] = conn[x] \/ conn'[x].kind = "none"
      BY <2>4, OthersKept
    <3>2. QED
      BY <2>1, <2>2, <2>4, <3>1
  <2>5. CASE /\ copies' = [copies EXCEPT ![sid][f] = @ + 1]
             /\ conn' = [conn EXCEPT ![c] = Answered(r, "Ok")]
    <3> HIDE DEF r
    <3>1. /\ Answered(r, "Ok").kind = "put" /\ Answered(r, "Ok").peer = d
          /\ Answered(r, "Ok").sid = sid /\ Answered(r, "Ok").file = f
      BY <2>1, AnsweredType DEF Replies
    <3>2. /\ conn'[c] = Answered(r, "Ok")
          /\ \A x \in Conns \ {c} : conn'[x] = conn[x] \/ conn'[x].kind = "none"
      BY <2>5, OthersKept
    <3>3. copies'[sid][f] = 1
      BY <2>2, <2>3, <2>5 DEF TypeOK
    <3>4. \A s \in SessionIds, g \in Files : s # sid \/ g # f => copies'[s][g] = copies[s][g]
      BY <2>5 DEF TypeOK
    <3>5. QED
      BY <2>2, <2>3, <3>1, <3>2, <3>3, <3>4 DEF TypeOK
  <2>6. CASE /\ copies' = copies
             /\ conn' = [conn EXCEPT ![c] = Answered(r, "InternalError")]
    <3> HIDE DEF r
    <3>1. /\ Answered(r, "InternalError").kind = "put" /\ Answered(r, "InternalError").peer = d
          /\ Answered(r, "InternalError").sid = sid /\ Answered(r, "InternalError").file = f
          /\ Answered(r, "InternalError").reply = "InternalError"
      BY <2>1, AnsweredType DEF Replies
    <3>2. /\ conn'[c] = Answered(r, "InternalError")
          /\ \A x \in Conns \ {c} : conn'[x] = conn[x] \/ conn'[x].kind = "none"
      BY <2>6, OthersKept
    <3>3. QED
      BY <2>2, <2>6, <3>1, <3>2
  <2>7. \/ CommitUpload(c, r)
        \/ conn' = [conn EXCEPT ![c] = r] /\ copies' = copies
    BY <1>13 DEF UploadStarts
  <2>8. QED
    <3> HIDE DEF r
    <3>1. QED
      BY <2>1, <2>2, <2>4, <2>5, <2>6, <2>7 DEF CommitUpload
<1>14. CASE UploadProgress
  BY SMTT(20), <1>14 DEF UploadProgress
<1>15. CASE UploadLastPiece
  <2> HIDE DEF TypeOK
  <2> DEFINE r == conn[upload]
  <2>1. /\ upload \in Conns /\ r \in Connection /\ r.kind = "put" /\ r.sid = session
        /\ r.peer \in Devices /\ r.file \in Files /\ session \in issued
        /\ session # NoSession /\ entry[r.file] = "inFlight"
    BY <1>15 DEF UploadLastPiece, TypeOK
  <2>2. /\ session' = session /\ pendingId' = pendingId /\ issued' = issued
        /\ session \in SessionIds /\ copies[session][r.file] = 0
    BY <1>15, <2>1 DEF UploadLastPiece, TypeOK
  <2>3. CommitUpload(upload, r)
    BY <1>15 DEF UploadLastPiece
  <2> HIDE DEF r
  <2>4. \A reply \in {"Ok", "InternalError"} :
          LET a == Answered(r, reply) IN
          /\ a.kind = "put" /\ a.sid = session /\ a.file = r.file /\ a.peer = r.peer
          /\ a.reply = reply
    BY <2>1, AnsweredType DEF Replies
  <2>5. CASE /\ copies' = [copies EXCEPT ![session][r.file] = @ + 1]
             /\ conn' = [conn EXCEPT ![upload] = Answered(r, "Ok")]
    <3>1. /\ conn'[upload] = Answered(r, "Ok")
          /\ \A x \in Conns \ {upload} : conn'[x] = conn[x] \/ conn'[x].kind = "none"
      BY <2>1, <2>5, OthersKept
    <3>2. copies'[session][r.file] = 1
      BY <2>1, <2>2, <2>5 DEF TypeOK
    <3>3. \A s \in SessionIds, g \in Files :
             s # session \/ g # r.file => copies'[s][g] = copies[s][g]
      BY <2>5 DEF TypeOK
    <3>4. QED
      BY <2>1, <2>2, <2>4, <3>1, <3>2, <3>3 DEF TypeOK
  <2>6. CASE /\ copies' = copies
             /\ conn' = [conn EXCEPT ![upload] = Answered(r, "InternalError")]
    <3>1. /\ conn'[upload] = Answered(r, "InternalError")
          /\ \A x \in Conns \ {upload} : conn'[x] = conn[x] \/ conn'[x].kind = "none"
      BY <2>1, <2>6, OthersKept
    <3>2. QED
      BY <2>1, <2>2, <2>4, <2>6, <3>1
  <2>7. QED
    BY <2>3, <2>5, <2>6 DEF CommitUpload
<1>16. CASE UploadWriteFails
  BY SMTT(20), <1>16 DEF UploadWriteFails, Answer, Answered
<1>17. ASSUME NEW c \in Conns, NEW d \in Devices, NEW sid \in issued,
              HandleComplete(c, d, sid)
     PROVE  AnswersInv'
  <2> HIDE DEF TypeOK
  <2> DEFINE r(fs) == Request("complete", d, sid, NoFile, fs)
  <2>1. /\ session' # sid \/ session' = session
        /\ pendingId' = pendingId /\ issued' = issued /\ copies' = copies
        /\ session' # NoSession => session' = session
    BY <1>17 DEF HandleComplete, RequireSession, EndSession
  <2>2. RequireSession(d, sid) \in Replies
    BY DEF RequireSession, Replies
  <2>3. CASE RequireSession(d, sid) = "Ok"
    <3>1. /\ sid = session /\ session \in issued /\ session # NoSession /\ session # pendingId
          /\ session' = NoSession
          /\ conn' = [AfterAbort EXCEPT ![c] = Answered(r(ReportedReceived), "Ok")]
      BY <1>17, <2>3 DEF HandleComplete, RequireSession, EndSession, TypeOK
    <3>2. ReportedReceived \in SUBSET Files
      BY DEF ReportedReceived
    <3>3. r(ReportedReceived) \in Connection /\ r(ReportedReceived).kind = "complete"
          /\ r(ReportedReceived).peer = d /\ r(ReportedReceived).sid = sid
          /\ r(ReportedReceived).files = ReportedReceived
      BY <3>2, RequestType DEF Kinds, TypeOK
    <3> HIDE DEF r
    <3> DEFINE a == Answered(r(ReportedReceived), "Ok")
    <3>4. /\ a.kind = "complete" /\ a.peer = d /\ a.sid = sid /\ a.files = ReportedReceived
      BY <3>3, AnsweredType DEF Replies
    <3>5. /\ conn'[c] = a
          /\ \A x \in Conns \ {c} : conn'[x] = conn[x] \/ conn'[x].kind = "none"
      BY <3>1, OthersKept
    <3>6. \A f \in Files : Size[f] > 0 => (f \in ReportedReceived <=> copies[session][f] = 1)
      BY <3>1 DEF ReportedReceived
    <3> HIDE DEF a
    <3>7. QED
      BY <2>1, <3>1, <3>4, <3>5, <3>6
  <2>4. CASE RequireSession(d, sid) # "Ok"
    <3>1. /\ conn' = [conn EXCEPT ![c] = Answered(r({}), RequireSession(d, sid))]
          /\ session' = session
      BY <1>17, <2>4 DEF HandleComplete, sessionVars
    <3>2. r({}) \in Connection /\ r({}).kind = "complete" /\ r({}).peer = d
      BY RequestType DEF Kinds, TypeOK
    <3> HIDE DEF r
    <3> DEFINE a == Answered(r({}), RequireSession(d, sid))
    <3>3. a.kind = "complete" /\ a.peer = d /\ a.reply # "Ok"
      BY <2>2, <2>4, <3>2, AnsweredType
    <3>4. /\ conn'[c] = a
          /\ \A x \in Conns \ {c} : conn'[x] = conn[x] \/ conn'[x].kind = "none"
      BY <3>1, OthersKept
    <3> HIDE DEF a
    <3>5. QED
      BY <2>1, <3>1, <3>3, <3>4
  <2>5. QED
    BY <2>3, <2>4
<1>18. ASSUME NEW c \in Conns, NEW d \in Devices, NEW sid \in issued, HandleAbort(c, d, sid)
     PROVE  AnswersInv'
  <2> HIDE DEF TypeOK
  <2> DEFINE r == Request("abort", d, sid, NoFile, {})
  <2>1. /\ pendingId' = pendingId /\ issued' = issued /\ copies' = copies
        /\ session' = session \/ session' = NoSession
    BY <1>18 DEF HandleAbort, EndSession
  <2>2. r \in Connection /\ r.kind = "abort" /\ r.peer = d
    BY RequestType DEF Kinds, TypeOK
  <2>3. \E reply \in Replies : \/ conn' = [AfterAbort EXCEPT ![c] = Answered(r, reply)]
                               \/ conn' = [conn EXCEPT ![c] = Answered(r, reply)]
    BY <1>18 DEF HandleAbort, Replies
  <2> HIDE DEF r
  <2>4. PICK reply \in Replies : \/ conn' = [AfterAbort EXCEPT ![c] = Answered(r, reply)]
                                \/ conn' = [conn EXCEPT ![c] = Answered(r, reply)]
    BY <2>3
  <2>5. Answered(r, reply).kind = "abort" /\ Answered(r, reply).peer = d
    BY <2>2, AnsweredType
  <2>6. /\ conn'[c] = Answered(r, reply)
        /\ \A x \in Conns \ {c} : conn'[x] = conn[x] \/ conn'[x].kind = "none"
    BY <2>4, OthersKept
  <2>7. NoSession \notin issued
    BY DEF TypeOK
  <2>8. QED
    BY <2>1, <2>5, <2>6, <2>7
<1>19. CASE CancelActive
  BY SMTT(20), <1>19 DEF CancelActive
<1>20. ASSUME NEW sid \in SessionIds, RunCancel(sid)
     PROVE  AnswersInv'
  BY SMTT(20), <1>20 DEF RunCancel, EndSession, ReleaseUpload, AfterAbort, Blank
<1>21. CASE SessionExpires
  BY SMTT(20), <1>21 DEF SessionExpires, EndSession, ReleaseUpload, AfterAbort, Blank
<1>22. ASSUME NEW c \in Conns, conn[c].phase \in {"body", "waiting", "answered"},
              Finished(c)
     PROVE  AnswersInv'
  BY SMTT(20), <1>22 DEF Finished, DropPending, UploadBroken, ReleaseUpload, Touch, Blank
<1>23. ASSUME NEW sid \in SessionIds, DirAges(sid)
     PROVE  AnswersInv'
  BY SMTT(20), <1>23 DEF DirAges
<1>24. CASE Sweep
  BY SMTT(20), <1>24 DEF Sweep
<1>25. CASE Restart
  BY SMTT(20), <1>25 DEF Restart, ReleaseUpload, Blank
<1>26. CASE UNCHANGED vars
  BY SMTT(20), <1>26 DEF vars
<1> HIDE SizeAssumption, NullAssumption
    DEF TypeOK, SlotInv, PendingExcludesSession, PendingIsLive, IdsDrawn, UploadInv,
        UploadBelongs, NothingWithoutSession, CopiesMatch, AnswersInv, RequestsNameIds,
        DeliveredOnce, ReportIsFinal, NoEntries, EntryStates, IsNew,
        pendingVars, sessionVars, diskVars, historyVars
<1>27. QED
  BY <1>1, <1>2, <1>3, <1>4, <1>5, <1>6, <1>7, <1>8, <1>9, <1>10, <1>11, <1>12, <1>13,
     <1>14, <1>15, <1>16, <1>17, <1>18, <1>19, <1>20, <1>21, <1>22, <1>23, <1>24, <1>25,
     <1>26
     DEF Next, LoopStep, Prepare, SessionRequest, User, PeerGone, IdleOrFlushed

-----------------------------------------------------------------------------
(* The inductive invariant, and what follows from it.                      *)

\* The inductive invariant holds at first,
LEMMA InductiveInit == Init => Inductive
<1> SUFFICES ASSUME Init PROVE Inductive
  OBVIOUS
<1>1. Blank("new") \in Connection /\ Blank("new").kind = "none"
  BY BlankType DEF Phases, Blank
<1>2. TypeOK
  BY <1>1 DEF Init, TypeOK, NoEntries, EntryStates
<1>3. SlotInv /\ UploadInv
  BY NullAssumption DEF Init, SlotInv, PendingExcludesSession, PendingIsLive, IdsDrawn,
     LiveDirsKept, TempDirsAccounted, UploadInv, UploadBelongs, TtlOnlyWhenIdle,
     NothingWithoutSession, NoEntries
<1>4. CopiesMatch
  BY DEF Init, CopiesMatch
<1>5. AnswersInv
  BY <1>1 DEF Init, AnswersInv, RequestsNameIds, DeliveredOnce, ReportIsFinal
<1>6. QED
  BY <1>2, <1>3, <1>4, <1>5 DEF Inductive, DeliveryInv

\* and every step keeps it.
LEMMA InductiveStep == Inductive /\ [Next]_vars => Inductive'
<1> SUFFICES ASSUME Inductive, [Next]_vars PROVE Inductive'
  OBVIOUS
<1>1. TypeOK /\ SlotInv /\ UploadInv /\ CopiesMatch /\ AnswersInv
  BY DEF Inductive, DeliveryInv
<1>2. TypeOK'
  BY <1>1, TypeStep DEF SlotInv, AnswersInv
<1>3. SlotInv' /\ UploadInv' /\ CopiesMatch' /\ AnswersInv'
  BY <1>1, SlotStep, UploadStep, CopiesStep, AnswersStep
<1>4. QED
  BY <1>2, <1>3 DEF Inductive, DeliveryInv

\* The inductive invariant holds in every reachable state.
THEOREM InductiveHolds == Spec => []Inductive
  BY InductiveInit, InductiveStep, PTL DEF Spec

\* The variables keep their types.
THEOREM TypeCorrect == Spec => []TypeOK
<1>1. Inductive => TypeOK
  BY DEF Inductive
<1>2. QED
  BY <1>1, InductiveHolds, PTL

\* A prepare that waits for the user and an active session exclude each other,
\* and whatever holds the pending slot can be got rid of.
THEOREM OneSlot == Spec => [](PendingExcludesSession /\ PendingIsLive)
<1>1. Inductive => PendingExcludesSession /\ PendingIsLive
  BY DEF Inductive, SlotInv
<1>2. QED
  BY <1>1, InductiveHolds, PTL

\* Directories in use stay, and every directory has an owner or was left behind.
THEOREM Directories == Spec => [](LiveDirsKept /\ TempDirsAccounted)
<1>1. Inductive => LiveDirsKept /\ TempDirsAccounted
  BY DEF Inductive, SlotInv
<1>2. QED
  BY <1>1, InductiveHolds, PTL

\* The PUT in flight belongs to the active session, and the TTL stands still
\* as long as there is one.
THEOREM Uploads == Spec => [](UploadBelongs /\ TtlOnlyWhenIdle)
<1>1. Inductive => UploadBelongs /\ TtlOnlyWhenIdle
  BY DEF Inductive, UploadInv
<1>2. QED
  BY <1>1, InductiveHolds, PTL

\* No file is delivered twice, no answer claims a delivery that did not happen,
\* and what a report says stays true.
THEOREM Deliveries == Spec => [](DeliveredOnce /\ ReportIsFinal)
<1>1. Inductive => DeliveredOnce /\ ReportIsFinal
  BY DEF Inductive, DeliveryInv, AnswersInv
<1>2. QED
  BY <1>1, InductiveHolds, PTL

-----------------------------------------------------------------------------
(* A step of ReceiveService is a step of TransferContract.  Four lemmas say  *)
(* which facts about a step make it which action of the contract, and one    *)
(* which of them hold of each action.                                        *)

\* The ids that are over never become open again.
OverGrows == issued \ {session, pendingId} \subseteq (issued \ {session, pendingId})'
SamePromises == \A f \in Files : entry'[f] = "absent" <=> entry[f] = "absent"

Idles == session' = session /\ SamePromises /\ copies' = copies /\ OverGrows
Opens(s) ==
    /\ session = NoSession /\ session' = s /\ s \notin issued \ {session, pendingId}
    /\ copies' = copies /\ OverGrows
Closes ==
    /\ session # NoSession /\ session' = NoSession /\ entry' = NoEntries
    /\ session \in issued' /\ session # pendingId' /\ copies' = copies /\ OverGrows
Delivers(f) ==
    /\ session # NoSession /\ UNCHANGED <<session, issued, pendingId>>
    /\ SamePromises
    /\ entry[f] # "absent" /\ copies[session][f] = 0
    /\ copies' = [copies EXCEPT ![session][f] = @ + 1]

\* The contract idles,
LEMMA IdleStep ==
  ASSUME TypeOK', Idles
  PROVE  Contract!Idle
  BY DEF TypeOK, Idles, SamePromises, OverGrows, Contract!Idle, Contract!UseUp

\* opens a session,
LEMMA OpenStep ==
  ASSUME TypeOK', NEW s \in SessionIds, Opens(s)
  PROVE  Contract!Open(s)
  BY NullAssumption DEF TypeOK, Opens, OverGrows, Contract!Open, Contract!UseUp

\* closes it,
LEMMA CloseStep ==
  ASSUME TypeOK', Closes
  PROVE  Contract!Close
  BY NullAssumption
     DEF TypeOK, Closes, NoEntries, OverGrows, Contract!Close, Contract!UseUp

\* or delivers a file.
LEMMA DeliverStep ==
  ASSUME TypeOK, TypeOK', NEW f \in Files, Delivers(f)
  PROVE  Contract!Deliver(f)
<1>1. session \in SessionIds
  BY DEF TypeOK, Delivers
<1>2. \A s \in SessionIds :
        {g \in Files : copies'[s][g] > 0} =
          IF s = session THEN {g \in Files : copies[s][g] > 0} \cup {f}
                         ELSE {g \in Files : copies[s][g] > 0}
  BY <1>1 DEF TypeOK, Delivers
<1>3. {g \in Files : entry'[g] # "absent"} = {g \in Files : entry[g] # "absent"}
  BY DEF SamePromises, Delivers
<1> DEFINE got == [s \in SessionIds |-> {g \in Files : copies[s][g] > 0}]
<1>4. got' = [got EXCEPT ![session] = @ \cup {f}]
  BY <1>1, <1>2
<1>5. f \notin got[session]
  BY <1>1 DEF Delivers
<1> HIDE DEF got
<1>6. f \in {g \in Files : entry[g] # "absent"} \ got[session]
  BY <1>5 DEF Delivers
<1>7. QED
  BY <1>3, <1>4, <1>6 DEF Contract!Deliver, Delivers, got

\* Every step is one of the four.
LEMMA StepKinds ==
  Inductive /\ [Next]_vars =>
    \/ Idles \/ Closes
    \/ \E s \in SessionIds : Opens(s)
    \/ \E f \in Files : Delivers(f)
<1> SUFFICES ASSUME Inductive, [Next]_vars
             PROVE  \/ Idles \/ Closes
                    \/ \E s \in SessionIds : Opens(s)
                    \/ \E f \in Files : Delivers(f)
  OBVIOUS
<1> USE NullAssumption
    DEF Inductive, TypeOK, SlotInv, PendingExcludesSession, PendingIsLive, IdsDrawn,
        UploadInv, NothingWithoutSession, UploadBelongs, DeliveryInv, CopiesMatch,
        OverGrows, SamePromises, IsNew, pendingVars, sessionVars, diskVars, historyVars
<1>1. ASSUME NEW c \in Conns, NEW d \in Devices, HandlePrepare(c, d)
     PROVE  Idles
  BY <1>1 DEF HandlePrepare, Idles
<1>2. ASSUME NEW c \in Conns, PrepareMalformed(c)
     PROVE  Idles
  BY <1>2 DEF PrepareMalformed, Idles
<1>3. ASSUME NEW c \in Conns, PrepareRefused(c)
     PROVE  Idles
  BY <1>3 DEF PrepareRefused, Idles
<1>4. ASSUME NEW c \in Conns, NEW id \in SessionIds, PrepareTurnedAway(c, id)
     PROVE  Idles
  BY <1>4 DEF PrepareTurnedAway, PrepareAdmissible, Idles
<1>5. ASSUME NEW c \in Conns, NEW id \in SessionIds, NEW fs \in SUBSET Files,
             PrepareAsksUser(c, id, fs)
     PROVE  Idles
  BY <1>5 DEF PrepareAsksUser, PrepareAdmissible, TakePendingSlot, Idles
<1>6. ASSUME NEW c \in Conns, NEW id \in SessionIds, NEW fs \in SUBSET Files,
             PrepareAccepted(c, id, fs)
     PROVE  Opens(id)
  BY <1>6
     DEF PrepareAccepted, PrepareAdmissible, OpenSession, EntriesFor, ReleaseUpload, Opens
<1>7. ASSUME UserAccepts PROVE \E s \in SessionIds : Opens(s)
  BY <1>7 DEF UserAccepts, OpenSession, EntriesFor, ReleaseUpload, Opens
<1>8. ASSUME UserRejects PROVE Idles
  BY <1>8 DEF UserRejects, DropPending, Idles
<1>9. ASSUME UserBlocks PROVE Idles
  BY <1>9 DEF UserBlocks, DropPending, Idles
<1>10. ASSUME ApprovalTimeout PROVE Idles
  BY <1>10 DEF ApprovalTimeout, DropPending, Idles
<1>11. ASSUME NEW c \in Conns, NEW d \in Devices, NEW sid \in issued, NEW f \in Files,
              NEW e \in BOOLEAN, UploadRefused(c, d, sid, f, e)
     PROVE  Idles
  BY <1>11 DEF UploadRefused, Idles
<1>12. ASSUME NEW c \in Conns, NEW d \in Devices, NEW sid \in issued, NEW f \in Files,
              UploadSinkFails(c, d, sid, f)
     PROVE  Idles
  BY <1>12 DEF UploadSinkFails, Touch, Idles
<1>13. ASSUME NEW c \in Conns, NEW d \in Devices, NEW sid \in issued, NEW f \in Files,
              UploadStarts(c, d, sid, f)
     PROVE  Idles \/ Delivers(f)
  BY <1>13
     DEF UploadStarts, MayUpload, RequireSession, CommitUpload, ReleaseUpload, Request,
         Idles, Delivers
<1>14. ASSUME UploadProgress PROVE Idles
  BY <1>14 DEF UploadProgress, Idles
<1>15. ASSUME UploadLastPiece PROVE Idles \/ \E f \in Files : Delivers(f)
  <2> DEFINE f == conn[upload].file
  <2>1. session \in SessionIds /\ f \in Files
    BY <1>15 DEF UploadLastPiece, AnswersInv, RequestsNameIds
  <2>2. entry[f] = "inFlight" /\ copies[session][f] = 0
    BY <1>15, <2>1 DEF UploadLastPiece
  <2>3. UNCHANGED <<session, issued, pendingId>>
    BY <1>15 DEF UploadLastPiece
  <2>4. CASE /\ entry' = [entry EXCEPT ![f] = "committed"]
             /\ copies' = [copies EXCEPT ![session][f] = @ + 1]
    <3>1. SamePromises
      BY <2>1, <2>2, <2>4
    <3>2. Delivers(f)
      BY <2>1, <2>2, <2>3, <2>4, <3>1 DEF Delivers
    <3>3. QED
      BY <2>1, <3>2
  <2>5. CASE entry' = [entry EXCEPT ![f] = "expected"] /\ copies' = copies
    <3>1. SamePromises
      BY <2>1, <2>2, <2>5
    <3>2. QED
      BY <2>3, <2>5, <3>1 DEF Idles
  <2>6. QED
    BY <1>15, <2>4, <2>5 DEF UploadLastPiece, CommitUpload
<1>16. ASSUME UploadWriteFails PROVE Idles
  BY <1>16 DEF UploadWriteFails, Idles
<1>17. ASSUME NEW c \in Conns, NEW d \in Devices, NEW sid \in issued,
              HandleComplete(c, d, sid)
     PROVE  Idles \/ Closes
  BY <1>17 DEF HandleComplete, RequireSession, EndSession, ReleaseUpload, Idles, Closes
<1>18. ASSUME NEW c \in Conns, NEW d \in Devices, NEW sid \in issued, HandleAbort(c, d, sid)
     PROVE  Idles \/ Closes
  BY <1>18 DEF HandleAbort, EndSession, ReleaseUpload, Idles, Closes
<1>19. ASSUME CancelActive PROVE Idles
  BY <1>19 DEF CancelActive, Idles
<1>20. ASSUME NEW sid \in SessionIds, RunCancel(sid)
     PROVE  Idles \/ Closes
  BY <1>20 DEF RunCancel, EndSession, ReleaseUpload, Idles, Closes
<1>21. ASSUME SessionExpires PROVE Closes
  BY <1>21 DEF SessionExpires, EndSession, ReleaseUpload, Closes
<1>22. ASSUME NEW c \in Conns, conn[c].phase \in {"body", "waiting", "answered"},
              Finished(c)
     PROVE  Idles
  BY <1>22 DEF Finished, DropPending, UploadBroken, ReleaseUpload, Idles
<1>23. ASSUME NEW sid \in SessionIds, DirAges(sid)
     PROVE  Idles
  BY <1>23 DEF DirAges, Idles
<1>24. ASSUME Sweep PROVE Idles
  BY <1>24 DEF Sweep, Idles
<1>25. ASSUME Restart PROVE Idles \/ Closes
  BY <1>25 DEF Restart, ReleaseUpload, Idles, Closes
<1>26. ASSUME UNCHANGED vars PROVE Idles
  BY <1>26 DEF vars, Idles
<1> HIDE NullAssumption
    DEF Inductive, TypeOK, SlotInv, PendingExcludesSession, PendingIsLive, IdsDrawn,
        UploadInv, NothingWithoutSession, UploadBelongs, DeliveryInv, CopiesMatch,
        OverGrows, SamePromises, IsNew, pendingVars, sessionVars, diskVars, historyVars
<1>27. QED
  BY <1>1, <1>2, <1>3, <1>4, <1>5, <1>6, <1>7, <1>8, <1>9, <1>10, <1>11, <1>12, <1>13,
     <1>14, <1>15, <1>16, <1>17, <1>18, <1>19, <1>20, <1>21, <1>22, <1>23, <1>24, <1>25,
     <1>26
     DEF Next, LoopStep, Prepare, SessionRequest, User, PeerGone, IdleOrFlushed

\* ReceiveService implements TransferContract: one session at a time, ids never
\* used again, and each file it promised delivered at most once, while it is open.
THEOREM Implementation == Spec => ImplementsContract
<1>1. Init => Contract!ContractInit
  BY DEF Init, NoEntries, Contract!ContractInit
<1>2. Inductive /\ Inductive' /\ [Next]_vars => [Contract!ContractNext]_(Contract!contractVars)
  <2> SUFFICES ASSUME Inductive, Inductive', [Next]_vars PROVE Contract!ContractNext
    OBVIOUS
  <2>1. TypeOK /\ TypeOK'
    BY DEF Inductive
  <2>2. CASE Idles
    BY <2>1, <2>2, IdleStep DEF Contract!ContractNext
  <2>3. ASSUME NEW s \in SessionIds, Opens(s) PROVE Contract!ContractNext
    BY <2>1, <2>3, OpenStep DEF Contract!ContractNext
  <2>4. CASE Closes
    BY <2>1, <2>4, CloseStep DEF Contract!ContractNext
  <2>5. ASSUME NEW f \in Files, Delivers(f) PROVE Contract!ContractNext
    BY <2>1, <2>5, DeliverStep DEF Contract!ContractNext
  <2>6. QED
    BY <2>2, <2>3, <2>4, <2>5, StepKinds
<1>3. QED
  BY <1>1, <1>2, InductiveHolds, PTL DEF Spec, ImplementsContract, Contract!ContractSpec

-----------------------------------------------------------------------------
(* What arrives, and what leaves a session untended.                       *)

\* The session has a timer, or is over; nothing arrives.
EndsOrTimed == copies' = copies /\ (session' = NoSession \/ ttl')

\* Only the end of a PUT does anything else to what tends the session.
LEMMA StepTends ==
  ASSUME Inductive, [Next]_vars
  PROVE  \/ UNCHANGED <<session, ttl, upload, copies>>
         \/ EndsOrTimed
         \/ \E c \in Conns, d \in Devices, sid \in issued, f \in Files : UploadStarts(c, d, sid, f)
         \/ UploadLastPiece
<1> USE DEF EndsOrTimed, pendingVars, sessionVars, diskVars, historyVars
<1>1. ASSUME NEW c \in Conns, Prepare(c)
      PROVE  UNCHANGED <<session, ttl, upload, copies>> \/ EndsOrTimed
  <2>1. ASSUME NEW d \in Devices, HandlePrepare(c, d)
        PROVE  UNCHANGED <<session, ttl, upload, copies>>
    BY <2>1 DEF HandlePrepare
  <2>2. CASE PrepareMalformed(c) \/ PrepareRefused(c)
    BY <2>2 DEF PrepareMalformed, PrepareRefused
  <2>3. ASSUME NEW id \in SessionIds, PrepareTurnedAway(c, id)
        PROVE  UNCHANGED <<session, ttl, upload, copies>>
    BY <2>3 DEF PrepareTurnedAway
  <2>4. ASSUME NEW id \in SessionIds, NEW fs \in SUBSET Files, PrepareAsksUser(c, id, fs)
        PROVE  UNCHANGED <<session, ttl, upload, copies>>
    BY <2>4 DEF PrepareAsksUser
  <2>5. ASSUME NEW id \in SessionIds, NEW fs \in SUBSET Files, PrepareAccepted(c, id, fs)
        PROVE  EndsOrTimed
    BY <2>5 DEF PrepareAccepted, OpenSession
  <2> HIDE DEF EndsOrTimed, pendingVars, sessionVars, diskVars, historyVars
  <2>6. QED
    BY <1>1, <2>1, <2>2, <2>3, <2>4, <2>5 DEF Prepare
<1>2. ASSUME NEW c \in Conns, NEW d \in Devices, NEW sid \in issued,
             HandleComplete(c, d, sid) \/ HandleAbort(c, d, sid)
      PROVE  UNCHANGED <<session, ttl, upload, copies>> \/ EndsOrTimed
  BY <1>2 DEF HandleComplete, HandleAbort, EndSession
<1>3. ASSUME NEW c \in Conns, NEW d \in Devices, NEW sid \in issued, NEW f \in Files,
             \/ \E e \in BOOLEAN : UploadRefused(c, d, sid, f, e)
             \/ UploadSinkFails(c, d, sid, f)
      PROVE  UNCHANGED <<session, ttl, upload, copies>>
  BY <1>3 DEF UploadRefused, UploadSinkFails
<1>4. ASSUME NEW c \in Conns, Finished(c)
      PROVE  UNCHANGED <<session, ttl, upload, copies>> \/ EndsOrTimed
  <2>1. c = upload /\ c # pending => conn[c].sid = session
    BY NullAssumption DEF Inductive, UploadInv, UploadBelongs, TypeOK
  <2>2. QED
    BY <1>4, <2>1 DEF Finished, UploadBroken
<1>5. CASE UploadProgress \/ UploadWriteFails
  BY <1>5 DEF UploadProgress, UploadWriteFails
<1>6. CASE User \/ CancelActive
  BY <1>6 DEF User, UserAccepts, UserRejects, UserBlocks, CancelActive, OpenSession
<1>7. CASE ApprovalTimeout \/ SessionExpires
  BY <1>7 DEF ApprovalTimeout, SessionExpires, EndSession
<1>8. ASSUME NEW sid \in SessionIds, RunCancel(sid) \/ DirAges(sid)
      PROVE  UNCHANGED <<session, ttl, upload, copies>> \/ EndsOrTimed
  BY <1>8 DEF RunCancel, DirAges, EndSession
<1>9. CASE Sweep \/ Restart
  BY <1>9 DEF Sweep, Restart
<1>10. CASE UNCHANGED vars
  BY <1>10 DEF vars
<1>11. QED
  BY <1>1, <1>2, <1>3, <1>4, <1>5, <1>6, <1>7, <1>8, <1>9, <1>10
     DEF Next, LoopStep, SessionRequest, PeerGone, IdleOrFlushed

\* A commit answers its PUT, and succeeds or fails.
LEMMA CommitEnds ==
  ASSUME TypeOK, NEW c \in Conns, NEW r \in Connection, r.kind = "put",
         r.file \in Files, session \in SessionIds, CommitUpload(c, r)
  PROVE  /\ conn'[c].phase = "answered" /\ conn'[c].kind = "put" /\ conn'[c].peer = r.peer
         /\ conn'[c].sid = r.sid /\ conn'[c].file = r.file
         /\ \A s \in SessionIds, f \in Files :
              copies'[s][f] # copies[s][f] => s = session /\ f = r.file /\ conn'[c].reply = "Ok"
         /\ ttl' \/ (DirFaults /\ conn'[c].reply = "InternalError")
<1>1. ASSUME NEW reply \in {"Ok", "InternalError"},
             conn' = [conn EXCEPT ![c] = Answered(r, reply)]
      PROVE  /\ conn'[c].phase = "answered" /\ conn'[c].kind = "put" /\ conn'[c].peer = r.peer
             /\ conn'[c].sid = r.sid /\ conn'[c].file = r.file /\ conn'[c].reply = reply
  <2>1. conn'[c] = Answered(r, reply)
    BY <1>1 DEF TypeOK
  <2>2. QED
    BY <2>1, AnsweredType DEF Replies
<1>2. CASE /\ copies' = [copies EXCEPT ![session][r.file] = @ + 1]
           /\ ttl' = TRUE
           /\ conn' = [conn EXCEPT ![c] = Answered(r, "Ok")]
  <2>1. \A s \in SessionIds, f \in Files :
           copies'[s][f] # copies[s][f] => s = session /\ f = r.file
    BY <1>2 DEF TypeOK
  <2>2. QED
    BY <1>1, <1>2, <2>1
<1>3. CASE /\ DirFaults /\ copies' = copies
           /\ conn' = [conn EXCEPT ![c] = Answered(r, "InternalError")]
  BY <1>1, <1>3
<1>4. QED
  BY <1>2, <1>3 DEF CommitUpload

\* What the end of a PUT does, and the end of one is all that matters.
LEMMA DeliverTends ==
  ASSUME Inductive, [Next]_vars
  PROVE  DeliveredByItsSender /\ (Tended /\ ~Tended' => CommitFails)
<1>0. TypeOK /\ UploadBelongs /\ RequestsNameIds
  BY DEF Inductive, UploadInv, DeliveryInv, AnswersInv
<1>1. CASE UNCHANGED <<session, ttl, upload, copies>>
  BY <1>1 DEF DeliveredByItsSender, Tended
<1>2. CASE EndsOrTimed
  BY <1>2 DEF EndsOrTimed, DeliveredByItsSender, Tended
<1>3. ASSUME NEW c \in Conns, NEW r \in Connection, r.kind = "put", r.file \in Files,
             r.peer = sender, r.sid = session, session \in SessionIds,
             conn[c].phase # "answered", CommitUpload(c, r), session' = session
      PROVE  DeliveredByItsSender /\ (Tended /\ ~Tended' => CommitFails)
  <2>1. /\ conn'[c].phase = "answered" /\ conn'[c].kind = "put" /\ conn'[c].peer = sender
        /\ conn'[c].sid = session /\ conn'[c].file = r.file
        /\ \A s \in SessionIds, f \in Files :
              copies'[s][f] # copies[s][f] => s = session /\ f = r.file /\ conn'[c].reply = "Ok"
        /\ ttl' \/ (DirFaults /\ conn'[c].reply = "InternalError")
    BY <1>0, <1>3, CommitEnds
  <2>2. DeliveredByItsSender
    BY <1>3, <2>1 DEF DeliveredByItsSender, IsAnswered
  <2>3. Tended /\ ~Tended' => CommitFails
    BY <1>3, <2>1 DEF Tended, CommitFails, IsAnswered
  <2>4. QED
    BY <2>2, <2>3
<1>4. ASSUME NEW c \in Conns, NEW d \in Devices, NEW sid \in issued, NEW f \in Files,
             UploadStarts(c, d, sid, f)
      PROVE  DeliveredByItsSender /\ (Tended /\ ~Tended' => CommitFails)
  <2> DEFINE r == Request("put", d, sid, f, {})
  <2>1. sid = session /\ d = sender /\ sid \in SessionIds
    BY <1>0, <1>4 DEF UploadStarts, RequireSession, TypeOK
  <2>2. r \in Connection /\ r.kind = "put" /\ r.file = f /\ r.peer = d /\ r.sid = sid
    BY <2>1, RequestType DEF Kinds
  <2>3. session' = session /\ conn[c].phase # "answered"
    BY <1>4 DEF UploadStarts, IsNew
  <2>4. CASE Size[f] = 0
    <3>1. CommitUpload(c, r)
      BY <1>4, <2>4 DEF UploadStarts
    <3> HIDE DEF r
    <3>2. QED
      BY <1>3, <2>1, <2>2, <2>3, <3>1
  <2>5. CASE Size[f] # 0
    <3>1. upload' = c /\ copies' = copies
      BY <1>4, <2>5 DEF UploadStarts
    <3>2. QED
      BY <3>1, NullAssumption DEF DeliveredByItsSender, Tended
  <2>6. QED
    BY <2>4, <2>5
<1>5. CASE UploadLastPiece
  <2> DEFINE r == conn[upload]
  <2>1. upload \in Conns /\ r \in Connection /\ r.phase = "body"
    BY <1>0, <1>5 DEF UploadLastPiece, TypeOK
  <2>2. /\ session \in SessionIds /\ r.kind = "put" /\ r.sid = session /\ r.peer = sender
        /\ r.file \in Files
    BY <1>0, <1>5, <2>1 DEF UploadLastPiece, UploadBelongs, RequestsNameIds, TypeOK
  <2>3. CommitUpload(upload, r) /\ session' = session
    BY <1>5 DEF UploadLastPiece
  <2>4. r.phase # "answered"
    BY <2>1
  <2>5. QED
    BY <1>3, <2>1, <2>2, <2>3, <2>4
<1>6. QED
  BY <1>1, <1>2, <1>4, <1>5, StepTends

\* Every file that arrives is the one its session's device is just sending.
THEOREM DeliveriesAreBound == Spec => DeliveriesAreTheSenders
  BY DeliverTends, InductiveHolds, PTL DEF Spec, DeliveriesAreTheSenders

\* A session stops being tended only by a commit that fails (the slot that leaks
\* in that case is what the run slot_leak shows).
THEOREM OnlyCommitsUntend == Spec => UntendedByCommit
  BY DeliverTends, InductiveHolds, PTL DEF Spec, UntendedByCommit

\* With a receive directory that never fails, every session is tended in every
\* reachable state: what SlotComesFree rests on, for any number of requests.
THEOREM AlwaysTended == ASSUME ~DirFaults PROVE Spec => []Tended
<1>1. Init => Tended
  BY DEF Init, Tended
<1>2. Inductive /\ Tended /\ [Next]_vars => Tended'
  BY DeliverTends DEF CommitFails
<1>3. QED
  BY <1>1, <1>2, InductiveHolds, PTL DEF Spec

-----------------------------------------------------------------------------
(* What ends a session.  Most actions leave the session alone.             *)

\* An answer to a request of kind k about session sid says so.
LEMMA AnswerNames ==
  ASSUME TypeOK, NEW c \in Conns, NEW k \in Kinds, NEW d \in Devices,
         NEW sid \in SessionIds, NEW fs \in SUBSET Files, NEW reply \in Replies,
         conn' = [AfterAbort EXCEPT ![c] = Answered(Request(k, d, sid, NoFile, fs), reply)]
  PROVE  conn'[c].kind = k /\ conn'[c].sid = sid /\ conn'[c].peer = d
<1> DEFINE r == Request(k, d, sid, NoFile, fs)
<1>1. r \in Connection /\ r.kind = k /\ r.sid = sid /\ r.peer = d
  BY RequestType
<1> HIDE DEF r
<1>2. Answered(r, reply).kind = k /\ Answered(r, reply).sid = sid /\ Answered(r, reply).peer = d
  BY <1>1, AnsweredType
<1>3. conn'[c] = Answered(r, reply)
  BY OthersKept DEF r
<1>4. QED
  BY <1>2, <1>3

\* The session of a state survives a step, or ends for a cause.
LEMMA EndStep == Inductive /\ [Next]_vars => EndsForACause
<1> SUFFICES ASSUME Inductive, [Next]_vars, session # NoSession, session' # session
             PROVE  EndsForACause
  BY DEF EndsForACause
<1>0. TypeOK /\ PendingExcludesSession /\ UploadBelongs
  BY DEF Inductive, SlotInv, UploadInv
<1>1. ASSUME NEW c \in Conns, NEW d \in Devices, NEW sid \in issued,
             HandleComplete(c, d, sid)
      PROVE  EndsForACause
  <2>1. RequireSession(d, sid) = "Ok" /\ IsNew(c)
    BY <1>1 DEF HandleComplete, sessionVars
  <2>2. sid = session /\ d = sender /\ sid \in SessionIds
    BY <1>0, <2>1 DEF RequireSession, TypeOK
  <2>3. conn' = [AfterAbort EXCEPT ![c] =
                   Answered(Request("complete", d, sid, NoFile, ReportedReceived), "Ok")]
    BY <1>1, <2>1 DEF HandleComplete
  <2>4. ReportedReceived \in SUBSET Files
    BY DEF ReportedReceived
  <2>5. conn'[c].kind = "complete" /\ conn'[c].sid = sid /\ conn'[c].peer = d
    BY <1>0, <2>2, <2>3, <2>4, AnswerNames DEF Kinds, Replies
  <2>6. QED
    BY <2>1, <2>2, <2>5 DEF EndsForACause
<1>2. ASSUME NEW c \in Conns, NEW d \in Devices, NEW sid \in issued, HandleAbort(c, d, sid)
      PROVE  EndsForACause
  <2>1. sid = session /\ d = sender /\ IsNew(c)
    BY <1>2 DEF HandleAbort, sessionVars
  <2>2. conn' = [AfterAbort EXCEPT ![c] = Answered(Request("abort", d, sid, NoFile, {}), "Ok")]
    BY <1>2, <2>1 DEF HandleAbort
  <2>3. sid \in SessionIds
    BY <1>0 DEF TypeOK
  <2>4. conn'[c].kind = "abort" /\ conn'[c].sid = sid /\ conn'[c].peer = d
    BY <1>0, <2>2, <2>3, AnswerNames DEF Kinds, Replies
  <2>5. QED
    BY <2>1, <2>4 DEF EndsForACause
<1>3. ASSUME NEW sid \in SessionIds, RunCancel(sid) PROVE EndsForACause
  BY <1>3 DEF RunCancel, sessionVars, EndsForACause
<1>4. CASE SessionExpires
  <2>1. ASSUME NEW c \in Conns, IsNew(c) PROVE c # upload /\ conn'[c] = conn[c]
    <3>1. c # upload
      BY <1>0, <2>1, NullAssumption DEF IsNew, UploadBelongs, TypeOK
    <3>2. QED
      BY <1>4, <3>1 DEF SessionExpires, AfterAbort
  <2>2. NobodyAsks
    BY <1>4, <2>1 DEF NobodyAsks, IsNew, SessionExpires
  <2>3. QED
    BY <1>4, <2>2 DEF SessionExpires, EndsForACause
<1>5. CASE Restart
  <2>1. session \in lost'
    BY <1>5 DEF Restart
  <2>2. session \notin lost
    BY DEF Inductive, SlotInv, IdsDrawn
  <2>3. QED
    BY <2>1, <2>2 DEF EndsForACause
<1>6. ASSUME NEW c \in Conns, NEW id \in SessionIds, NEW fs \in SUBSET Files,
             PrepareAccepted(c, id, fs)
      PROVE  EndsForACause
  BY <1>6 DEF PrepareAccepted, PrepareAdmissible
<1>7. CASE UserAccepts
  BY <1>0, <1>7 DEF UserAccepts, PendingExcludesSession

<1>8. ASSUME NEW c \in Conns, NEW d \in Devices, HandlePrepare(c, d)
     PROVE  FALSE
  BY <1>8 DEF HandlePrepare, Request, Answered, sessionVars
<1>9. ASSUME NEW c \in Conns, PrepareMalformed(c)
     PROVE  FALSE
  BY <1>9 DEF PrepareMalformed, Answer, Answered, sessionVars
<1>10. ASSUME NEW c \in Conns, PrepareRefused(c)
     PROVE  FALSE
  BY <1>10 DEF PrepareRefused, Answer, Answered, sessionVars
<1>11. ASSUME NEW c \in Conns, NEW id \in SessionIds, PrepareTurnedAway(c, id)
     PROVE  FALSE
  BY <1>11 DEF PrepareTurnedAway, PrepareAdmissible, Answer, Answered, sessionVars
<1>12. ASSUME NEW c \in Conns, NEW id \in SessionIds, NEW fs \in SUBSET Files,
              PrepareAsksUser(c, id, fs)
     PROVE  FALSE
  BY <1>12 DEF PrepareAsksUser, PrepareAdmissible, TakePendingSlot, sessionVars
<1>13. ASSUME UserRejects PROVE FALSE
  BY <1>13 DEF UserRejects, DropPending, Answer, Answered, sessionVars
<1>14. ASSUME UserBlocks PROVE FALSE
  BY <1>14 DEF UserBlocks, DropPending, Answer, Answered, sessionVars
<1>15. ASSUME ApprovalTimeout PROVE FALSE
  BY <1>15 DEF ApprovalTimeout, DropPending, Answer, Answered, sessionVars
<1>16. ASSUME NEW c \in Conns, NEW d \in Devices, NEW sid \in issued, NEW f \in Files,
              NEW e \in BOOLEAN, UploadRefused(c, d, sid, f, e)
     PROVE  FALSE
  BY <1>16 DEF UploadRefused, Request, Answered, RequireSession, sessionVars
<1>17. ASSUME NEW c \in Conns, NEW d \in Devices, NEW sid \in issued, NEW f \in Files,
              UploadSinkFails(c, d, sid, f)
     PROVE  FALSE
  BY <1>17 DEF UploadSinkFails, Touch, Request, Answered, RequireSession, sessionVars
<1>18. ASSUME NEW c \in Conns, NEW d \in Devices, NEW sid \in issued, NEW f \in Files,
              UploadStarts(c, d, sid, f)
     PROVE  FALSE
  BY <1>18
     DEF UploadStarts, MayUpload, RequireSession, CommitUpload, ReleaseUpload, Touch,
         Request, Answered, sessionVars
<1>19. ASSUME UploadProgress PROVE FALSE
  BY <1>19 DEF UploadProgress, sessionVars
<1>20. ASSUME UploadLastPiece PROVE FALSE
  BY <1>20 DEF UploadLastPiece, CommitUpload, ReleaseUpload, Touch, Answered, sessionVars
<1>21. ASSUME UploadWriteFails PROVE FALSE
  BY <1>21 DEF UploadWriteFails, Answer, Answered, sessionVars
<1>22. ASSUME CancelActive PROVE FALSE
  BY <1>22 DEF CancelActive, sessionVars
<1>23. ASSUME NEW c \in Conns, conn[c].phase \in {"body", "waiting", "answered"},
              Finished(c)
     PROVE  FALSE
  BY <1>23
     DEF Finished, DropPending, UploadBroken, ReleaseUpload, Touch, Blank, sessionVars
<1>24. ASSUME NEW sid \in SessionIds, DirAges(sid)
     PROVE  FALSE
  BY <1>24 DEF DirAges, sessionVars
<1>25. ASSUME Sweep PROVE FALSE
  BY <1>25 DEF Sweep, sessionVars
<1>26. ASSUME UNCHANGED vars PROVE FALSE
  BY <1>26 DEF vars, sessionVars
<1>27. QED
  BY <1>1, <1>2, <1>3, <1>4, <1>5, <1>6, <1>7, <1>8, <1>9, <1>10, <1>11, <1>12, <1>13,
     <1>14, <1>15, <1>16, <1>17, <1>18, <1>19, <1>20, <1>21, <1>22, <1>23, <1>24, <1>25,
     <1>26
     DEF Next, LoopStep, Prepare, SessionRequest, User, PeerGone, IdleOrFlushed

\* A session ends for a cause of its own only.
THEOREM Causes == Spec => SessionEndsForACause
  BY EndStep, InductiveHolds, PTL DEF Spec, SessionEndsForACause

-----------------------------------------------------------------------------
(* What ReceiveService asks of a connection.                               *)

\* The ways a request may go from one phase to the next.
Onwards(p, q) ==
    \/ p = "new" \/ p = q \/ q = "closed"
    \/ p = "body" /\ q \in {"waiting", "answered"}
    \/ p = "waiting" /\ q = "answered"

\* Every request goes onwards, or stays where it is.
AllGoOnwards == \A k \in Conns : Onwards(conn[k].phase, conn'[k].phase)

\* A step that changes one request, and aborts the upload in flight or not, is
\* about that request only: an abort closes.
LEMMA OneChanges ==
  ASSUME TypeOK, NEW c \in Conns, NEW t, Onwards(conn[c].phase, t.phase),
         conn' = [conn EXCEPT ![c] = t] \/ conn' = [AfterAbort EXCEPT ![c] = t]
  PROVE  AllGoOnwards
<1> SUFFICES ASSUME NEW k \in Conns PROVE Onwards(conn[k].phase, conn'[k].phase)
  BY DEF AllGoOnwards
<1>1. CASE k = c
  BY <1>1 DEF TypeOK, AfterAbort
<1>2. CASE k # c
  <2>1. conn'[k] = conn[k] \/ conn'[k] = Blank("closed")
    BY <1>2 DEF TypeOK, AfterAbort
  <2>2. QED
    BY <2>1 DEF Onwards, Blank
<1>3. QED
  BY <1>1, <1>2

\* An abort alone goes onwards,
LEMMA AbortGoesOnwards == ASSUME conn' = AfterAbort PROVE AllGoOnwards
  BY DEF AllGoOnwards, AfterAbort, Onwards, Blank

\* and so does a request that is answered while its handler is at work on it.
LEMMA AnswerGoesOnwards ==
  ASSUME TypeOK, NEW c \in Conns, NEW reply, conn[c].phase \in {"body", "waiting"},
         Answer(c, reply)
  PROVE  AllGoOnwards
<1>1. Answered(conn[c], reply).phase = "answered"
  BY DEF Answered, TypeOK, Connection
<1>2. Onwards(conn[c].phase, Answered(conn[c], reply).phase)
  BY <1>1 DEF Onwards
<1>3. QED
  BY <1>2, OneChanges DEF Answer

\* Opening a session answers the prepare it was asked for by.
LEMMA OpenGoesOnwards ==
  ASSUME TypeOK, NEW c \in Conns, NEW id, NEW fs, conn[c].phase \in {"body", "waiting"},
         OpenSession(c, id, fs)
  PROVE  AllGoOnwards
<1> DEFINE t == Answered([conn[c] EXCEPT !.sid = id, !.files = fs], "Ok")
<1>1. t.phase = "answered"
  BY DEF Answered, TypeOK, Connection
<1>2. conn' = [AfterAbort EXCEPT ![c] = t]
  BY DEF OpenSession
<1> HIDE DEF t
<1>3. Onwards(conn[c].phase, t.phase)
  BY <1>1 DEF Onwards
<1>4. QED
  BY <1>2, <1>3, OneChanges

\* Committing an upload answers it.
LEMMA CommitGoesOnwards ==
  ASSUME TypeOK, NEW c \in Conns, NEW r \in Connection,
         conn[c].phase \in {"new", "body"}, CommitUpload(c, r)
  PROVE  AllGoOnwards
<1>1. PICK reply \in {"Ok", "InternalError"} : conn' = [conn EXCEPT ![c] = Answered(r, reply)]
  BY DEF CommitUpload
<1>2. Answered(r, reply).phase = "answered"
  BY DEF Answered, Connection
<1>3. Onwards(conn[c].phase, Answered(r, reply).phase)
  BY <1>2 DEF Onwards
<1>4. QED
  BY <1>1, <1>3, OneChanges

\* A request that arrives may become anything.
LEMMA ArrivalGoesOnwards ==
  ASSUME TypeOK, NEW c \in Conns, NEW t, IsNew(c),
         conn' = [conn EXCEPT ![c] = t] \/ conn' = [AfterAbort EXCEPT ![c] = t]
  PROVE  AllGoOnwards
<1>1. Onwards(conn[c].phase, t.phase)
  BY DEF IsNew, Onwards
<1>2. QED
  BY <1>1, OneChanges

\* No step takes a request back.
LEMMA OnwardsStep == Inductive /\ [Next]_vars => AllGoOnwards
<1> SUFFICES ASSUME Inductive, [Next]_vars PROVE AllGoOnwards
  OBVIOUS
<1>0. TypeOK /\ PendingIsLive /\ UploadBelongs
  BY DEF Inductive, SlotInv, UploadInv
<1>1. ASSUME conn' = conn PROVE AllGoOnwards
  BY <1>1 DEF AllGoOnwards, Onwards
<1>2. ASSUME NEW c \in Conns, Prepare(c) PROVE AllGoOnwards
  <2>1. ASSUME NEW d \in Devices, HandlePrepare(c, d) PROVE AllGoOnwards
    BY <1>0, <2>1, ArrivalGoesOnwards DEF HandlePrepare
  <2>2. CASE PrepareMalformed(c)
    BY <1>0, <2>2, AnswerGoesOnwards DEF PrepareMalformed
  <2>3. CASE PrepareRefused(c)
    BY <1>0, <2>3, AnswerGoesOnwards DEF PrepareRefused
  <2>4. ASSUME NEW id \in SessionIds, PrepareTurnedAway(c, id) PROVE AllGoOnwards
    BY <1>0, <2>4, AnswerGoesOnwards DEF PrepareTurnedAway, PrepareAdmissible
  <2>5. ASSUME NEW id \in SessionIds, NEW fs \in SUBSET Files, PrepareAsksUser(c, id, fs)
        PROVE  AllGoOnwards
    <3> DEFINE t == [conn[c] EXCEPT !.phase = "waiting", !.files = fs]
    <3>1. t.phase = "waiting" /\ conn[c].phase = "body"
      BY <1>0, <2>5 DEF TypeOK, Connection, PrepareAsksUser, PrepareAdmissible
    <3>2. conn' = [conn EXCEPT ![c] = t]
      BY <2>5 DEF PrepareAsksUser
    <3> HIDE DEF t
    <3>3. Onwards(conn[c].phase, t.phase)
      BY <3>1 DEF Onwards
    <3>4. QED
      BY <1>0, <3>2, <3>3, OneChanges
  <2>6. ASSUME NEW id \in SessionIds, NEW fs \in SUBSET Files, PrepareAccepted(c, id, fs)
        PROVE  AllGoOnwards
    BY <1>0, <2>6, OpenGoesOnwards DEF PrepareAccepted, PrepareAdmissible
  <2>7. QED
    BY <1>2, <2>1, <2>2, <2>3, <2>4, <2>5, <2>6 DEF Prepare
<1>3. ASSUME NEW c \in Conns, SessionRequest(c) PROVE AllGoOnwards
  <2>1. ASSUME NEW d \in Devices, NEW sid \in issued, HandleComplete(c, d, sid)
        PROVE  AllGoOnwards
    BY <1>0, <2>1, ArrivalGoesOnwards DEF HandleComplete
  <2>2. ASSUME NEW d \in Devices, NEW sid \in issued, HandleAbort(c, d, sid)
        PROVE  AllGoOnwards
    BY <1>0, <2>2, ArrivalGoesOnwards DEF HandleAbort
  <2>3. ASSUME NEW d \in Devices, NEW sid \in issued, NEW f \in Files, NEW e \in BOOLEAN,
               UploadRefused(c, d, sid, f, e)
        PROVE  AllGoOnwards
    BY <1>0, <2>3, ArrivalGoesOnwards DEF UploadRefused
  <2>4. ASSUME NEW d \in Devices, NEW sid \in issued, NEW f \in Files,
               UploadSinkFails(c, d, sid, f)
        PROVE  AllGoOnwards
    BY <1>0, <2>4, ArrivalGoesOnwards DEF UploadSinkFails
  <2>5. ASSUME NEW d \in Devices, NEW sid \in issued, NEW f \in Files,
               UploadStarts(c, d, sid, f)
        PROVE  AllGoOnwards
    BY <1>0, <2>5, ArrivalGoesOnwards DEF UploadStarts, CommitUpload
  <2>6. QED
    BY <1>3, <2>1, <2>2, <2>3, <2>4, <2>5 DEF SessionRequest
<1>4. ASSUME NEW c \in Conns, PeerGone(c) \/ IdleOrFlushed(c) PROVE AllGoOnwards
  <2>1. conn' = [conn EXCEPT ![c] = Blank("closed")]
    BY <1>4 DEF PeerGone, IdleOrFlushed, Finished
  <2>2. QED
    BY <1>0, <2>1, OneChanges DEF Onwards, Blank
<1>5. CASE UploadProgress \/ CancelActive \/ Sweep \/ UNCHANGED vars
  BY <1>1, <1>5 DEF UploadProgress, CancelActive, Sweep, vars
<1>6. CASE UploadLastPiece
  <2>1. upload \in Conns /\ conn[upload] \in Connection
    BY <1>0, <1>6 DEF UploadLastPiece, TypeOK
  <2>2. QED
    BY <1>0, <1>6, <2>1, CommitGoesOnwards DEF UploadLastPiece
<1>7. CASE UploadWriteFails
  <2>1. upload \in Conns
    BY <1>0, <1>7 DEF UploadWriteFails, TypeOK
  <2>2. QED
    BY <1>0, <1>7, <2>1, AnswerGoesOnwards DEF UploadWriteFails
<1>8. CASE UserAccepts \/ UserRejects \/ UserBlocks \/ ApprovalTimeout
  <2>1. pending \in Conns /\ conn[pending].phase = "waiting"
    BY <1>0, <1>8
       DEF TypeOK, PendingIsLive, UserAccepts, UserRejects, UserBlocks, ApprovalTimeout
  <2>2. QED
    BY <1>0, <1>8, <2>1, OpenGoesOnwards, AnswerGoesOnwards
       DEF UserAccepts, UserRejects, UserBlocks, ApprovalTimeout
<1>9. CASE SessionExpires
  BY <1>9, AbortGoesOnwards DEF SessionExpires
<1>10. ASSUME NEW sid \in SessionIds, RunCancel(sid) PROVE AllGoOnwards
  BY <1>1, <1>10, AbortGoesOnwards DEF RunCancel
<1>11. ASSUME NEW sid \in SessionIds, DirAges(sid) PROVE AllGoOnwards
  BY <1>1, <1>11 DEF DirAges
<1>12. CASE Restart
  BY <1>12 DEF Restart, AllGoOnwards, Onwards, IsNew, Blank
<1>13. QED
  BY <1>2, <1>3, <1>4, <1>5, <1>6, <1>7, <1>8, <1>9, <1>10, <1>11, <1>12 DEF Next, LoopStep, User

\* Going onwards is going onwards in life.
LEMMA OnwardsInLife ==
  ASSUME NEW p \in Phases, NEW q \in Phases, Onwards(p, q)
  PROVE  q \in Life!Onward[p]
  BY DEF Phases, Onwards, Life!Lives, Life!Onward

\* ReceiveService asks no more of its connections than ConnectionLife: none is
\* answered twice, made to wait twice, or touched once it is closed.
THEOREM KeepsConnectionLife == Spec => KeepsToConnectionLife
<1> DEFINE life == [c \in Conns |-> conn[c].phase]
<1>1. Init => Life!LifeInit
  BY DEF Init, Life!LifeInit, Blank
<1>2. Inductive /\ Inductive' /\ [Next]_vars => [Life!LifeNext]_life
  <2> SUFFICES ASSUME Inductive, Inductive', [Next]_vars PROVE Life!LifeNext
    OBVIOUS
  <2>1. \A k \in Conns : conn[k].phase \in Phases /\ conn'[k].phase \in Phases
    BY DEF Inductive, TypeOK, Connection
  <2>2. \A k \in Conns : conn'[k].phase \in Life!Onward[conn[k].phase]
    BY <2>1, OnwardsStep, OnwardsInLife DEF AllGoOnwards
  <2>3. life' = [k \in Conns |-> conn'[k].phase]
    OBVIOUS
  <2>4. QED
    BY <2>1, <2>2, <2>3 DEF Life!LifeNext, Life!Lives, Phases
<1>3. QED
  BY <1>1, <1>2, InductiveHolds, PTL DEF Spec, KeepsToConnectionLife, Life!LifeSpec

-----------------------------------------------------------------------------
(* The command line, which asks inside the slot, asks one question at a time. *)

\* A request that does not become a waiting one leaves nobody waiting anew.
LEMMA NobodyWaitsAnew ==
  ASSUME TypeOK, NEW c \in Conns, NEW t, t.phase # "waiting",
         conn' = [conn EXCEPT ![c] = t] \/ conn' = [AfterAbort EXCEPT ![c] = t],
         NEW k \in Conns, conn'[k].phase = "waiting"
  PROVE  conn[k].phase = "waiting"
<1>1. DOMAIN conn = Conns /\ DOMAIN AfterAbort = Conns
  BY DEF TypeOK, AfterAbort
<1>2. AfterAbort[k].phase = "waiting" => conn[k].phase = "waiting"
  BY DEF AfterAbort, Blank
<1>3. conn'[c] = t
  BY <1>1
<1>4. k # c => conn'[k] = conn[k] \/ conn'[k] = AfterAbort[k]
  BY <1>1
<1>5. QED
  BY <1>2, <1>3, <1>4

\* No event but the body of a prepare makes anybody wait.
LEMMA OnlyAskingWaits ==
  ASSUME Inductive, LoopStep, NEW k \in Conns, conn'[k].phase = "waiting",
         conn[k].phase # "waiting"
  PROVE  pending' = k
<1>0. TypeOK /\ PendingIsLive
  BY DEF Inductive, SlotInv
<1>1. ASSUME NEW request \in {Blank("closed")} PROVE request.phase # "waiting"
  BY DEF Blank
<1>2. ASSUME NEW r \in Connection, NEW reply \in Replies
      PROVE  Answered(r, reply).phase # "waiting"
  BY DEF Answered, Connection
<1>3. \A c \in Conns : conn[c] \in Connection
  BY <1>0 DEF TypeOK
<1>4. ASSUME NEW c \in Conns, NEW r \in Connection, NEW reply \in Replies,
             \/ conn' = [conn EXCEPT ![c] = Answered(r, reply)]
             \/ conn' = [AfterAbort EXCEPT ![c] = Answered(r, reply)]
      PROVE  FALSE
  BY <1>0, <1>2, <1>4, NobodyWaitsAnew
<1>5. ASSUME NEW c \in Conns, NEW reply \in Replies, Answer(c, reply) PROVE FALSE
  BY <1>3, <1>4, <1>5 DEF Answer
<1>6. ASSUME conn' = AfterAbort PROVE FALSE
  BY <1>0, <1>6 DEF AfterAbort, Blank, TypeOK
<1>7. ASSUME NEW c \in Conns, NEW r \in Connection, CommitUpload(c, r) PROVE FALSE
  <2>1. PICK reply \in {"Ok", "InternalError"} : conn' = [conn EXCEPT ![c] = Answered(r, reply)]
    BY <1>7 DEF CommitUpload
  <2>2. QED
    BY <1>4, <2>1 DEF Replies
<1>8. ASSUME NEW c \in Conns, Prepare(c) PROVE pending' = k
  <2>1. ASSUME NEW d \in Devices, HandlePrepare(c, d) PROVE FALSE
    <3> DEFINE r == Request("prepare", d, NoSession, NoFile, {})
    <3>1. r \in Connection /\ r.phase = "body"
      BY RequestType DEF Request, Kinds
    <3>2. PICK t \in {r, Answered(r, "Conflict")} : conn' = [conn EXCEPT ![c] = t]
      BY <2>1 DEF HandlePrepare
    <3> HIDE DEF r
    <3>3. t.phase # "waiting"
      BY <1>2, <3>1, <3>2 DEF Replies
    <3>4. QED
      BY <1>0, <3>2, <3>3, NobodyWaitsAnew
  <2>2. CASE PrepareMalformed(c)
    BY <1>5, <2>2 DEF PrepareMalformed, Replies
  <2>3. CASE PrepareRefused(c)
    BY <1>5, <2>3 DEF PrepareRefused, Replies
  <2>4. ASSUME NEW id \in SessionIds, PrepareTurnedAway(c, id) PROVE FALSE
    BY <1>5, <2>4 DEF PrepareTurnedAway, Replies
  <2>5. ASSUME NEW id \in SessionIds, NEW fs \in SUBSET Files, PrepareAsksUser(c, id, fs)
        PROVE  pending' = k
    <3>1. \A j \in Conns \ {c} : conn'[j] = conn[j]
      BY <1>0, <2>5 DEF TypeOK, PrepareAsksUser
    <3>2. QED
      BY <2>5, <3>1 DEF PrepareAsksUser, TakePendingSlot
  <2>6. ASSUME NEW id \in SessionIds, NEW fs \in SUBSET Files, PrepareAccepted(c, id, fs)
        PROVE  FALSE
    <3>1. [conn[c] EXCEPT !.sid = id, !.files = fs] \in Connection
      BY <1>3 DEF Connection
    <3>2. QED
      BY <1>4, <2>6, <3>1 DEF PrepareAccepted, OpenSession, Replies
  <2>7. QED
    BY <1>8, <2>1, <2>2, <2>3, <2>4, <2>5, <2>6 DEF Prepare
<1>9. ASSUME NEW c \in Conns, NEW d \in Devices, NEW sid \in issued,
             HandleComplete(c, d, sid) \/ HandleAbort(c, d, sid)
      PROVE  FALSE
  <2>1. sid \in SessionIds /\ ReportedReceived \in SUBSET Files
    BY <1>0 DEF TypeOK, ReportedReceived
  <2>2. \A kind \in {"complete", "abort"}, fs \in SUBSET Files :
           Request(kind, d, sid, NoFile, fs) \in Connection
    BY <2>1, RequestType DEF Kinds
  <2>3. RequireSession(d, sid) \in Replies
    BY DEF RequireSession, Replies
  <2>4. CASE HandleComplete(c, d, sid)
    BY <1>4, <2>1, <2>2, <2>3, <2>4 DEF HandleComplete, Replies
  <2>5. CASE HandleAbort(c, d, sid)
    BY <1>4, <2>2, <2>5 DEF HandleAbort, Replies
  <2>6. QED
    BY <1>9, <2>4, <2>5
<1>10. ASSUME NEW c \in Conns, NEW d \in Devices, NEW sid \in issued, NEW f \in Files,
              \/ \E e \in BOOLEAN : UploadRefused(c, d, sid, f, e)
              \/ UploadSinkFails(c, d, sid, f)
              \/ UploadStarts(c, d, sid, f)
       PROVE  FALSE
  <2> DEFINE r == Request("put", d, sid, f, {})
  <2>1. r \in Connection /\ r.phase = "body"
    BY <1>0, RequestType DEF TypeOK, Kinds, Request
  <2>2. RequireSession(d, sid) \in Replies
    BY DEF RequireSession, Replies
  <2>3. ASSUME NEW e \in BOOLEAN, UploadRefused(c, d, sid, f, e) PROVE FALSE
    BY <1>4, <2>1, <2>2, <2>3 DEF UploadRefused, Replies
  <2>4. CASE UploadSinkFails(c, d, sid, f)
    BY <1>4, <2>1, <2>4 DEF UploadSinkFails, Replies
  <2>5. CASE UploadStarts(c, d, sid, f)
    <3>1. CASE Size[f] = 0
      BY <1>7, <2>1, <2>5, <3>1 DEF UploadStarts
    <3>2. CASE conn' = [conn EXCEPT ![c] = r]
      BY <1>0, <2>1, <3>2, NobodyWaitsAnew
    <3>3. QED
      BY <2>5, <3>1, <3>2 DEF UploadStarts
  <2>6. QED
    BY <1>10, <2>3, <2>4, <2>5
<1>11. ASSUME NEW c \in Conns, PeerGone(c) \/ IdleOrFlushed(c) PROVE FALSE
  <2>1. conn' = [conn EXCEPT ![c] = Blank("closed")]
    BY <1>11 DEF PeerGone, IdleOrFlushed, Finished
  <2>2. QED
    BY <1>0, <1>1, <2>1, NobodyWaitsAnew
<1>12. ASSUME UploadProgress \/ CancelActive \/ Sweep PROVE FALSE
  BY <1>12 DEF UploadProgress, CancelActive, Sweep
<1>13. ASSUME UploadLastPiece \/ UploadWriteFails PROVE FALSE
  <2>1. upload \in Conns
    BY <1>0, <1>13 DEF UploadLastPiece, UploadWriteFails, TypeOK
  <2>2. QED
    BY <1>3, <1>5, <1>7, <1>13, <2>1 DEF UploadLastPiece, UploadWriteFails, Replies
<1>14. ASSUME ApprovalTimeout PROVE FALSE
  <2>1. pending \in Conns
    BY <1>0, <1>14 DEF TypeOK, ApprovalTimeout
  <2>2. QED
    BY <1>5, <1>14, <2>1 DEF ApprovalTimeout, Replies
<1>15. ASSUME SessionExpires \/ \E sid \in SessionIds : RunCancel(sid) PROVE FALSE
  BY <1>6, <1>15 DEF SessionExpires, RunCancel
<1>16. QED
  BY <1>8, <1>9, <1>10, <1>11, <1>12, <1>13, <1>14, <1>15 DEF LoopStep, SessionRequest

\* While the loop stands still nobody can begin to wait, and the answer that lets
\* it go on takes the one that waits away.
LEMMA OneWaits == Inductive /\ OneDialogIfBlocking /\ [Next]_vars => OneDialogIfBlocking'
<1> SUFFICES ASSUME Inductive, OneDialogIfBlocking, [Next]_vars, BlockingInput,
                    NEW k \in Conns, conn'[k].phase = "waiting"
             PROVE  k = pending'
  BY DEF OneDialogIfBlocking
<1>0. TypeOK /\ PendingIsLive
  BY DEF Inductive, SlotInv
<1>1. conn[k].phase = "waiting" => k = pending
  BY DEF OneDialogIfBlocking
<1>2. CASE Running /\ LoopStep
  <2>1. conn[k].phase # "waiting"
    BY <1>1, <1>2, NullAssumption DEF Running
  <2>2. QED
    BY <1>2, <2>1, OnlyAskingWaits
<1>3. CASE User
  <2>1. pending \in Conns /\ conn[pending].phase = "waiting" /\ conn[pending] \in Connection
    BY <1>0, <1>3 DEF TypeOK, PendingIsLive, User, UserAccepts, UserRejects, UserBlocks
  <2>2. \E r \in Connection, reply \in Replies :
           \/ conn' = [conn EXCEPT ![pending] = Answered(r, reply)]
           \/ conn' = [AfterAbort EXCEPT ![pending] = Answered(r, reply)]
    <3>1. CASE UserAccepts
      <4>1. [conn[pending] EXCEPT !.sid = pendingId, !.files = conn[pending].files] \in Connection
        BY <1>0, <2>1 DEF TypeOK, Connection
      <4>2. QED
        BY <3>1, <4>1 DEF UserAccepts, OpenSession, Replies
    <3>2. CASE UserRejects \/ UserBlocks
      BY <2>1, <3>2 DEF UserRejects, UserBlocks, Answer, Replies
    <3>3. QED
      BY <1>3, <3>1, <3>2 DEF User
  <2>3. PICK r \in Connection, reply \in Replies :
           \/ conn' = [conn EXCEPT ![pending] = Answered(r, reply)]
           \/ conn' = [AfterAbort EXCEPT ![pending] = Answered(r, reply)]
    BY <2>2
  <2>4. Answered(r, reply).phase # "waiting" /\ conn'[pending].phase # "waiting"
    <3> DEFINE t == Answered(r, reply)
    <3>1. t.phase = "answered"
      BY DEF Answered, Connection
    <3> HIDE DEF t
    <3>2. DOMAIN conn = Conns /\ DOMAIN AfterAbort = Conns
      BY <1>0 DEF TypeOK, AfterAbort
    <3>3. conn'[pending] = t
      BY <2>1, <2>3, <3>2 DEF t
    <3>4. QED
      BY <3>1, <3>3 DEF t
  <2>5. conn[k].phase = "waiting"
    BY <1>0, <2>1, <2>3, <2>4, NobodyWaitsAnew
  <2>6. QED
    BY <1>1, <2>4, <2>5
<1>4. CASE (\E sid \in SessionIds : DirAges(sid)) \/ UNCHANGED vars
  BY <1>1, <1>4 DEF DirAges, vars, pendingVars
<1>5. CASE Restart
  BY <1>5 DEF Restart, IsNew, Blank
<1>6. QED
  BY <1>2, <1>3, <1>4, <1>5 DEF Next

\* OneApprovalAtATime is false; where the question blocks the event loop, as the
\* command line's does, it is true: two dialogs need a loop that goes on.
THEOREM BlockingAsksOnce == Spec => []OneDialogIfBlocking
<1>1. Init => OneDialogIfBlocking
  BY DEF Init, OneDialogIfBlocking, Blank
<1>2. Inductive /\ OneDialogIfBlocking /\ [Next]_vars => OneDialogIfBlocking'
  BY OneWaits
<1>3. QED
  BY <1>1, <1>2, InductiveHolds, PTL DEF Spec
=============================================================================
