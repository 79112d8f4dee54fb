--------------------------- MODULE TransferProofs ---------------------------
(***************************************************************************)
(* What a sender reports about a transfer is true, for any number of       *)
(* devices, requests, files and sessions, and whatever the network does.   *)
(* The receiver of Transfer is the ReceiveService of before, so that all   *)
(* that is proved about it holds here.                                     *)
(***************************************************************************)
EXTENDS Transfer, ReceiveServiceProofs

\* The receiver in a transfer takes steps of ReceiveService only.
THEOREM ReceiverIsReceiveService == TransferSpec => Spec
<1>1. TransferInit => Init
  BY DEF TransferInit
<1>2. [TransferNext]_transferVars => [Next]_vars
  <2> SUFFICES ASSUME [TransferNext]_transferVars PROVE [Next]_vars
    OBVIOUS
  <2>1. CASE Receive
    BY <2>1 DEF Receive
  <2>2. ASSUME NEW d \in Devices, ClientStep(d) PROVE UNCHANGED vars
    BY <2>2
       DEF ClientStep, Send, ReplyEnds, AttemptFails, Connected, ReplyLost, ReplyArrives,
           Cancel, ReaderStops
  <2>3. CASE UNCHANGED transferVars
    BY <2>3 DEF transferVars
  <2>4. QED
    BY <2>1, <2>2, <2>3 DEF TransferNext
<1>3. QED
  BY <1>1, <1>2, PTL DEF TransferSpec, Spec

-----------------------------------------------------------------------------
(* What a step of the receiver does to a request, and to session ids.      *)

\* A request that is being handled or has been answered.
Live(r) == r.kind # "none" /\ r.phase \notin {"new", "closed"}

\* A request is taken up, goes on as the one it is, or is closed.
Continues(old, new) ==
    \/ new = old \/ new = Blank("closed")
    \/ old.phase = "new" /\ Live(new)
    \/ /\ Live(old) /\ Live(new) /\ new.kind = old.kind /\ new.peer = old.peer
       /\ old.kind # "prepare" => new.sid = old.sid /\ new.file = old.file

\* What an answer says is so when it is given.
Upheld(old, new) ==
    new.phase = "answered" /\ old.phase # "answered" =>
        /\ new.kind = "prepare" /\ new.reply = "Ok" =>
             /\ new.sid = session' /\ new.peer = sender' /\ session' # NoSession
             /\ session' \notin issued \ {pendingId}
        /\ new.kind = "complete" /\ new.reply = "Ok" =>
             new.sid = session /\ new.files = ReportedReceived
        /\ new.kind = "abort" => new.sid # session' \/ new.peer # sender'

\* One answer is given at a time.
OneAnswered == \A j, k \in Conns : IsAnswered(j) /\ IsAnswered(k) => j = k

AllTaken ==
    /\ \A k \in Conns : Continues(conn[k], conn'[k]) /\ Upheld(conn[k], conn'[k])
    /\ OneAnswered

\* In a step that changes one request, and aborts the upload in flight or not,
\* only that request matters.
LEMMA OneTaken ==
  ASSUME TypeOK, NEW c \in Conns, NEW t, Continues(conn[c], t), Upheld(conn[c], t),
         conn' = [conn EXCEPT ![c] = t] \/ conn' = [AfterAbort EXCEPT ![c] = t]
  PROVE  AllTaken
<1>0. Blank("closed").phase = "closed"
  BY DEF Blank
<1>a. OneAnswered
  <2>1. \A k \in Conns : k = c \/ conn'[k] = conn[k] \/ conn'[k] = Blank("closed")
    BY DEF TypeOK, AfterAbort
  <2>2. \A k \in Conns : IsAnswered(k) => k = c
    BY <1>0, <2>1 DEF IsAnswered
  <2>3. QED
    BY <2>2 DEF OneAnswered
<1> SUFFICES ASSUME NEW k \in Conns
             PROVE  Continues(conn[k], conn'[k]) /\ Upheld(conn[k], conn'[k])
  BY <1>a DEF AllTaken
<1>1. CASE k = c
  <2>1. conn'[k] = t
    BY <1>1 DEF TypeOK, AfterAbort
  <2>2. QED
    BY <1>1, <2>1
<1>2. CASE k # c
  <2>1. conn'[k] = conn[k] \/ conn'[k] = Blank("closed")
    BY <1>2 DEF TypeOK, AfterAbort
  <2>2. QED
    BY <1>0, <2>1 DEF Continues, Upheld
<1>3. QED
  BY <1>1, <1>2

\* A step that aborts the upload in flight or does not, and changes no request
\* otherwise.
LEMMA NoneTaken ==
  ASSUME conn' = conn \/ conn' = AfterAbort
  PROVE  AllTaken
<1>1. Blank("closed").phase = "closed"
  BY DEF Blank
<1>2. \A k \in Conns : conn'[k] = conn[k] \/ conn'[k] = Blank("closed")
  BY DEF AfterAbort
<1>3. QED
  BY <1>1, <1>2 DEF AllTaken, OneAnswered, IsAnswered, Continues, Upheld

\* A request that is answered on arrival,
LEMMA ArrivalTaken ==
  ASSUME TypeOK, NEW c \in Conns, NEW kind \in Kinds, NEW d \in Devices,
         NEW sid \in SessionIds \cup {NoSession}, NEW f \in Files \cup {NoFile},
         NEW fs \in SUBSET Files, NEW reply \in Replies, IsNew(c), kind # "none",
         kind = "prepare" => reply # "Ok",
         kind = "complete" /\ reply = "Ok" => sid = session /\ fs = ReportedReceived,
         kind = "abort" => sid # session' \/ d # sender',
         LET a == Answered(Request(kind, d, sid, f, fs), reply) IN
         conn' = [conn EXCEPT ![c] = a] \/ conn' = [AfterAbort EXCEPT ![c] = a]
  PROVE  AllTaken
<1> DEFINE r == Request(kind, d, sid, f, fs)
<1>1. /\ r \in Connection /\ r.kind = kind /\ r.peer = d /\ r.sid = sid /\ r.files = fs
  BY RequestType
<1> HIDE DEF r
<1> DEFINE a == Answered(r, reply)
<1>2. /\ a.phase = "answered" /\ a.reply = reply /\ a.kind = kind /\ a.peer = d
      /\ a.sid = sid /\ a.files = fs
  BY <1>1, AnsweredType
<1>3. conn' = [conn EXCEPT ![c] = a] \/ conn' = [AfterAbort EXCEPT ![c] = a]
  BY DEF r
<1> HIDE DEF a
<1>4. Continues(conn[c], a)
  BY <1>2 DEF Continues, Live, IsNew
<1>5. Upheld(conn[c], a)
  BY <1>2 DEF Upheld
<1>6. QED
  BY <1>3, <1>4, <1>5, OneTaken

\* an upload that is refused on arrival,
LEMMA PutAnswerTaken ==
  ASSUME TypeOK, NEW c \in Conns, NEW d \in Devices, NEW sid \in SessionIds,
         NEW f \in Files, NEW reply \in Replies, IsNew(c),
         conn' = [conn EXCEPT ![c] = Answered(Request("put", d, sid, f, {}), reply)]
  PROVE  AllTaken
<1> DEFINE r == Request("put", d, sid, f, {})
<1>1. r \in Connection /\ r.kind = "put"
  BY RequestType DEF Kinds
<1> HIDE DEF r
<1> DEFINE a == Answered(r, reply)
<1>2. a.phase = "answered" /\ a.kind = "put"
  BY <1>1, AnsweredType
<1>3. conn' = [conn EXCEPT ![c] = a]
  BY DEF r
<1> HIDE DEF a
<1>4. Continues(conn[c], a) /\ Upheld(conn[c], a)
  BY <1>2 DEF Continues, Live, IsNew, Upheld
<1>5. QED
  BY <1>3, <1>4, OneTaken

\* and one whose body is read first.
LEMMA RequestTaken ==
  ASSUME TypeOK, NEW c \in Conns, NEW kind \in Kinds, NEW d \in Devices,
         NEW sid \in SessionIds \cup {NoSession}, NEW f \in Files \cup {NoFile},
         NEW fs \in SUBSET Files, IsNew(c), kind # "none",
         conn' = [conn EXCEPT ![c] = Request(kind, d, sid, f, fs)]
  PROVE  AllTaken
<1> DEFINE r == Request(kind, d, sid, f, fs)
<1>1. r.kind = kind /\ r.phase = "body"
  BY RequestType
<1>2. conn' = [conn EXCEPT ![c] = r]
  OBVIOUS
<1> HIDE DEF r
<1>3. Continues(conn[c], r) /\ Upheld(conn[c], r)
  BY <1>1 DEF Continues, Live, IsNew, Upheld
<1>4. QED
  BY <1>2, <1>3, OneTaken

\* A prepare that is refused, or an upload that is answered, while it is handled.
LEMMA AnswerTaken ==
  ASSUME TypeOK, NEW c \in Conns, NEW reply \in Replies, Answer(c, reply),
         conn[c].phase \in {"body", "waiting"},
         conn[c].kind = "put" \/ (conn[c].kind = "prepare" /\ reply # "Ok")
  PROVE  AllTaken
<1> DEFINE a == Answered(conn[c], reply)
<1>1. conn[c] \in Connection
  BY DEF TypeOK
<1>2. /\ a.phase = "answered" /\ a.reply = reply /\ a.kind = conn[c].kind
      /\ a.peer = conn[c].peer /\ a.sid = conn[c].sid /\ a.file = conn[c].file
  BY <1>1, AnsweredType
<1>3. conn' = [conn EXCEPT ![c] = a]
  BY DEF Answer
<1> HIDE DEF a
<1>4. Continues(conn[c], a) /\ Upheld(conn[c], a)
  BY <1>2 DEF Continues, Live, Upheld
<1>5. QED
  BY <1>3, <1>4, OneTaken

\* Opening a session answers with its id, and remembers the device.
LEMMA OpenTaken ==
  ASSUME TypeOK, NEW c \in Conns, NEW id \in SessionIds, NEW fs \in SUBSET Files,
         OpenSession(c, id, fs), conn[c].kind = "prepare",
         conn[c].phase \in {"body", "waiting"}, id \notin issued \ {pendingId}
  PROVE  AllTaken
<1> DEFINE r == [conn[c] EXCEPT !.sid = id, !.files = fs]
<1>1. conn[c] \in Connection
  BY DEF TypeOK
<1>2. /\ r \in Connection /\ r.kind = "prepare" /\ r.peer = conn[c].peer /\ r.sid = id
  BY <1>1 DEF Connection
<1> HIDE DEF r
<1> DEFINE a == Answered(r, "Ok")
<1>3. /\ a.phase = "answered" /\ a.kind = "prepare" /\ a.peer = conn[c].peer /\ a.sid = id
  BY <1>2, AnsweredType DEF Replies
<1>4. conn' = [AfterAbort EXCEPT ![c] = a] /\ session' = id /\ sender' = conn[c].peer
  BY DEF OpenSession, r
<1> HIDE DEF a
<1>5. Continues(conn[c], a)
  BY <1>3 DEF Continues, Live
<1>6. Upheld(conn[c], a)
  BY <1>3, <1>4, NullAssumption DEF Upheld
<1>7. QED
  BY <1>4, <1>5, <1>6, OneTaken

\* Committing an upload answers it.
LEMMA CommitTaken ==
  ASSUME TypeOK, NEW c \in Conns, NEW r \in Connection, r.kind = "put",
         IsNew(c) \/ (conn[c].phase = "body" /\ r = conn[c]), CommitUpload(c, r)
  PROVE  AllTaken
<1>1. PICK reply \in {"Ok", "InternalError"} : conn' = [conn EXCEPT ![c] = Answered(r, reply)]
  BY DEF CommitUpload
<1> DEFINE a == Answered(r, reply)
<1>2. /\ a.phase = "answered" /\ a.kind = "put" /\ a.peer = r.peer /\ a.sid = r.sid
      /\ a.file = r.file
  BY AnsweredType DEF Replies
<1>3. conn' = [conn EXCEPT ![c] = a]
  BY <1>1
<1> HIDE DEF a
<1>4. Continues(conn[c], a)
  BY <1>2 DEF Continues, Live, IsNew
<1>5. Upheld(conn[c], a)
  BY <1>2 DEF Upheld
<1>6. QED
  BY <1>3, <1>4, <1>5, OneTaken

\* Every step of the receiver takes requests up, answers them truthfully, or
\* closes them.
LEMMA TakenStep == Inductive /\ [Next]_vars => AllTaken
<1> SUFFICES ASSUME Inductive, [Next]_vars PROVE AllTaken
  OBVIOUS
<1>0. TypeOK /\ PendingIsLive /\ UploadBelongs /\ issued \subseteq SessionIds
  BY DEF Inductive, SlotInv, UploadInv, TypeOK
<1>1. ASSUME NEW c \in Conns, Prepare(c) PROVE AllTaken
  <2>1. ASSUME NEW d \in Devices, HandlePrepare(c, d) PROVE AllTaken
    <3>1. IsNew(c) /\ \/ conn' = [conn EXCEPT ![c] = Request("prepare", d, NoSession, NoFile, {})]
                      \/ conn' = [conn EXCEPT ![c] =
                           Answered(Request("prepare", d, NoSession, NoFile, {}), "Conflict")]
      BY <2>1 DEF HandlePrepare
    <3>2. QED
      BY <1>0, <3>1, RequestTaken, ArrivalTaken DEF Kinds, Replies
  <2>2. CASE PrepareMalformed(c)
    BY <1>0, <2>2, AnswerTaken DEF PrepareMalformed, Replies
  <2>3. CASE PrepareRefused(c)
    BY <1>0, <2>3, AnswerTaken DEF PrepareRefused, Replies
  <2>4. ASSUME NEW id \in SessionIds, PrepareTurnedAway(c, id) PROVE AllTaken
    BY <1>0, <2>4, AnswerTaken DEF PrepareTurnedAway, PrepareAdmissible, Replies
  <2>5. ASSUME NEW id \in SessionIds, NEW fs \in SUBSET Files, PrepareAsksUser(c, id, fs)
        PROVE  AllTaken
    <3> DEFINE t == [conn[c] EXCEPT !.phase = "waiting", !.files = fs]
    <3>1. conn[c] \in Connection /\ conn[c].phase = "body" /\ conn[c].kind = "prepare"
      BY <1>0, <2>5 DEF TypeOK, PrepareAsksUser, PrepareAdmissible
    <3>2. t.phase = "waiting" /\ t.kind = "prepare" /\ t.peer = conn[c].peer
      BY <3>1 DEF Connection
    <3>3. conn' = [conn EXCEPT ![c] = t]
      BY <2>5 DEF PrepareAsksUser
    <3> HIDE DEF t
    <3>4. Continues(conn[c], t) /\ Upheld(conn[c], t)
      BY <3>1, <3>2 DEF Continues, Live, Upheld
    <3>5. QED
      BY <1>0, <3>3, <3>4, OneTaken
  <2>6. ASSUME NEW id \in SessionIds, NEW fs \in SUBSET Files, PrepareAccepted(c, id, fs)
        PROVE  AllTaken
    BY <1>0, <2>6, OpenTaken DEF PrepareAccepted, PrepareAdmissible
  <2>7. QED
    BY <1>1, <2>1, <2>2, <2>3, <2>4, <2>5, <2>6 DEF Prepare
<1>2. ASSUME NEW c \in Conns, SessionRequest(c) PROVE AllTaken
  <2>1. ASSUME NEW d \in Devices, NEW sid \in issued, HandleComplete(c, d, sid)
        PROVE  AllTaken
    <3>1. ReportedReceived \in SUBSET Files /\ IsNew(c)
      BY <2>1 DEF ReportedReceived, HandleComplete
    <3>2. CASE RequireSession(d, sid) = "Ok"
      <4>1. sid = session
        BY <3>2 DEF RequireSession
      <4>2. conn' = [AfterAbort EXCEPT ![c] =
                       Answered(Request("complete", d, sid, NoFile, ReportedReceived), "Ok")]
        BY <2>1, <3>2 DEF HandleComplete
      <4>3. QED
        BY <1>0, <3>1, <4>1, <4>2, ArrivalTaken DEF Kinds, Replies
    <3>3. CASE RequireSession(d, sid) # "Ok"
      <4>1. RequireSession(d, sid) \in Replies
        BY DEF RequireSession, Replies
      <4>2. conn' = [conn EXCEPT ![c] =
              Answered(Request("complete", d, sid, NoFile, {}), RequireSession(d, sid))]
        BY <2>1, <3>3 DEF HandleComplete
      <4> HIDE DEF RequireSession
      <4>3. QED
        BY <1>0, <3>1, <3>3, <4>1, <4>2, ArrivalTaken DEF Kinds
    <3>4. QED
      BY <3>2, <3>3
  <2>2. ASSUME NEW d \in Devices, NEW sid \in issued, HandleAbort(c, d, sid)
        PROVE  AllTaken
    <3>1. IsNew(c)
      BY <2>2 DEF HandleAbort
    <3>2. CASE sid = session /\ d = sender
      <4>1. conn' = [AfterAbort EXCEPT ![c] =
                       Answered(Request("abort", d, sid, NoFile, {}), "Ok")]
        BY <2>2, <3>2 DEF HandleAbort
      <4>2. sid # session'
        BY <1>0, <2>2, <3>2, NullAssumption DEF HandleAbort, EndSession
      <4>3. QED
        BY <1>0, <3>1, <4>1, <4>2, ArrivalTaken DEF Kinds, Replies
    <3>3. CASE ~(sid = session /\ d = sender)
      <4>1. PICK reply \in {"Ok", "Forbidden"} :
              conn' = [conn EXCEPT ![c] =
                         Answered(Request("abort", d, sid, NoFile, {}), reply)]
        BY <2>2, <3>3 DEF HandleAbort
      <4>2. sid # session' \/ d # sender'
        BY <2>2, <3>3 DEF HandleAbort, sessionVars
      <4>3. QED
        BY <1>0, <3>1, <4>1, <4>2, ArrivalTaken DEF Kinds, Replies
    <3>4. QED
      BY <3>2, <3>3
  <2>3. ASSUME NEW d \in Devices, NEW sid \in issued, NEW f \in Files, NEW e \in BOOLEAN,
               UploadRefused(c, d, sid, f, e)
        PROVE  AllTaken
    <3>1. PICK reply \in Replies :
            conn' = [conn EXCEPT ![c] = Answered(Request("put", d, sid, f, {}), reply)]
      BY <2>3 DEF UploadRefused, RequireSession, Replies
    <3>2. IsNew(c)
      BY <2>3 DEF UploadRefused
    <3>3. QED
      BY <1>0, <3>1, <3>2, PutAnswerTaken
  <2>4. ASSUME NEW d \in Devices, NEW sid \in issued, NEW f \in Files,
               UploadSinkFails(c, d, sid, f)
        PROVE  AllTaken
    <3>1. PICK reply \in Replies :
            conn' = [conn EXCEPT ![c] = Answered(Request("put", d, sid, f, {}), reply)]
      BY <2>4 DEF UploadSinkFails, Replies
    <3>2. IsNew(c)
      BY <2>4 DEF UploadSinkFails
    <3>3. QED
      BY <1>0, <3>1, <3>2, PutAnswerTaken
  <2>5. ASSUME NEW d \in Devices, NEW sid \in issued, NEW f \in Files,
               UploadStarts(c, d, sid, f)
        PROVE  AllTaken
    <3> DEFINE r == Request("put", d, sid, f, {})
    <3>1. r \in Connection /\ r.kind = "put" /\ IsNew(c)
      BY <1>0, <2>5, RequestType DEF Kinds, UploadStarts
    <3>2. CommitUpload(c, r) \/ conn' = [conn EXCEPT ![c] = r]
      BY <2>5 DEF UploadStarts
    <3>3. CASE CommitUpload(c, r)
      <4> HIDE DEF r
      <4> QED
        BY <1>0, <3>1, <3>3, CommitTaken
    <3>4. CASE conn' = [conn EXCEPT ![c] = r]
      <4>1. r.phase = "body"
        BY <1>0, RequestType DEF Kinds
      <4> HIDE DEF r
      <4>2. Continues(conn[c], r) /\ Upheld(conn[c], r)
        BY <3>1, <4>1 DEF Continues, Live, IsNew, Upheld
      <4>3. QED
        BY <1>0, <3>4, <4>2, OneTaken
    <3>5. QED
      BY <3>2, <3>3, <3>4
  <2>6. QED
    BY <1>2, <2>1, <2>2, <2>3, <2>4, <2>5 DEF SessionRequest
<1>3. ASSUME NEW c \in Conns, PeerGone(c) \/ IdleOrFlushed(c) PROVE AllTaken
  <2>1. conn' = [conn EXCEPT ![c] = Blank("closed")]
    BY <1>3 DEF PeerGone, IdleOrFlushed, Finished
  <2>2. Blank("closed").phase = "closed"
    BY DEF Blank
  <2>3. Continues(conn[c], Blank("closed")) /\ Upheld(conn[c], Blank("closed"))
    BY <2>2 DEF Continues, Upheld
  <2>4. QED
    BY <1>0, <2>1, <2>3, OneTaken
<1>4. CASE UploadProgress \/ CancelActive \/ Sweep \/ UNCHANGED vars
  BY <1>4, NoneTaken DEF UploadProgress, CancelActive, Sweep, vars
<1>5. CASE UploadLastPiece
  BY <1>0, <1>5, CommitTaken DEF UploadLastPiece, TypeOK, UploadBelongs
<1>6. CASE UploadWriteFails
  BY <1>0, <1>6, AnswerTaken DEF UploadWriteFails, TypeOK, UploadBelongs, Replies
<1>7. CASE UserAccepts
  BY <1>0, <1>7, OpenTaken DEF UserAccepts, PendingIsLive, TypeOK, Connection
<1>8. CASE UserRejects \/ UserBlocks \/ ApprovalTimeout
  <2>1. pending \in Conns /\ conn[pending].phase = "waiting" /\ conn[pending].kind = "prepare"
    BY <1>0, <1>8 DEF TypeOK, PendingIsLive, UserRejects, UserBlocks, ApprovalTimeout
  <2>2. QED
    BY <1>0, <1>8, <2>1, AnswerTaken DEF UserRejects, UserBlocks, ApprovalTimeout, Replies
<1>9. CASE SessionExpires
  BY <1>9, NoneTaken DEF SessionExpires
<1>10. ASSUME NEW sid \in SessionIds, RunCancel(sid) \/ DirAges(sid) PROVE AllTaken
  BY <1>10, NoneTaken DEF RunCancel, DirAges
<1>11. CASE Restart
  <2>1. \A k \in Conns : conn'[k] = conn[k] \/ conn'[k] = Blank("closed")
    BY <1>11 DEF Restart
  <2>2. Blank("closed").phase = "closed"
    BY DEF Blank
  <2>3. QED
    BY <2>1, <2>2 DEF AllTaken, OneAnswered, IsAnswered, Continues, Upheld
<1>12. QED
  BY <1>1, <1>2, <1>3, <1>4, <1>5, <1>6, <1>7, <1>8, <1>9, <1>10, <1>11 DEF Next, LoopStep, User

\* Ids are never forgotten, no id becomes pending or active a second time, the
\* session keeps its device, and files stay where they were renamed to.
IdsKept ==
    /\ issued \subseteq issued'
    /\ \A s \in issued :
         /\ s # pendingId => s # pendingId'
         /\ s # pendingId /\ session' = s => session = s /\ sender' = sender
    /\ \A s \in SessionIds, f \in Files : copies'[s][f] >= copies[s][f]

\* Every step of the receiver keeps to that.
LEMMA IdsStep == Inductive /\ [Next]_vars => IdsKept
<1> SUFFICES ASSUME Inductive, [Next]_vars PROVE IdsKept
  OBVIOUS
<1> USE NullAssumption
<1>0. TypeOK /\ PendingIsLive /\ UploadBelongs /\ PendingExcludesSession
      /\ issued \subseteq SessionIds
      /\ \A s \in SessionIds, f \in Files : copies[s][f] \in Nat
  BY DEF Inductive, SlotInv, UploadInv, TypeOK
<1>c. ASSUME UNCHANGED copies
      PROVE  \A s \in SessionIds, f \in Files : copies'[s][f] >= copies[s][f]
  BY <1>0, <1>c
<1>k. ASSUME UNCHANGED <<copies, issued>>,
             pendingId' \in {pendingId, NoSession},
             (session' = session /\ sender' = sender) \/ session' = NoSession
      PROVE  IdsKept
  BY <1>0, <1>c, <1>k DEF IdsKept
<1>1. ASSUME NEW c \in Conns, Prepare(c) PROVE IdsKept
  <2>1. ASSUME NEW id \in SessionIds, PrepareAdmissible(c, id), UNCHANGED copies,
               \/ UNCHANGED <<session, sender>> /\ pendingId' \in {id, NoSession}
               \/ session' = id /\ pendingId' = NoSession
        PROVE  IdsKept
    <3>1. id \notin issued /\ issued' = issued \cup {id}
      BY <2>1 DEF PrepareAdmissible
    <3>2. QED
      BY <1>0, <1>c, <2>1, <3>1 DEF IdsKept
  <2>2. ASSUME NEW id \in SessionIds, NEW fs \in SUBSET Files,
               \/ PrepareTurnedAway(c, id) \/ PrepareAsksUser(c, id, fs)
               \/ PrepareAccepted(c, id, fs)
        PROVE  IdsKept
    <3>1. PrepareAdmissible(c, id) /\ UNCHANGED copies
      BY <2>2 DEF PrepareTurnedAway, PrepareAsksUser, PrepareAccepted, diskVars
    <3>2. \/ UNCHANGED <<session, sender>> /\ pendingId' \in {id, NoSession}
          \/ session' = id /\ pendingId' = NoSession
      BY <2>2
         DEF PrepareTurnedAway, PrepareAsksUser, PrepareAccepted, OpenSession,
             TakePendingSlot, sessionVars
    <3>3. QED
      BY <2>1, <3>1, <3>2
  <2>3. ASSUME \/ \E d \in Devices : HandlePrepare(c, d)
               \/ PrepareMalformed(c) \/ PrepareRefused(c)
        PROVE  IdsKept
    BY <1>k, <2>3
       DEF HandlePrepare, PrepareMalformed, PrepareRefused, pendingVars, sessionVars,
           diskVars, historyVars
  <2>4. ASSUME NEW id \in SessionIds, PrepareTurnedAway(c, id) PROVE IdsKept
    BY <2>2, <2>4
  <2>5. QED
    BY <1>1, <2>2, <2>3, <2>4 DEF Prepare
<1>2. ASSUME NEW c \in Conns, NEW r \in Connection, CommitUpload(c, r),
             UNCHANGED <<pendingId, session, sender, issued>>
      PROVE  IdsKept
  <2>1. \A s \in SessionIds, f \in Files : copies'[s][f] >= copies[s][f]
    <3>1. \/ copies' = [copies EXCEPT ![session][r.file] = @ + 1] \/ UNCHANGED copies
      BY <1>2 DEF CommitUpload
    <3>2. copies \in [SessionIds -> [Files -> Nat]]
      BY <1>0 DEF TypeOK
    <3>3. QED
      BY <1>0, <1>c, <3>1, <3>2
  <2>2. QED
    BY <1>0, <1>2, <2>1 DEF IdsKept
<1>3. ASSUME NEW c \in Conns, SessionRequest(c) PROVE IdsKept
  <2>1. ASSUME NEW d \in Devices, NEW sid \in issued,
               HandleComplete(c, d, sid) \/ HandleAbort(c, d, sid)
        PROVE  IdsKept
    <3>1. UNCHANGED <<copies, issued, pendingId>>
      BY <2>1 DEF HandleComplete, HandleAbort, pendingVars, historyVars
    <3>2. (session' = session /\ sender' = sender) \/ session' = NoSession
      BY <2>1 DEF HandleComplete, HandleAbort, EndSession, sessionVars
    <3>3. QED
      BY <1>k, <3>1, <3>2
  <2>2. ASSUME NEW d \in Devices, NEW sid \in issued, NEW f \in Files,
               \/ \E e \in BOOLEAN : UploadRefused(c, d, sid, f, e)
               \/ UploadSinkFails(c, d, sid, f)
        PROVE  IdsKept
    BY <1>k, <2>2
       DEF UploadRefused, UploadSinkFails, pendingVars, sessionVars, diskVars, historyVars
  <2>3. ASSUME NEW d \in Devices, NEW sid \in issued, NEW f \in Files,
               UploadStarts(c, d, sid, f)
        PROVE  IdsKept
    <3>1. UNCHANGED <<pendingId, session, sender, issued>>
      BY <2>3 DEF UploadStarts, pendingVars, historyVars
    <3>2. CommitUpload(c, Request("put", d, sid, f, {})) \/ UNCHANGED copies
      BY <2>3 DEF UploadStarts
    <3>3. Request("put", d, sid, f, {}) \in Connection
      BY <1>0, RequestType DEF Kinds
    <3>4. QED
      BY <1>2, <1>k, <3>1, <3>2, <3>3
  <2>4. QED
    BY <1>3, <2>1, <2>2, <2>3 DEF SessionRequest
<1>4. CASE UploadLastPiece
  <2>1. upload \in Conns /\ conn[upload] \in Connection
    BY <1>0, <1>4 DEF UploadLastPiece, TypeOK
  <2>2. CommitUpload(upload, conn[upload]) /\ UNCHANGED <<pendingId, session, sender, issued>>
    BY <1>4 DEF UploadLastPiece, pendingVars, historyVars
  <2>3. QED
    BY <1>2, <2>1, <2>2
<1>5. CASE UserAccepts
  <2>1. UNCHANGED <<copies, issued>> /\ pendingId' = NoSession /\ session' = pendingId
    BY <1>5 DEF UserAccepts, OpenSession, historyVars
  <2>2. QED
    BY <1>0, <1>c, <2>1 DEF IdsKept
<1>6. CASE UserRejects \/ UserBlocks \/ ApprovalTimeout
  BY <1>k, <1>6
     DEF UserRejects, UserBlocks, ApprovalTimeout, DropPending, sessionVars, historyVars
<1>7. CASE SessionExpires \/ \E sid \in SessionIds : RunCancel(sid)
  <2>1. UNCHANGED <<copies, issued, pendingId>>
    BY <1>7 DEF SessionExpires, RunCancel, pendingVars, historyVars
  <2>2. (session' = session /\ sender' = sender) \/ session' = NoSession
    BY <1>7 DEF SessionExpires, RunCancel, EndSession, sessionVars
  <2>3. QED
    BY <1>k, <2>1, <2>2
<1>8. CASE \/ UploadProgress \/ UploadWriteFails \/ CancelActive \/ Sweep \/ UNCHANGED vars
           \/ \E sid \in SessionIds : DirAges(sid)
  BY <1>k, <1>8
     DEF UploadProgress, UploadWriteFails, CancelActive, Sweep, DirAges, vars,
         pendingVars, sessionVars, diskVars, historyVars
<1>9. ASSUME NEW c \in Conns, PeerGone(c) \/ IdleOrFlushed(c) PROVE IdsKept
  <2>1. Finished(c)
    BY <1>9 DEF PeerGone, IdleOrFlushed
  <2>2. UNCHANGED <<copies, issued, session, sender>> /\ pendingId' \in {pendingId, NoSession}
    BY <2>1 DEF Finished, DropPending, pendingVars, sessionVars, historyVars
  <2>3. QED
    BY <1>k, <2>2
<1>10. CASE Restart
  BY <1>k, <1>10 DEF Restart
<1>11. QED
  BY <1>1, <1>3, <1>4, <1>5, <1>6, <1>7, <1>8, <1>9, <1>10 DEF Next, LoopStep, User

-----------------------------------------------------------------------------
(* The inductive invariant of a transfer.                                  *)

\* What a sender asks for in each of its steps.
KindFor == [Preparing |-> "prepare", Uploading |-> "put", Completing |-> "complete",
            Aborting |-> "abort"]

\* The id of a session that d opened, or of one that is over.
OwnSession(sid, d) == sid \in issued /\ sid # pendingId /\ (session = sid => sender = d)

\* The request the sender waits for is the one its step has sent.
Matches(d, s, r) ==
    /\ s.step \in DOMAIN KindFor /\ ~s.heard
    /\ r # NoRequest /\ r.peer = d /\ r.kind = KindFor[s.step]
    /\ s.step # "Preparing" => r.sid = s.sid
    /\ s.step = "Uploading" => r.file = s.device

\* What holds of a sender all the time, in the middle of a handler too: the files
\* it counts as done were delivered in its session, and what it reports is true.
Steady(d, s) ==
    /\ s \in Client
    /\ s.done \subseteq s.files
    /\ s.done # {} => s.sid # NoSession
    /\ \A f \in s.done : copies[s.sid][f] = 1
    /\ s.sid # NoSession => s.contacted /\ OwnSession(s.sid, d)
    /\ s.result = "ok" => s.done = s.files /\ s.sid # NoSession
    /\ s.result # "unverified"
    /\ s.reader # NoFile => s.device = s.reader /\ s.sid # NoSession

\* A result whose last request was answered leaves no session.
Settled(s) == s.result # "none" /\ s.heard /\ s.sid # NoSession => session # s.sid

\* What its step says of the rest of it.
Fits(s) ==
    /\ s.step \in {"Uploading", "Completing", "Aborting"} => s.sid # NoSession
    /\ s.step = "Preparing" => s.sid = NoSession
    /\ s.step = "Completing" => s.done = s.files
    /\ s.step = "Uploading" => s.device \in s.files /\ s.reader = NoFile
    /\ s.result # "none" => s.step \in {"Aborting", "Done"}

ClientInv(d) ==
    /\ Steady(d, client[d])
    /\ Settled(client[d])
    /\ Fits(client[d])
    /\ client[d].reply # NoConn => Matches(d, client[d], request[client[d].reply])
    /\ /\ client[d].reply # NoConn /\ client[d].step = "Completing"
       /\ answer[client[d].reply] # NoRequest /\ answer[client[d].reply].reply = "Ok"
       => client[d].files \subseteq answer[client[d].reply].files

\* A request at the receiver, or its answer, is the one that was sent.
AsRequested(r, c) ==
    /\ r.kind = request[c].kind /\ r.peer = request[c].peer
    /\ r.kind # "prepare" => r.sid = request[c].sid /\ r.file = request[c].file

\* What an answer says stays true for as long as it travels.
Truthful(a) ==
    /\ a.kind = "put" /\ a.reply = "Ok" =>
         a.sid \in SessionIds /\ a.file \in Files /\ copies[a.sid][a.file] = 1
    /\ a.kind = "prepare" /\ a.reply = "Ok" => OwnSession(a.sid, a.peer)
    /\ a.kind = "complete" /\ a.reply = "Ok" => a.sid \in issued \ {session, pendingId}
    /\ a.kind = "abort" => a.sid \in issued \ {pendingId} /\ (session = a.sid => sender # a.peer)

ConnInv(c) ==
    /\ conn[c].kind = "none" <=> conn[c].phase \in {"new", "closed"}
    /\ conn[c].kind # "none" => AsRequested(conn[c], c)
    /\ IsFresh(c) => IsNew(c) /\ answer[c] = NoRequest
    /\ answer[c] # NoRequest => AsRequested(answer[c], c) /\ Truthful(answer[c])

TransferInv ==
    /\ TransferTypeOK
    /\ \A d \in Devices : ClientInv(d)
    /\ \A c \in Conns : ConnInv(c)

-----------------------------------------------------------------------------
(* The receiver's steps keep it.                                           *)

\* A sender's session stays its own, or is over for good,
LEMMA OwnKept ==
  ASSUME IdsKept, NEW s, NEW d, OwnSession(s, d)
  PROVE  OwnSession(s, d)'
  BY DEF IdsKept, OwnSession

\* one that is over stays so,
LEMMA OverKept ==
  ASSUME IdsKept, NEW s \in issued \ {pendingId}
  PROVE  /\ s \in issued' \ {pendingId'}
         /\ session # s => session' # s
         /\ \A d : (session = s => sender # d) => (session' = s => sender' # d)
  BY DEF IdsKept

\* and a file that was delivered is delivered.
LEMMA CopyKept ==
  ASSUME IdsKept, TypeOK', DeliveredOnce', NEW s \in SessionIds, NEW f \in Files,
         copies[s][f] = 1
  PROVE  copies'[s][f] = 1
<1>1. copies'[s][f] \in Nat
  BY DEF TypeOK
<1>2. copies'[s][f] >= 1 /\ copies'[s][f] <= 1
  BY DEF IdsKept, DeliveredOnce
<1>3. QED
  BY <1>1, <1>2

\* Requests stay as they were sent.
LEMMA RequestsKept ==
  ASSUME TransferInv, TypeOK, AllTaken, AsSent, UNCHANGED request, NEW c \in Conns
  PROVE  /\ (conn[c].kind = "none" <=> conn[c].phase \in {"new", "closed"})'
         /\ (conn[c].kind # "none" => AsRequested(conn[c], c))'
         /\ (IsFresh(c) => IsNew(c))'
<1>1. ConnInv(c) /\ Continues(conn[c], conn'[c])
  BY DEF TransferInv, AllTaken
<1>2. Blank("closed").kind = "none" /\ Blank("closed").phase = "closed"
  BY DEF Blank
<1>3. conn[c].phase = "new" /\ Live(conn'[c]) => AsRequested(conn'[c], c)
  BY DEF AsSent, IsNew, Live, AsRequested
<1>4. (conn[c].kind = "none" <=> conn[c].phase \in {"new", "closed"})'
  BY <1>1, <1>2 DEF ConnInv, Continues, Live
<1>5. (conn[c].kind # "none" => AsRequested(conn[c], c))'
  BY <1>1, <1>2, <1>3 DEF ConnInv, Continues, Live, AsRequested
<1>6. (IsFresh(c) => IsNew(c))'
  BY <1>1 DEF ConnInv, AsSent, IsFresh, IsNew
<1>7. QED
  BY <1>4, <1>5, <1>6

\* Answers were true when they were given, and stay true.
LEMMA AnswersKept ==
  ASSUME TransferInv, Inductive, Inductive', AllTaken, IdsKept, AsSent, AnswersTravel,
         UNCHANGED <<client, request>>, NEW c \in Conns
  PROVE  ConnInv(c)'
<1>0. TypeOK /\ TypeOK' /\ DeliveredOnce' /\ RequestsNameIds' /\ IdsDrawn'
      /\ PendingExcludesSession' /\ PendingIsLive'
  BY DEF Inductive, SlotInv, DeliveryInv, AnswersInv
<1>1. /\ (conn[c].kind = "none" <=> conn[c].phase \in {"new", "closed"})'
      /\ (conn[c].kind # "none" => AsRequested(conn[c], c))'
      /\ (IsFresh(c) => IsNew(c))'
  BY <1>0, RequestsKept
<1>2. ConnInv(c) /\ Upheld(conn[c], conn'[c])
  BY DEF TransferInv, AllTaken
<1>3. CASE answer'[c] = answer[c]
  <2>1. Truthful(answer[c]) => Truthful(answer[c])'
    <3> SUFFICES ASSUME Truthful(answer[c]), answer'[c] = answer[c]
                 PROVE  Truthful(answer[c])'
      BY <1>3
    <3> DEFINE a == answer[c]
    <3>1. a.kind = "put" /\ a.reply = "Ok" =>
            a.sid \in SessionIds /\ a.file \in Files /\ copies'[a.sid][a.file] = 1
      BY <1>0, CopyKept DEF Truthful
    <3>2. a.kind = "prepare" /\ a.reply = "Ok" => OwnSession(a.sid, a.peer)'
      BY <1>3, OwnKept DEF Truthful
    <3>3. a.kind = "complete" /\ a.reply = "Ok" => a.sid \in issued' \ {session', pendingId'}
      BY OverKept DEF Truthful
    <3>4. a.kind = "abort" =>
            a.sid \in issued' \ {pendingId'} /\ (session' = a.sid => sender' # a.peer)
      BY OverKept DEF Truthful
    <3>5. QED
      BY <3>1, <3>2, <3>3, <3>4 DEF Truthful
  <2>2. AsRequested(answer[c], c) => AsRequested(answer[c], c)'
    BY <1>3 DEF AsRequested
  <2>3. (IsFresh(c) => answer[c] = NoRequest)'
    BY <1>2, <1>3 DEF ConnInv, IsFresh
  <2>4. QED
    BY <1>1, <1>2, <1>3, <2>1, <2>2, <2>3 DEF ConnInv
<1>4. CASE answer'[c] # answer[c]
  <2>1. /\ answer'[c] = conn'[c] /\ conn'[c].phase = "answered" /\ conn[c].phase # "answered"
        /\ \E d \in Devices : client[d].reply = c
    BY <1>4 DEF AnswersTravel
  <2> DEFINE a == conn'[c]
  <2>2. AsRequested(answer[c], c)' /\ a.kind # "none"
    BY <1>1, <2>1 DEF AsRequested
  <2>3. a.kind = "put" /\ a.reply = "Ok" =>
          a.sid \in SessionIds /\ a.file \in Files /\ copies'[a.sid][a.file] = 1
    BY <1>0 DEF DeliveredOnce, RequestsNameIds, TypeOK
  <2>4. a.kind = "prepare" /\ a.reply = "Ok" =>
          a.sid \in issued' /\ a.sid # pendingId' /\ (session' = a.sid => sender' = a.peer)
    <3> SUFFICES ASSUME a.kind = "prepare", a.reply = "Ok"
                 PROVE  /\ a.sid \in issued' /\ a.sid # pendingId'
                        /\ session' = a.sid => sender' = a.peer
      OBVIOUS
    <3>1. a.sid = session' /\ a.peer = sender' /\ session' # NoSession
      BY <1>2, <2>1 DEF Upheld
    <3>2. session' \in issued'
      BY <1>0, <3>1 DEF IdsDrawn
    <3>3. session' # pendingId'
      BY <1>0, <3>1 DEF PendingExcludesSession, PendingIsLive
    <3>4. QED
      BY <3>1, <3>2, <3>3
  <2>5. a.kind = "complete" /\ a.reply = "Ok" => a.sid \in issued' \ {session', pendingId'}
    BY <1>0 DEF RequestsNameIds
  <2>6. a.kind = "abort" =>
          a.sid \in issued' \ {pendingId'} /\ (session' = a.sid => sender' # a.peer)
    <3> SUFFICES ASSUME a.kind = "abort"
                 PROVE  a.sid \in issued' \ {pendingId'} /\ (session' = a.sid => sender' # a.peer)
      OBVIOUS
    <3>1. PICK d \in Devices : client[d].reply = c
      BY <2>1
    <3>2. ClientInv(d) /\ c # NoConn
      BY NullAssumption DEF TransferInv
    <3>3. request[c].kind = "abort" /\ a.sid = request[c].sid
      BY <1>1, <2>1 DEF AsRequested
    <3>4. client[d].step = "Aborting" /\ request[c].sid = client[d].sid
      BY <3>1, <3>2, <3>3 DEF ClientInv, Matches, KindFor
    <3>5. OwnSession(client[d].sid, d)
      BY <3>2, <3>4 DEF ClientInv, Fits, Steady
    <3>6. a.sid \in issued' \ {pendingId'}
      BY <3>3, <3>4, <3>5, OverKept DEF OwnSession
    <3>7. QED
      BY <1>2, <2>1, <3>6 DEF Upheld
  <2>7. Truthful(answer[c])'
    <3>1. answer'[c] = a
      BY <2>1
    <3> HIDE DEF a
    <3>2. QED
      BY <2>3, <2>4, <2>5, <2>6, <3>1 DEF Truthful, OwnSession
  <2>8. ~IsFresh(c)'
    BY <1>1, <2>1 DEF IsNew
  <2>9. QED
    BY <1>1, <2>2, <2>7, <2>8 DEF ConnInv
<1>5. QED
  BY <1>3, <1>4

\* A sender keeps what it knows while the receiver works, and a report that it
\* is given names every file that it counts as done.
LEMMA ClientsKept ==
  ASSUME TransferInv, Inductive, Inductive', AllTaken, IdsKept, AsSent, AnswersTravel,
         UNCHANGED <<client, request>>, NEW d \in Devices
  PROVE  ClientInv(d)'
<1> DEFINE s == client[d]
<1>0. TypeOK /\ TypeOK' /\ DeliveredOnce' /\ CopiesMatch /\ issued \subseteq SessionIds
  BY DEF Inductive, DeliveryInv, AnswersInv, TypeOK
<1>1. ClientInv(d) /\ s \in Client
  BY DEF TransferInv, ClientInv, Steady
<1>2. s.sid # NoSession => OwnSession(s.sid, d)' /\ s.sid \in issued \ {pendingId}
  BY <1>1, OwnKept DEF ClientInv, Steady, OwnSession
<1>3. \A f \in s.done : copies'[s.sid][f] = 1
  BY <1>0, <1>1, <1>2, CopyKept DEF ClientInv, Steady, Client
<1>4. s.result # "none" /\ s.heard /\ s.sid # NoSession => session' # s.sid
  BY <1>1, <1>2, OverKept DEF ClientInv, Settled
<1>5. Steady(d, client[d])' /\ Settled(client[d])'
  BY <1>1, <1>2, <1>3, <1>4 DEF ClientInv, Steady, Settled
<1>6. Fits(client[d])'
  BY <1>1 DEF ClientInv, Fits
<1>7. (client[d].reply # NoConn => Matches(d, client[d], request[client[d].reply]))'
  BY <1>1 DEF ClientInv, Matches
<1>8. ASSUME s.reply # NoConn, s.step = "Completing", answer'[s.reply] # NoRequest,
             answer'[s.reply].reply = "Ok"
      PROVE  s.files \subseteq answer'[s.reply].files
  <2> DEFINE c == s.reply
  <2>1. c \in Conns
    BY <1>1, <1>8 DEF Client
  <2>2. CASE answer'[c] = answer[c]
    BY <1>1, <1>8, <2>2 DEF ClientInv
  <2>3. CASE answer'[c] # answer[c]
    <3>1. answer'[c] = conn'[c] /\ conn'[c].phase = "answered" /\ conn[c].phase # "answered"
      BY <2>1, <2>3 DEF AnswersTravel
    <3>2. AsRequested(conn[c], c)'
      BY <1>0, <2>1, <3>1, RequestsKept
    <3>3. request[c].kind = "complete" /\ request[c].sid = s.sid
      BY <1>1, <1>8 DEF ClientInv, Matches, KindFor
    <3>4. conn'[c].kind = "complete" /\ conn'[c].sid = s.sid
      BY <3>2, <3>3 DEF AsRequested
    <3>5. s.sid = session /\ conn'[c].files = ReportedReceived
      BY <1>8, <2>1, <3>1, <3>4 DEF AllTaken, Upheld
    <3>6. s.done = s.files /\ s.sid # NoSession /\ s.files \subseteq Files
          /\ \A f \in s.done : copies[s.sid][f] = 1
      BY <1>1, <1>8 DEF ClientInv, Fits, Steady, Client
    <3>7. \A f \in s.files : entry[f] = "committed"
      BY <3>5, <3>6 DEF CopiesMatch, Inductive, DeliveryInv
    <3>8. \A f \in s.files : f \in ReportedReceived
      BY <3>6, <3>7 DEF ReportedReceived
    <3>9. QED
      BY <3>1, <3>5, <3>8
  <2>4. QED
    BY <2>2, <2>3
<1>9. QED
  BY <1>5, <1>6, <1>7, <1>8 DEF ClientInv

\* The receiver's steps keep the invariant.
LEMMA ReceiverStep == TransferInv /\ Inductive /\ Inductive' /\ Receive => TransferInv'
<1> SUFFICES ASSUME TransferInv, Inductive, Inductive', Receive PROVE TransferInv'
  OBVIOUS
<1>1. AllTaken /\ IdsKept /\ AsSent /\ AnswersTravel /\ UNCHANGED <<client, request>>
  BY TakenStep, IdsStep DEF Receive
<1>2. TypeOK'
  BY DEF Inductive
<1>3. TransferTypeOK'
  BY <1>1, <1>2 DEF TransferInv, TransferTypeOK, AnswersTravel, TypeOK
<1>4. QED
  BY <1>1, <1>3, AnswersKept, ClientsKept DEF TransferInv

-----------------------------------------------------------------------------
(* The sender's steps keep it.                                             *)

\* One more request, or none: what a handler of the sender leaves behind.
Sends(d, t) ==
    \/ t.reply = NoConn /\ request' = request
    \/ \E n \in Conns, r \in Connection :
         /\ IsFresh(n) /\ t.reply = n /\ Matches(d, t, r)
         /\ request' = [request EXCEPT ![n] = r]

LeadsTo(d, t) ==
    Becomes(d, t) /\ Steady(d, t) /\ Settled(t) /\ Fits(t) /\ Sends(d, t)

\* A sender that is steady, fits its step, and waits for what it has just sent
\* keeps the invariant, if only answers are forgotten.
LEMMA LeadsKeeps ==
  ASSUME TransferInv, UNCHANGED vars, NEW d \in Devices, NEW t, LeadsTo(d, t),
         answer' \in [Conns -> Connection],
         \A c \in Conns : answer'[c] \in {answer[c], NoRequest}
  PROVE  TransferInv'
<1>0. /\ client \in [Devices -> Client] /\ request \in [Conns -> Connection]
      /\ t \in Client
  BY DEF TransferInv, TransferTypeOK, LeadsTo, Steady
<1>1. client' \in [Devices -> Client] /\ client'[d] = t
      /\ \A e \in Devices \ {d} : client'[e] = client[e]
  BY <1>0 DEF LeadsTo, Becomes
<1>2. request' \in [Conns -> Connection]
      /\ \A c \in Conns : ~IsFresh(c) => request'[c] = request[c]
  BY <1>0 DEF LeadsTo, Sends
<1>3. ASSUME NEW e \in Devices, e # d PROVE ClientInv(e)'
  <2>1. ClientInv(e) /\ client'[e] = client[e]
    BY <1>1, <1>3 DEF TransferInv
  <2>2. Steady(e, client[e])' /\ Settled(client[e])' /\ Fits(client[e])'
    BY <2>1 DEF ClientInv, Steady, Settled, Fits, OwnSession, vars, pendingVars, sessionVars,
                diskVars, historyVars
  <2>3. CASE client[e].reply = NoConn
    BY <2>1, <2>2, <2>3 DEF ClientInv
  <2>4. CASE client[e].reply # NoConn
    <3>1. client[e].reply \in Conns
      BY <1>0, <2>4 DEF Client
    <3>2. request'[client[e].reply] = request[client[e].reply]
      BY <1>2, <2>1, <2>4, <3>1 DEF ClientInv, Matches, IsFresh
    <3>3. answer'[client[e].reply] \in {answer[client[e].reply], NoRequest}
      BY <3>1
    <3>4. QED
      BY <2>1, <2>2, <2>4, <3>2, <3>3 DEF ClientInv, Matches
  <2>5. QED
    BY <2>3, <2>4
<1>4. ClientInv(d)'
  <2>1. Steady(d, client[d])' /\ Settled(client[d])' /\ Fits(client[d])'
    BY <1>1 DEF LeadsTo, Steady, Settled, Fits, OwnSession, vars, pendingVars, sessionVars,
                diskVars, historyVars
  <2>2. CASE t.reply = NoConn
    BY <1>1, <2>1, <2>2 DEF ClientInv
  <2>3. CASE t.reply # NoConn
    <3>1. PICK n \in Conns, r \in Connection :
            /\ IsFresh(n) /\ t.reply = n /\ Matches(d, t, r)
            /\ request' = [request EXCEPT ![n] = r]
      BY <2>3 DEF LeadsTo, Sends
    <3>2. request'[n] = r
      BY <1>0, <3>1
    <3>3. answer'[n] = NoRequest
      BY <3>1 DEF TransferInv, ConnInv
    <3>4. QED
      BY <1>1, <2>1, <3>1, <3>2, <3>3 DEF ClientInv, Matches
  <2>4. QED
    BY <2>2, <2>3
<1>5. ASSUME NEW c \in Conns PROVE ConnInv(c)'
  <2>1. ConnInv(c) /\ UNCHANGED conn /\ answer'[c] \in {answer[c], NoRequest}
    BY DEF TransferInv, vars
  <2>2. UNCHANGED <<copies, issued, session, sender, pendingId>>
    BY DEF vars, pendingVars, sessionVars, diskVars, historyVars
  <2>3. CASE request'[c] = request[c]
    BY <2>1, <2>2, <2>3 DEF ConnInv, AsRequested, Truthful, OwnSession, IsFresh, IsNew
  <2>4. CASE request'[c] # request[c]
    <3>1. IsFresh(c) /\ IsNew(c) /\ answer[c] = NoRequest
      BY <1>2, <2>1, <2>4 DEF ConnInv
    <3>2. conn[c].kind = "none"
      BY <2>1, <3>1 DEF ConnInv, IsNew
    <3>3. ~IsFresh(c)'
      BY <2>4, <3>1 DEF IsFresh
    <3>4. QED
      BY <2>1, <3>1, <3>2, <3>3 DEF ConnInv
  <2>5. QED
    BY <2>3, <2>4
<1>6. TransferTypeOK'
  BY <1>1, <1>2 DEF TransferTypeOK
<1>7. QED
  BY <1>3, <1>4, <1>5, <1>6 DEF TransferInv

\* A request is sent,
LEMMA SendLeads ==
  ASSUME TransferInv, NEW d \in Devices, NEW s, Steady(d, s), Fits(s),
         s.step \in DOMAIN KindFor, NEW f \in Files \cup {NoFile},
         s.step = "Uploading" => f = s.device,
         SendRequest(d, s, KindFor[s.step], f)
  PROVE  \E t : LeadsTo(d, t)
<1> DEFINE t == [s EXCEPT !.reply = NextConn, !.heard = FALSE]
           r == Request(KindFor[s.step], d, s.sid, f,
                        IF KindFor[s.step] = "prepare" THEN s.files ELSE {})
<1>1. NextConn \in Conns /\ IsFresh(NextConn)
  BY DEF SendRequest, NextConn
<1>2. s \in Client
  BY DEF Steady
<1>3. /\ t \in Client /\ t.reply = NextConn /\ t.heard = FALSE
      /\ t.starts = s.starts /\ t.step = s.step /\ t.sid = s.sid /\ t.files = s.files
      /\ t.done = s.done /\ t.contacted = s.contacted /\ t.result = s.result
      /\ t.device = s.device /\ t.reader = s.reader
  BY <1>1, <1>2 DEF Client
<1>4. Becomes(d, t) /\ request' = [request EXCEPT ![NextConn] = r]
  BY DEF SendRequest
<1>5. s.sid \in SessionIds \cup {NoSession} /\ s.files \subseteq Files
  BY <1>2 DEF Client
<1>6. KindFor[s.step] \in Kinds
  BY DEF KindFor, Kinds
<1>7. r \in Connection /\ r.phase = "body" /\ r.kind = KindFor[s.step] /\ r.peer = d
      /\ r.sid = s.sid /\ r.file = f
  BY <1>5, <1>6, RequestType
<1>8. r # NoRequest
  BY <1>7 DEF NoRequest, Blank
<1> HIDE DEF t, r
<1>9. Steady(d, t) /\ Settled(t) /\ Fits(t)
  BY <1>3 DEF Steady, Settled, Fits
<1>10. Matches(d, t, r)
  BY <1>3, <1>7, <1>8 DEF Matches
<1>11. QED
  BY <1>1, <1>3, <1>4, <1>7, <1>9, <1>10 DEF LeadsTo, Sends

\* or a result is reported, unless one has been.
LEMMA ResultLeads ==
  ASSUME NEW d \in Devices, NEW s, Steady(d, s), s.reply = NoConn,
         s.result # "none" => Fits(s), NEW result \in Results \ {"none", "unverified"},
         result = "ok" => s.done = s.files /\ s.sid # NoSession,
         s.heard /\ s.sid # NoSession => session # s.sid,
         ReportResult(d, s, result)
  PROVE  \E t : LeadsTo(d, t)
<1>1. CASE s.result # "none"
  BY <1>1 DEF ReportResult, LeadsTo, Sends, Settled
<1>2. CASE s.result = "none"
  <2> DEFINE t == [s EXCEPT !.step = "Done", !.result = result]
  <2>1. s \in Client
    BY DEF Steady
  <2>2. /\ t \in Client /\ t.step = "Done" /\ t.result = result /\ t.reply = NoConn
        /\ t.heard = s.heard /\ t.sid = s.sid /\ t.files = s.files
        /\ t.done = s.done /\ t.contacted = s.contacted
        /\ t.device = s.device /\ t.reader = s.reader
    BY <2>1 DEF Client, Steps, Results
  <2>3. Becomes(d, t) /\ request' = request
    BY <1>2 DEF ReportResult
  <2> HIDE DEF t
  <2>4. Steady(d, t) /\ Settled(t) /\ Fits(t)
    BY <2>2 DEF Steady, Settled, Fits
  <2>5. QED
    BY <2>2, <2>3, <2>4 DEF LeadsTo, Sends
<1>3. QED
  BY <1>1, <1>2

\* start() forgets all about the round before.
LEMMA StartedLeads ==
  ASSUME NEW d \in Devices, NEW fs \in SUBSET Files, NEW n \in 0..MaxStarts,
         Becomes(d, Started(fs, n, NoFile)), request' = request
  PROVE  \E t : LeadsTo(d, t)
<1> DEFINE t == Started(fs, n, NoFile)
<1>1. /\ t \in Client /\ t.step = "Preparing" /\ t.result = "none" /\ t.reply = NoConn
      /\ t.sid = NoSession /\ t.files = fs /\ t.done = {} /\ t.reader = NoFile
  BY DEF Started, Client, Steps, Results
<1>2. Becomes(d, t)
  OBVIOUS
<1> HIDE DEF t
<1>3. Steady(d, t) /\ Settled(t) /\ Fits(t)
  BY <1>1 DEF Steady, Settled, Fits
<1>4. QED
  BY <1>1, <1>2, <1>3 DEF LeadsTo, Sends

\* A failure is reported, or the next address is tried: no answer has come, so
\* there is neither a session nor a file being read.
LEMMA FailureLeads ==
  ASSUME NEW d \in Devices, NEW s, Steady(d, s), s.reply = NoConn,
         s.result # "none" => Fits(s),
         s.heard /\ s.sid # NoSession => session # s.sid,
         ReportFailure(d, s)
  PROVE  \E t : LeadsTo(d, t)
<1>1. CASE ReportResult(d, s, "failed")
  BY <1>1, ResultLeads DEF Results
<1>2. CASE /\ s.result = "none" /\ ~s.contacted /\ s.starts < MaxStarts
           /\ Becomes(d, Started(s.files, s.starts + 1, s.reader))
           /\ UNCHANGED request
  <2>1. s.reader = NoFile
    BY <1>2 DEF Steady
  <2>2. s.files \in SUBSET Files /\ s.starts + 1 \in 0..MaxStarts
    BY <1>2, StartsAssumption DEF Steady, Client
  <2>3. QED
    BY <1>2, <2>1, <2>2, StartedLeads
<1>3. QED
  BY <1>1, <1>2 DEF ReportFailure

\* The receiver is told to abort.
LEMMA AbortLeads ==
  ASSUME TransferInv, NEW d \in Devices, NEW s, Steady(d, s), s.sid # NoSession,
         SendAbort(d, s)
  PROVE  \E t : LeadsTo(d, t)
<1> DEFINE a == [s EXCEPT !.step = "Aborting"]
<1>1. s \in Client
  BY DEF Steady
<1>2. /\ a \in Client /\ a.step = "Aborting" /\ a.result = s.result
      /\ a.heard = s.heard /\ a.sid = s.sid /\ a.files = s.files
      /\ a.done = s.done /\ a.contacted = s.contacted
      /\ a.device = s.device /\ a.reader = s.reader
  BY <1>1 DEF Client, Steps
<1>3. SendRequest(d, a, "abort", NoFile)
  BY DEF SendAbort
<1> HIDE DEF a
<1>4. Steady(d, a) /\ Fits(a)
  BY <1>2 DEF Steady, Fits
<1>5. a.step \in DOMAIN KindFor /\ KindFor[a.step] = "abort"
  BY <1>2 DEF KindFor
<1>6. QED
  BY <1>2, <1>3, <1>4, <1>5, SendLeads

\* fail() tells a receiver that holds a session, and reports otherwise.
LEMMA FailLeads ==
  ASSUME TransferInv, NEW d \in Devices, NEW s, Steady(d, s), s.reply = NoConn,
         s.result = "none", Fail(d, s)
  PROVE  \E t : LeadsTo(d, t)
<1>1. CASE s.sid # NoSession
  BY <1>1, AbortLeads DEF Fail
<1>2. CASE s.sid = NoSession
  BY <1>2, FailureLeads DEF Fail
<1>3. QED
  BY <1>1, <1>2

\* The next file is one that is not done; after the last comes complete.
LEMMA NextFileLeads ==
  ASSUME TransferInv, NEW d \in Devices, NEW s, Steady(d, s), s.reply = NoConn,
         s.result = "none", s.sid # NoSession, s.reader = NoFile, SendNextFile(d, s)
  PROVE  \E t : LeadsTo(d, t)
<1>1. s \in Client
  BY DEF Steady
<1>2. CASE /\ s.done = s.files
           /\ SendRequest(d, [s EXCEPT !.step = "Completing"], "complete", NoFile)
  <2> DEFINE a == [s EXCEPT !.step = "Completing"]
  <2>1. /\ a \in Client /\ a.step = "Completing" /\ a.result = s.result
        /\ a.heard = s.heard /\ a.sid = s.sid /\ a.files = s.files
        /\ a.done = s.done /\ a.contacted = s.contacted
        /\ a.device = s.device /\ a.reader = s.reader
    BY <1>1 DEF Client, Steps
  <2>2. SendRequest(d, a, "complete", NoFile)
    BY <1>2
  <2> HIDE DEF a
  <2>3. Steady(d, a) /\ Fits(a)
    BY <1>2, <2>1 DEF Steady, Fits
  <2>4. a.step \in DOMAIN KindFor /\ KindFor[a.step] = "complete"
    BY <2>1 DEF KindFor
  <2>5. QED
    BY <2>1, <2>2, <2>3, <2>4, SendLeads
<1>3. CASE s.done # s.files
  <2> DEFINE f == CHOOSE f \in s.files \ s.done : TRUE
  <2>1. f \in s.files /\ f \in Files
    BY <1>1, <1>3 DEF Steady, Client
  <2>2. \/ SendRequest(d, [s EXCEPT !.step = "Uploading", !.device = f], "put", f)
        \/ Fail(d, s)
    BY <1>3 DEF SendNextFile
  <2> HIDE DEF f
  <2>3. CASE SendRequest(d, [s EXCEPT !.step = "Uploading", !.device = f], "put", f)
    <3> DEFINE a == [s EXCEPT !.step = "Uploading", !.device = f]
    <3>1. /\ a \in Client /\ a.step = "Uploading" /\ a.result = s.result
          /\ a.heard = s.heard /\ a.sid = s.sid /\ a.files = s.files
          /\ a.done = s.done /\ a.contacted = s.contacted
          /\ a.device = f /\ a.reader = s.reader
      BY <1>1, <2>1 DEF Client, Steps
    <3>2. SendRequest(d, a, "put", f)
      BY <2>3
    <3> HIDE DEF a
    <3>3. Steady(d, a) /\ Fits(a)
      BY <2>1, <3>1 DEF Steady, Fits
    <3>4. a.step \in DOMAIN KindFor /\ KindFor[a.step] = "put"
      BY <3>1 DEF KindFor
    <3>5. QED
      BY <2>1, <3>1, <3>2, <3>3, <3>4, SendLeads
  <2>4. CASE Fail(d, s)
    BY <2>4, FailLeads
  <2>5. QED
    BY <2>2, <2>3, <2>4
<1>4. QED
  BY <1>2, <1>3 DEF SendNextFile

\* A sender is started, or gets connected, or fails to.
LEMMA SendKeeps ==
  ASSUME TransferInv, NEW d \in Devices, NEW fs \in SUBSET Files,
         Send(d, fs) \/ Connected(d) \/ AttemptFails(d)
  PROVE  TransferInv'
<1> DEFINE s == client[d]
<1>1. ClientInv(d) /\ s \in Client
  BY DEF TransferInv, ClientInv, Steady
<1>2. UNCHANGED vars /\ UNCHANGED answer /\ answer \in [Conns -> Connection]
  BY DEF Send, Connected, AttemptFails, networkVars, TransferInv, TransferTypeOK
<1>3. CASE Send(d, fs)
  <2>1. s.starts + 1 \in 0..MaxStarts
    BY <1>1, <1>3, StartsAssumption DEF Send, Client
  <2>2. \E t : LeadsTo(d, t)
    BY <1>3, <2>1, StartedLeads DEF Send, networkVars
  <2>3. QED
    BY <1>2, <2>2, LeadsKeeps
<1>4. CASE Connected(d)
  <2>1. s.step = "Preparing" /\ SendRequest(d, s, "prepare", NoFile)
    BY <1>4 DEF Connected, Connecting
  <2>2. s.step \in DOMAIN KindFor /\ KindFor[s.step] = "prepare"
    BY <2>1 DEF KindFor
  <2>3. Steady(d, s) /\ Fits(s)
    BY <1>1 DEF ClientInv
  <2> HIDE DEF s
  <2>4. \E t : LeadsTo(d, t)
    BY <2>1, <2>2, <2>3, SendLeads
  <2>5. QED
    BY <1>2, <2>4, LeadsKeeps
<1>5. CASE AttemptFails(d)
  <2>1. s.step = "Preparing" /\ s.reply = NoConn /\ ReportFailure(d, s)
    BY <1>5 DEF AttemptFails, Connecting
  <2>2. Steady(d, s) /\ Fits(s) /\ s.sid = NoSession
    BY <1>1, <2>1 DEF ClientInv, Fits
  <2> HIDE DEF s
  <2>3. \E t : LeadsTo(d, t)
    BY <2>1, <2>2, FailureLeads
  <2>4. QED
    BY <1>2, <2>3, LeadsKeeps
<1>6. QED
  BY <1>3, <1>4, <1>5

\* Forgetting the reply in flight forgets one answer.
LEMMA Forgotten ==
  ASSUME TransferInv, NEW c \in Conns, Forget(c)
  PROVE  /\ answer' \in [Conns -> Connection]
         /\ \A k \in Conns : answer'[k] \in {answer[k], NoRequest}
<1>1. NoRequest \in Connection
  BY BlankType DEF NoRequest, Phases
<1>2. QED
  BY <1>1 DEF Forget, TransferInv, TransferTypeOK

\* A reply is lost: the file of a PUT may still be read from then on.
LEMMA LostKeeps ==
  ASSUME TransferInv, NEW d \in Devices, ReplyLost(d)
  PROVE  TransferInv'
<1> DEFINE old == client[d]
           reader == IF old.step = "Uploading" THEN old.device ELSE old.reader
           s == [old EXCEPT !.reply = NoConn, !.reader = reader]
<1>1. ClientInv(d) /\ old \in Client /\ old.reply # NoConn
  BY DEF TransferInv, ClientInv, Steady, ReplyLost
<1>2. reader \in Files \cup {NoFile}
  BY <1>1 DEF Client
<1>3. /\ s \in Client /\ s.reply = NoConn /\ s.reader = reader
      /\ s.step = old.step /\ s.result = old.result /\ s.heard = old.heard
      /\ s.sid = old.sid /\ s.files = old.files /\ s.done = old.done
      /\ s.contacted = old.contacted /\ s.device = old.device /\ s.cancelled = old.cancelled
  <2> HIDE DEF reader
  <2> QED
    BY <1>1, <1>2 DEF Client
<1>4. IF s.step = "Aborting" THEN AbortEnds(d, s) ELSE Fail(d, s)
  BY DEF ReplyLost
<1>5. reader # NoFile => old.device = reader /\ old.sid # NoSession
  BY <1>1 DEF ClientInv, Steady, Fits
<1>6. old.step = "Aborting" => reader = old.reader
  OBVIOUS
<1>7. UNCHANGED vars /\ Forget(old.reply) /\ old.reply \in Conns
  BY <1>1 DEF ReplyLost, Client
<1> HIDE DEF s, reader
<1>8. Steady(d, s)
  BY <1>1, <1>3, <1>5 DEF ClientInv, Steady
<1>9. ~s.heard /\ s.step \in DOMAIN KindFor
  BY <1>1, <1>3 DEF ClientInv, Matches
<1>10. CASE s.step = "Aborting"
  <2>1. Fits(s)
    BY <1>1, <1>3, <1>6, <1>10 DEF ClientInv, Fits
  <2>2. ReportResult(d, s, "cancelled") \/ ReportFailure(d, s)
    BY <1>4, <1>10 DEF AbortEnds
  <2>3. \E t : LeadsTo(d, t)
    BY <1>3, <1>8, <1>9, <2>1, <2>2, ResultLeads, FailureLeads DEF Results
  <2>4. QED
    BY <1>7, <2>3, LeadsKeeps, Forgotten
<1>11. CASE s.step # "Aborting"
  <2>1. s.result = "none"
    BY <1>1, <1>3, <1>9, <1>11 DEF ClientInv, Fits, KindFor
  <2>2. \E t : LeadsTo(d, t)
    BY <1>3, <1>4, <1>8, <1>11, <2>1, FailLeads
  <2>3. QED
    BY <1>7, <2>2, LeadsKeeps, Forgotten
<1>12. QED
  BY <1>10, <1>11

\* A reply arrives, and what it says is true.
LEMMA ArrivalKeeps ==
  ASSUME TransferInv, TypeOK, NEW d \in Devices, ReplyArrives(d)
  PROVE  TransferInv'
<1> DEFINE old == client[d]
           a == answer[old.reply]
           s == [old EXCEPT !.reply = NoConn, !.heard = TRUE,
                            !.contacted = old.step # "Aborting" \/ old.contacted]
<1>1. ClientInv(d) /\ old \in Client /\ old.reply # NoConn /\ old.reply \in Conns
      /\ a # NoRequest /\ Forget(old.reply) /\ UNCHANGED vars
  BY DEF TransferInv, ClientInv, Steady, ReplyArrives, Client
<1>2. /\ s \in Client /\ s.reply = NoConn /\ s.reader = old.reader
      /\ s.step = old.step /\ s.result = old.result
      /\ s.sid = old.sid /\ s.files = old.files /\ s.done = old.done
      /\ s.device = old.device /\ s.cancelled = old.cancelled
  BY <1>1 DEF Client
<1>3. s.contacted = (old.step # "Aborting" \/ old.contacted)
  BY <1>1 DEF Client
<1>4. \/ s.step = "Aborting" /\ AbortEnds(d, s)
      \/ /\ s.step # "Aborting"
         /\ AnswerRefuses(d, s, a) \/ Prepared(d, s, a) \/ Uploaded(d, s, a) \/ Completed(d, s, a)
  BY DEF ReplyArrives
<1>5. /\ AsRequested(a, old.reply) /\ Truthful(a) /\ a \in Connection
      /\ Matches(d, old, request[old.reply])
  BY <1>1 DEF TransferInv, TransferTypeOK, ConnInv, ClientInv
<1>6. answer' \in [Conns -> Connection]
      /\ \A k \in Conns : answer'[k] \in {answer[k], NoRequest}
  BY <1>1, Forgotten
<1>7. ASSUME NEW t, LeadsTo(d, t) PROVE TransferInv'
  BY <1>1, <1>6, <1>7, LeadsKeeps
<1>8. s.step = "Completing" /\ a.reply = "Ok" => s.files \subseteq a.files
  BY <1>1, <1>2 DEF ClientInv
<1>9. /\ s.step \in DOMAIN KindFor /\ a.kind = KindFor[s.step] /\ a.peer = d
      /\ s.step # "Preparing" => a.sid = s.sid
      /\ s.step = "Uploading" => a.file = s.device
  BY <1>2, <1>5 DEF AsRequested, Matches, KindFor
<1>10. s.sid # NoSession => s.contacted
  BY <1>1, <1>2, <1>3 DEF ClientInv, Steady
<1>11. s.step # "Aborting" => s.contacted
  BY <1>2, <1>3
<1> HIDE DEF s, a
<1>12. Steady(d, s)
  BY <1>1, <1>2, <1>10 DEF ClientInv, Steady
<1>13. Fits(s)
  BY <1>1, <1>2 DEF ClientInv, Fits
<1>14. CASE s.step = "Aborting" /\ AbortEnds(d, s)
  <2>1. session # s.sid
    <3>1. a.kind = "abort" /\ a.sid = s.sid
      BY <1>9, <1>14 DEF KindFor
    <3>2. session = s.sid => sender # d
      BY <1>5, <1>9, <3>1 DEF Truthful
    <3>3. session = s.sid => sender = d
      BY <1>12, <1>13, <1>14 DEF Steady, Fits, OwnSession
    <3>4. QED
      BY <3>2, <3>3
  <2>2. ReportResult(d, s, "cancelled") \/ ReportFailure(d, s)
    BY <1>14 DEF AbortEnds
  <2>3. \E t : LeadsTo(d, t)
    BY <1>2, <1>12, <1>13, <2>1, <2>2, ResultLeads, FailureLeads DEF Results
  <2>4. QED
    BY <1>7, <2>3
<1>15. CASE s.step # "Aborting"
  <2>1. s.result = "none"
    BY <1>9, <1>13, <1>15 DEF Fits, KindFor
  <2>2. CASE AnswerRefuses(d, s, a)
    BY <1>2, <1>7, <1>12, <2>1, <2>2, FailLeads DEF AnswerRefuses
  <2>3. CASE Prepared(d, s, a)
    <3> DEFINE u == [s EXCEPT !.sid = a.sid]
    <3>1. s.step = "Preparing" /\ a.reply = "Ok" /\ SendNextFile(d, u)
      BY <2>3 DEF Prepared
    <3>2. a.kind = "prepare" /\ OwnSession(a.sid, d)
      BY <1>5, <1>9, <3>1 DEF Truthful, KindFor
    <3>3. a.sid \in SessionIds /\ a.sid # NoSession
      BY <3>2, NullAssumption DEF OwnSession, TypeOK
    <3>4. s.done = {} /\ s.reader = NoFile
      BY <1>12, <1>13, <3>1 DEF Steady, Fits
    <3>5. /\ u \in Client /\ u.reply = NoConn /\ u.reader = NoFile
          /\ u.result = "none" /\ u.sid = a.sid /\ u.files = s.files /\ u.done = {}
          /\ u.contacted = s.contacted
      BY <1>2, <2>1, <3>3, <3>4 DEF Client
    <3>6. u.contacted
      BY <1>11, <1>15, <3>5
    <3> HIDE DEF u
    <3>7. Steady(d, u)
      BY <3>2, <3>5, <3>6 DEF Steady
    <3>8. QED
      BY <1>7, <3>1, <3>3, <3>5, <3>7, NextFileLeads
  <2>4. CASE Uploaded(d, s, a)
    <3> DEFINE u == [s EXCEPT !.done = s.done \cup {s.device}]
    <3>1. s.step = "Uploading" /\ a.reply = "Ok" /\ SendNextFile(d, u)
      BY <2>4 DEF Uploaded
    <3>2. a.kind = "put" /\ copies[s.sid][s.device] = 1
      BY <1>5, <1>9, <3>1 DEF Truthful, KindFor
    <3>3. s.device \in s.files /\ s.reader = NoFile /\ s.sid # NoSession
      BY <1>13, <3>1 DEF Fits
    <3>4. s.done \cup {s.device} \in SUBSET Files
      BY <1>2, <3>3 DEF Client
    <3>5. /\ u \in Client /\ u.reply = NoConn /\ u.reader = NoFile
          /\ u.result = "none" /\ u.sid = s.sid /\ u.files = s.files
          /\ u.done = s.done \cup {s.device} /\ u.contacted = s.contacted
      BY <1>2, <2>1, <3>3, <3>4 DEF Client
    <3> HIDE DEF u
    <3>6. Steady(d, u)
      BY <1>12, <3>2, <3>3, <3>5 DEF Steady
    <3>7. QED
      BY <1>7, <3>1, <3>3, <3>5, <3>6, NextFileLeads
  <2>5. CASE Completed(d, s, a)
    <3>1. s.step = "Completing" /\ a.reply = "Ok" /\ ReportResult(d, s, "ok")
      BY <1>8, <2>5 DEF Completed
    <3>2. a.kind = "complete" /\ a.sid = s.sid
      BY <1>9, <3>1 DEF KindFor
    <3>3. session # s.sid
      BY <1>5, <3>1, <3>2 DEF Truthful
    <3>4. s.done = s.files /\ s.sid # NoSession
      BY <1>13, <3>1 DEF Fits
    <3>5. QED
      BY <1>2, <1>7, <1>12, <1>13, <3>1, <3>3, <3>4, ResultLeads DEF Results
  <2>6. QED
    BY <1>4, <1>15, <2>2, <2>3, <2>4, <2>5
<1>16. QED
  BY <1>4, <1>14, <1>15

\* cancel() keeps it: the file of a PUT may still be read, and the session is told.
LEMMA CancelKeeps ==
  ASSUME TransferInv, NEW d \in Devices, Cancel(d)
  PROVE  TransferInv'
<1> DEFINE old == client[d]
           reader == IF old.step = "Uploading" THEN old.device ELSE old.reader
           result == IF old.step = "Aborting" THEN "cancelled" ELSE old.result
           s == [old EXCEPT !.cancelled = TRUE, !.reply = NoConn, !.reader = reader,
                            !.result = result]
<1>1. ClientInv(d) /\ old \in Client /\ old.result = "none"
      /\ UNCHANGED vars /\ Forget(old.reply)
  BY DEF TransferInv, ClientInv, Steady, Cancel
<1>2. reader \in Files \cup {NoFile} /\ result \in Results
  BY <1>1 DEF Client, Results
<1>3. /\ s \in Client /\ s.reply = NoConn /\ s.reader = reader
      /\ s.step = old.step /\ s.result = result /\ s.heard = old.heard
      /\ s.sid = old.sid /\ s.files = old.files /\ s.done = old.done
      /\ s.contacted = old.contacted /\ s.device = old.device
  <2> HIDE DEF reader, result
  <2> QED
    BY <1>1, <1>2 DEF Client
<1>4. IF s.sid = NoSession THEN ReportResult(d, s, "cancelled") ELSE SendAbort(d, s)
  BY DEF Cancel
<1>5. reader # NoFile => old.device = reader /\ old.sid # NoSession
  BY <1>1 DEF ClientInv, Steady, Fits
<1>6. /\ result # "ok" /\ result # "unverified"
      /\ old.sid = NoSession => result = "none"
  BY <1>1 DEF ClientInv, Fits
<1> HIDE DEF s, reader, result
<1>7. Steady(d, s)
  BY <1>1, <1>3, <1>5, <1>6 DEF ClientInv, Steady
<1>8. answer' \in [Conns -> Connection]
      /\ \A k \in Conns : answer'[k] \in {answer[k], NoRequest}
  <2>1. CASE old.reply \in Conns
    BY <1>1, <2>1, Forgotten
  <2>2. CASE old.reply \notin Conns
    BY <1>1, <2>2 DEF Forget, TransferInv, TransferTypeOK
  <2>3. QED
    BY <2>1, <2>2
<1>9. \E t : LeadsTo(d, t)
  <2>1. CASE s.sid = NoSession
    BY <1>3, <1>4, <1>6, <1>7, <2>1, ResultLeads DEF Results
  <2>2. CASE s.sid # NoSession
    BY <1>4, <1>7, <2>2, AbortLeads
  <2>3. QED
    BY <2>1, <2>2
<1>10. QED
  BY <1>1, <1>8, <1>9, LeadsKeeps

\* The manager stops reading.
LEMMA ReaderKeeps ==
  ASSUME TransferInv, NEW d \in Devices, ReaderStops(d)
  PROVE  TransferInv'
<1> DEFINE old == client[d]
           s == [old EXCEPT !.reader = NoFile]
<1>1. ClientInv(d) /\ old \in Client /\ UNCHANGED <<vars, request, answer>>
      /\ client \in [Devices -> Client]
  BY DEF TransferInv, TransferTypeOK, ClientInv, Steady, ReaderStops, networkVars
<1>2. /\ s \in Client /\ s.reply = old.reply /\ s.reader = NoFile
      /\ s.step = old.step /\ s.result = old.result /\ s.heard = old.heard
      /\ s.sid = old.sid /\ s.files = old.files /\ s.done = old.done
      /\ s.contacted = old.contacted /\ s.device = old.device
  BY <1>1 DEF Client
<1>3. client' = [client EXCEPT ![d] = s]
  BY DEF ReaderStops, Becomes
<1> HIDE DEF s
<1>4. client' \in [Devices -> Client] /\ client'[d] = s
      /\ \A e \in Devices \ {d} : client'[e] = client[e]
  BY <1>1, <1>2, <1>3
<1>5. ASSUME NEW e \in Devices PROVE ClientInv(e)'
  <2>1. /\ client'[e] \in Client /\ client'[e].reply = client[e].reply
        /\ client'[e].step = client[e].step /\ client'[e].result = client[e].result
        /\ client'[e].heard = client[e].heard /\ client'[e].sid = client[e].sid
        /\ client'[e].files = client[e].files /\ client'[e].done = client[e].done
        /\ client'[e].contacted = client[e].contacted
        /\ client'[e].device = client[e].device
        /\ client'[e].reader \in {client[e].reader, NoFile}
    BY <1>2, <1>4
  <2>2. ClientInv(e)
    BY DEF TransferInv
  <2>3. UNCHANGED <<copies, issued, session, sender, pendingId>>
    BY <1>1 DEF vars, pendingVars, sessionVars, diskVars, historyVars
  <2>4. Steady(e, client[e])' /\ Settled(client[e])' /\ Fits(client[e])'
    BY <2>1, <2>2, <2>3 DEF ClientInv, Steady, Settled, Fits, OwnSession
  <2>5. (client[e].reply # NoConn => Matches(e, client[e], request[client[e].reply]))'
    BY <1>1, <2>1, <2>2 DEF ClientInv, Matches
  <2>6. QED
    BY <1>1, <2>1, <2>2, <2>4, <2>5 DEF ClientInv
<1>6. ASSUME NEW c \in Conns PROVE ConnInv(c)'
  <2>1. UNCHANGED <<conn, copies, issued, session, sender, pendingId, request, answer>>
    BY <1>1 DEF vars, pendingVars, sessionVars, diskVars, historyVars
  <2>2. QED
    BY <2>1 DEF TransferInv, ConnInv, AsRequested, Truthful, OwnSession, IsFresh, IsNew
<1>7. QED
  BY <1>1, <1>4, <1>5, <1>6 DEF TransferInv, TransferTypeOK

-----------------------------------------------------------------------------
(* The theorems.                                                           *)

\* Nothing has been sent at first.
LEMMA TransferStarts == TransferInit => TransferInv
<1> SUFFICES ASSUME TransferInit PROVE TransferInv
  OBVIOUS
<1> DEFINE r == Started({}, 0, NoFile)
           s == [r EXCEPT !.step = "idle"]
<1>r. r \in Client
  <2>1. 0 \in 0..MaxStarts
    BY StartsAssumption
  <2>2. {} \in SUBSET Files
    OBVIOUS
  <2> HIDE DEF r
  <2>3. r = [starts |-> 0, step |-> "Preparing", sid |-> NoSession, files |-> {},
             done |-> {}, reply |-> NoConn, cancelled |-> FALSE, contacted |-> FALSE,
             heard |-> FALSE, result |-> "none", device |-> NoFile, reader |-> NoFile]
    BY DEF r, Started
  <2>4. QED
    BY <2>1, <2>2, <2>3 DEF Client, Steps, Results
<1>f. /\ r.result = "none" /\ r.reply = NoConn /\ r.sid = NoSession
      /\ r.files = {} /\ r.done = {} /\ r.reader = NoFile
  BY DEF Started
<1>2. client = [d \in Devices |-> s]
  BY DEF TransferInit
<1> HIDE DEF r
<1>1. /\ s \in Client /\ s.step = "idle" /\ s.result = "none" /\ s.reply = NoConn
      /\ s.sid = NoSession /\ s.files = {} /\ s.done = {} /\ s.reader = NoFile
  BY <1>r, <1>f DEF Client, Steps
<1> HIDE DEF s
<1>3. Blank("new") \in Connection /\ Blank("new").kind = "none" /\ Blank("new").phase = "new"
  BY BlankType DEF Blank, Phases
<1>4. \A c \in Conns : conn[c] = Blank("new") /\ answer[c] = NoRequest
  BY DEF TransferInit, Init
<1>5. TransferTypeOK
  BY <1>1, <1>2, <1>3 DEF TransferInit, TransferTypeOK, NoRequest
<1>6. ASSUME NEW d \in Devices PROVE ClientInv(d)
  <2>1. client[d] = s
    BY <1>2
  <2>2. Steady(d, s) /\ Settled(s) /\ Fits(s)
    BY <1>1 DEF Steady, Settled, Fits
  <2>3. QED
    BY <1>1, <2>1, <2>2 DEF ClientInv
<1>7. ASSUME NEW c \in Conns PROVE ConnInv(c)
  BY <1>3, <1>4 DEF ConnInv, IsNew
<1>8. QED
  BY <1>5, <1>6, <1>7 DEF TransferInv

\* Every step keeps the invariant.
LEMMA TransferStep ==
  TransferInv /\ Inductive /\ Inductive' /\ [TransferNext]_transferVars => TransferInv'
<1> SUFFICES ASSUME TransferInv, Inductive, Inductive', [TransferNext]_transferVars
             PROVE  TransferInv'
  OBVIOUS
<1>1. CASE Receive
  BY <1>1, ReceiverStep
<1>2. ASSUME NEW d \in Devices, ClientStep(d) PROVE TransferInv'
  <2>1. TypeOK
    BY DEF Inductive
  <2>2. {} \in SUBSET Files
    OBVIOUS
  <2>3. QED
    BY <1>2, <2>1, <2>2, SendKeeps, LostKeeps, ArrivalKeeps, CancelKeeps, ReaderKeeps
       DEF ClientStep, ReplyEnds
<1>3. CASE UNCHANGED transferVars
  BY <1>3
     DEF transferVars, networkVars, vars, pendingVars, sessionVars, diskVars, historyVars,
         TransferInv, TransferTypeOK, ClientInv, Steady, Settled, Fits, Matches, OwnSession,
         ConnInv, AsRequested, Truthful, IsFresh, IsNew
<1>4. QED
  BY <1>1, <1>2, <1>3 DEF TransferNext

\* The inductive invariant of a transfer holds in every reachable state.
THEOREM TransferInvHolds == TransferSpec => []TransferInv
<1>1. TransferSpec => TransferInit /\ [][TransferNext]_transferVars
  BY DEF TransferSpec
<1>2. TransferSpec => []Inductive
  BY ReceiverIsReceiveService, InductiveHolds, PTL
<1>3. QED
  BY <1>1, <1>2, TransferStarts, TransferStep, PTL

\* A sender that reports success is right.
THEOREM SuccessIsTrue == TransferSpec => []OkMeansDelivered
<1>1. TransferInv => OkMeansDelivered
  BY DEF TransferInv, ClientInv, Steady, OkMeansDelivered
<1>2. QED
  BY <1>1, TransferInvHolds, PTL

\* The end-to-end check of complete finds nothing missing.
THEOREM CheckFindsNothing == TransferSpec => []NeverUnverified
<1>1. TransferInv => NeverUnverified
  BY DEF TransferInv, ClientInv, Steady, NeverUnverified
<1>2. QED
  BY <1>1, TransferInvHolds, PTL

\* A sender whose last request was answered leaves no session behind.
THEOREM NothingIsLeftBehind == TransferSpec => []LeavesNothingBehind
<1>1. TransferInv => LeavesNothingBehind
  BY DEF TransferInv, ClientInv, Settled, LeavesNothingBehind
<1>2. QED
  BY <1>1, TransferInvHolds, PTL

\* The file of a PUT is not destroyed while it may be read.
THEOREM DevicesOutlive == TransferSpec => []DeviceOutlivesReader
<1>1. TransferInv => DeviceOutlivesReader
  BY DEF TransferInv, ClientInv, Steady, DeviceOutlivesReader
<1>2. QED
  BY <1>1, TransferInvHolds, PTL

-----------------------------------------------------------------------------
(* The promises of SendContract, and that a sender never stands still.     *)

\* An answer that gives its sender a session.
Grants(a) == a.kind = "prepare" /\ a.reply = "Ok"

\* A session id that no sender has got to know yet.
Unclaimed(s) ==
    /\ \A d \in Devices : client[d].sid # s
    /\ \A c \in Conns : request[c].sid # s

\* What the contract needs beyond TransferInv: sessions are given to one sender
\* each, a file that counts as done was put, and a sender without a result waits
\* for something.
SendInv ==
    /\ \A c \in Conns : request[c].sid # NoSession => request[c].sid \in issued \ {pendingId}
    /\ \A c \in Conns : Grants(answer[c]) =>
         /\ Unclaimed(answer[c].sid)
         /\ \A k \in Conns : Grants(answer[k]) /\ answer[k].sid = answer[c].sid => k = c
    /\ \A d \in Devices : \A f \in client[d].done : <<d, client[d].sid, f>> \in Sent
    /\ \A d \in Devices : client[d].step = "idle" <=> client[d].files = {}
    /\ \A d \in Devices : client[d].step = "idle" => client[d].result = "none"
    /\ \A d \in Devices : client[d].step = "Done" => client[d].result # "none"
    /\ NeverStandsStill

\* A receiver that answers a prepare gives a session that nobody knows, and
\* nobody is given the same one.
LEMMA GrantsKept ==
  ASSUME TransferInv, Inductive, SendInv, Receive, NEW c \in Conns, Grants(answer'[c])
  PROVE  /\ Unclaimed(answer'[c].sid)
         /\ \A k \in Conns : Grants(answer'[k]) /\ answer'[k].sid = answer'[c].sid => k = c
<1>1. AllTaken /\ AnswersTravel
  BY TakenStep DEF Receive
<1>2. \A k \in Conns : answer'[k] # answer[k] =>
        IsAnswered(k) /\ answer'[k] = conn'[k]
  BY <1>1 DEF AnswersTravel, IsAnswered
<1>3. \A k \in Conns : answer'[k] # answer[k] /\ Grants(answer'[k]) =>
        answer'[k].sid # NoSession /\ answer'[k].sid \notin issued \ {pendingId}
  BY <1>1, <1>2 DEF AllTaken, Upheld, IsAnswered, Grants
<1>4. \A k \in Conns : answer'[k] = answer[k] /\ Grants(answer[k]) =>
        answer[k].sid \in issued \ {pendingId}
  <2> SUFFICES ASSUME NEW k \in Conns, Grants(answer[k])
               PROVE  answer[k].sid \in issued \ {pendingId}
    OBVIOUS
  <2>1. answer[k] # NoRequest
    BY DEF Grants, NoRequest, Blank
  <2>2. Truthful(answer[k])
    BY <2>1 DEF TransferInv, ConnInv
  <2>3. QED
    BY <2>2 DEF Truthful, Grants, OwnSession
<1>5. CASE answer'[c] = answer[c]
  BY <1>3, <1>4, <1>5 DEF SendInv
<1>6. CASE answer'[c] # answer[c]
  <2>1. answer'[c].sid # NoSession /\ answer'[c].sid \notin issued \ {pendingId}
    BY <1>3, <1>6
  <2>2. \A d \in Devices : client[d].sid # NoSession => client[d].sid \in issued \ {pendingId}
    BY DEF TransferInv, ClientInv, Steady, OwnSession
  <2>3. Unclaimed(answer'[c].sid)
    BY <2>1, <2>2 DEF SendInv, Unclaimed
  <2>4. ASSUME NEW k \in Conns, Grants(answer'[k]), answer'[k].sid = answer'[c].sid
        PROVE  k = c
    <3>1. answer'[k] # answer[k]
      BY <1>4, <2>1, <2>4
    <3>2. QED
      BY <1>1, <1>2, <1>6, <3>1 DEF AllTaken, OneAnswered
  <2>5. QED
    BY <2>3, <2>4
<1>7. QED
  BY <1>5, <1>6

\* The receiver's steps keep the invariant.
LEMMA ReceiverKeepsSend ==
  ASSUME TransferInv, Inductive, SendInv, Receive
  PROVE  SendInv'
<1>1. UNCHANGED <<client, request>> /\ IdsKept
  BY IdsStep DEF Receive
<1>2. \A c \in Conns :
        request[c].sid # NoSession => request[c].sid \in issued' \ {pendingId'}
  BY <1>1 DEF SendInv, IdsKept
<1>3. \A c \in Conns : Grants(answer[c])' =>
        /\ Unclaimed(answer[c].sid)'
        /\ \A k \in Conns : Grants(answer[k])' /\ answer'[k].sid = answer'[c].sid => k = c
  BY <1>1, GrantsKept DEF Unclaimed, Grants
<1>4. UNCHANGED Sent
  BY <1>1 DEF Sent
<1>5. NeverStandsStill'
  BY <1>1 DEF SendInv, NeverStandsStill, Connecting
<1>6. QED
  BY <1>1, <1>2, <1>3, <1>4, <1>5 DEF SendInv

\* What a handler of the sender leaves behind, once it has come to s.  It sends
\* nothing: a result has been reported, is reported, or the next address is tried,
Rests(d, s, t) ==
    /\ Becomes(d, t) /\ request' = request
    /\ \/ t = s /\ s.result # "none"
       \/ /\ s.result = "none" /\ t.result \in Results \ {"none"} /\ t.step = "Done"
          /\ t.files = s.files /\ t.sid = s.sid /\ t.done = s.done
       \/ /\ s.result = "none" /\ ~s.contacted /\ t.result = "none" /\ t.step = "Preparing"
          /\ t.files = s.files /\ t.sid = NoSession /\ t.done = {}

\* or it sends a request, and waits for the reply.
Posts(d, s, t) ==
    /\ Becomes(d, t)
    /\ t.files = s.files /\ t.sid = s.sid /\ t.done = s.done /\ t.result = s.result
    /\ t.step \notin {"idle", "Done"}
    /\ \E n \in Conns, r \in Connection :
         /\ IsFresh(n) /\ t.reply = n /\ request' = [request EXCEPT ![n] = r]
         /\ r.sid = s.sid /\ r.peer = d
         /\ r.kind = "put" => r.file \in s.files /\ s.sid # NoSession /\ s.result = "none"

\* A request is sent,
LEMMA RequestPosts ==
  ASSUME NEW d \in Devices, NEW s \in Client, NEW kind \in Kinds,
         NEW f \in Files \cup {NoFile},
         kind = "put" => f \in s.files /\ s.sid # NoSession /\ s.result = "none",
         s.step \notin {"idle", "Done"}, SendRequest(d, s, kind, f)
  PROVE  \E t : Posts(d, s, t)
<1> DEFINE t == [s EXCEPT !.reply = NextConn, !.heard = FALSE]
           r == Request(kind, d, s.sid, f, IF kind = "prepare" THEN s.files ELSE {})
<1>1. NextConn \in Conns /\ IsFresh(NextConn)
  BY DEF SendRequest, NextConn
<1>2. /\ t.reply = NextConn /\ t.step = s.step /\ t.sid = s.sid /\ t.files = s.files
      /\ t.done = s.done /\ t.result = s.result
  BY DEF Client
<1>3. s.sid \in SessionIds \cup {NoSession} /\ s.files \subseteq Files
  BY DEF Client
<1>4. r \in Connection /\ r.kind = kind /\ r.peer = d /\ r.sid = s.sid /\ r.file = f
  BY <1>3, RequestType
<1>5. Becomes(d, t) /\ request' = [request EXCEPT ![NextConn] = r]
  BY DEF SendRequest
<1> HIDE DEF t, r
<1>6. QED
  BY <1>1, <1>2, <1>4, <1>5 DEF Posts

\* A result is reported,
LEMMA ResultRests ==
  ASSUME NEW d \in Devices, NEW s \in Client, NEW result \in Results \ {"none"},
         ReportResult(d, s, result)
  PROVE  \E t : Rests(d, s, t)
<1>1. CASE s.result # "none"
  BY <1>1 DEF ReportResult, Rests
<1>2. CASE s.result = "none"
  <2> DEFINE t == [s EXCEPT !.step = "Done", !.result = result]
  <2>1. /\ t.step = "Done" /\ t.result = result /\ t.sid = s.sid /\ t.files = s.files
        /\ t.done = s.done
    BY DEF Client
  <2>2. Becomes(d, t) /\ request' = request
    BY <1>2 DEF ReportResult
  <2> HIDE DEF t
  <2>3. QED
    BY <1>2, <2>1, <2>2 DEF Rests
<1>3. QED
  BY <1>1, <1>2

\* or a failure is, or the next address is tried.
LEMMA FailureRests ==
  ASSUME NEW d \in Devices, NEW s \in Client, ReportFailure(d, s)
  PROVE  \E t : Rests(d, s, t)
<1>1. CASE ReportResult(d, s, "failed")
  BY <1>1, ResultRests DEF Results
<1>2. CASE /\ s.result = "none" /\ ~s.contacted /\ s.starts < MaxStarts
           /\ Becomes(d, Started(s.files, s.starts + 1, s.reader))
           /\ UNCHANGED request
  <2> DEFINE t == Started(s.files, s.starts + 1, s.reader)
  <2>1. /\ t.result = "none" /\ t.step = "Preparing" /\ t.files = s.files
        /\ t.sid = NoSession /\ t.done = {}
    BY DEF Started
  <2>2. Becomes(d, t)
    BY <1>2
  <2> HIDE DEF t
  <2>3. QED
    BY <1>2, <2>1, <2>2 DEF Rests
<1>3. QED
  BY <1>1, <1>2 DEF ReportFailure

\* The receiver is told to abort,
LEMMA AbortPosts ==
  ASSUME NEW d \in Devices, NEW s \in Client, SendAbort(d, s)
  PROVE  \E t : Posts(d, s, t)
<1> DEFINE a == [s EXCEPT !.step = "Aborting"]
<1>1. /\ a \in Client /\ a.step = "Aborting" /\ a.result = s.result /\ a.sid = s.sid
      /\ a.files = s.files /\ a.done = s.done
  BY DEF Client, Steps
<1>2. SendRequest(d, a, "abort", NoFile)
  BY DEF SendAbort
<1> HIDE DEF a
<1>3. PICK t : Posts(d, a, t)
  BY <1>1, <1>2, RequestPosts DEF Kinds
<1>4. Posts(d, s, t)
  BY <1>1, <1>3 DEF Posts
<1>5. QED
  BY <1>4

\* or given the next file, or asked to complete.
LEMMA NextFilePosts ==
  ASSUME NEW d \in Devices, NEW s \in Client, s.done \subseteq s.files,
         s.sid # NoSession, s.result = "none", SendNextFile(d, s)
  PROVE  \E t : Posts(d, s, t)
<1>1. CASE /\ s.done = s.files
           /\ SendRequest(d, [s EXCEPT !.step = "Completing"], "complete", NoFile)
  <2> DEFINE a == [s EXCEPT !.step = "Completing"]
  <2>1. /\ a \in Client /\ a.step = "Completing" /\ a.result = s.result /\ a.sid = s.sid
        /\ a.files = s.files /\ a.done = s.done
    BY DEF Client, Steps
  <2>2. SendRequest(d, a, "complete", NoFile)
    BY <1>1
  <2> HIDE DEF a
  <2>3. PICK t : Posts(d, a, t)
    BY <2>1, <2>2, RequestPosts DEF Kinds
  <2>4. Posts(d, s, t)
    BY <2>1, <2>3 DEF Posts
  <2>5. QED
    BY <2>4
<1>2. CASE s.done # s.files
  <2> DEFINE f == CHOOSE f \in s.files \ s.done : TRUE
  <2>1. f \in s.files /\ f \in Files
    BY <1>2 DEF Client
  <2>2. \/ SendRequest(d, [s EXCEPT !.step = "Uploading", !.device = f], "put", f)
        \/ Fail(d, s)
    BY <1>2 DEF SendNextFile
  <2> HIDE DEF f
  <2>3. CASE SendRequest(d, [s EXCEPT !.step = "Uploading", !.device = f], "put", f)
    <3> DEFINE a == [s EXCEPT !.step = "Uploading", !.device = f]
    <3>1. /\ a \in Client /\ a.step = "Uploading" /\ a.result = s.result
          /\ a.sid = s.sid /\ a.files = s.files /\ a.done = s.done
      BY <2>1 DEF Client, Steps
    <3>2. SendRequest(d, a, "put", f)
      BY <2>3
    <3> HIDE DEF a
    <3>3. PICK t : Posts(d, a, t)
      BY <2>1, <3>1, <3>2, RequestPosts DEF Kinds
    <3>4. Posts(d, s, t)
      BY <3>1, <3>3 DEF Posts
    <3>5. QED
      BY <3>4
  <2>4. CASE Fail(d, s)
    BY <2>4, AbortPosts DEF Fail
  <2>5. QED
    BY <2>2, <2>3, <2>4
<1>3. QED
  BY <1>1, <1>2 DEF SendNextFile

\* The sender d has come to s in a handler: at most a prepare was answered, which
\* gave it a session, or a PUT, or the user cancelled.
Comes(d, s) ==
    LET old == client[d] IN
    /\ s \in Client
    /\ old.step # "idle" /\ s.step = old.step
    /\ s.files = old.files /\ s.done \subseteq s.files
    /\ \A f \in s.done : <<d, s.sid, f>> \in Sent
    /\ s.sid # NoSession => s.contacted /\ s.sid \in issued \ {pendingId}
    /\ \/ s.sid = old.sid
       \/ /\ old.sid = NoSession /\ s.sid # NoSession
          /\ old.result = "none" /\ s.result = "none"
          /\ old.reply \in Conns /\ answer'[old.reply] = NoRequest
          /\ Grants(answer[old.reply]) /\ s.sid = answer[old.reply].sid
    /\ \/ s.result = old.result
       \/ old.result = "none" /\ s.result = "cancelled"

\* A step of a sender: a handler runs, a new send begins, or a read is over.
HandlerRuns(d) ==
    \E s, t : /\ Comes(d, s)
              /\ \/ Rests(d, s, t) /\ s.sid = client[d].sid
                 \/ Posts(d, s, t)

SendBegins(d) ==
    \E t :
        /\ client[d].step \in {"idle", "Done"}
        /\ Becomes(d, t) /\ request' = request
        /\ t.files \in (SUBSET Files) \ {{}}
        /\ t.result = "none" /\ t.sid = NoSession /\ t.done = {}
        /\ t.step = "Preparing"

ReadEnds(d) ==
    \E t : /\ Becomes(d, t) /\ request' = request
           /\ t.files = client[d].files /\ t.result = client[d].result
           /\ t.sid = client[d].sid /\ t.done = client[d].done
           /\ t.step = client[d].step /\ t.reply = client[d].reply

Moves(d) ==
    /\ UNCHANGED vars
    /\ \A c \in Conns : answer'[c] \in {answer[c], NoRequest}
    /\ HandlerRuns(d) \/ SendBegins(d) \/ ReadEnds(d)

\* fail() tells the receiver, or reports.
LEMMA FailMoves ==
  ASSUME NEW d \in Devices, NEW s, Comes(d, s), s.sid = client[d].sid \/ s.sid # NoSession,
         Fail(d, s)
  PROVE  HandlerRuns(d)
<1>1. s \in Client
  BY DEF Comes
<1>2. CASE s.sid # NoSession
  <2>1. PICK t : Posts(d, s, t)
    BY <1>1, <1>2, AbortPosts DEF Fail
  <2>2. QED
    BY <2>1 DEF HandlerRuns
<1>3. CASE s.sid = NoSession
  <2>1. PICK t : Rests(d, s, t)
    BY <1>1, <1>3, FailureRests DEF Fail
  <2>2. QED
    BY <1>3, <2>1 DEF HandlerRuns
<1>4. QED
  BY <1>2, <1>3

\* A result is reported, or an abort is over.
LEMMA ReportMoves ==
  ASSUME NEW d \in Devices, NEW s, Comes(d, s), s.sid = client[d].sid,
         NEW result \in Results \ {"none"}, ReportResult(d, s, result) \/ ReportFailure(d, s)
  PROVE  HandlerRuns(d)
<1>1. s \in Client
  BY DEF Comes
<1>2. PICK t : Rests(d, s, t)
  BY <1>1, ResultRests, FailureRests
<1>3. QED
  BY <1>2 DEF HandlerRuns

LEMMA AbortMoves ==
  ASSUME NEW d \in Devices, NEW s, Comes(d, s), s.sid = client[d].sid, AbortEnds(d, s)
  PROVE  HandlerRuns(d)
<1>1. ReportResult(d, s, "cancelled") \/ ReportFailure(d, s)
  BY DEF AbortEnds
<1>2. QED
  BY <1>1, ReportMoves DEF Results

\* What TransferInv and SendInv say of a sender that is not idle.
LEMMA OldComes ==
  ASSUME TransferInv, SendInv, NEW d \in Devices, client[d].step # "idle"
  PROVE  Comes(d, client[d])
<1>1. Steady(d, client[d])
  BY DEF TransferInv, ClientInv
<1>2. QED
  BY <1>1 DEF Comes, Steady, SendInv, OwnSession

\* Only fields that Comes does not look at have changed.
LEMMA AlsoComes ==
  ASSUME NEW d \in Devices, Comes(d, client[d]), NEW s \in Client,
         s.step = client[d].step, s.files = client[d].files, s.done = client[d].done,
         s.sid = client[d].sid, client[d].contacted => s.contacted,
         s.result = client[d].result \/ (client[d].result = "none" /\ s.result = "cancelled")
  PROVE  Comes(d, s)
  BY DEF Comes

\* Connecting,
LEMMA ConnectMoves ==
  ASSUME TransferInv, SendInv, NEW d \in Devices, Connected(d) \/ AttemptFails(d)
  PROVE  Moves(d)
<1> DEFINE s == client[d]
<1>1. s.step = "Preparing" /\ s \in Client /\ Comes(d, s)
  BY OldComes DEF Connected, AttemptFails, Connecting, TransferInv, TransferTypeOK
<1>2. UNCHANGED vars /\ UNCHANGED answer
  BY DEF Connected, AttemptFails
<1>3. CASE Connected(d)
  <2>1. SendRequest(d, s, "prepare", NoFile)
    BY <1>3 DEF Connected
  <2> HIDE DEF s
  <2>2. PICK t : Posts(d, s, t)
    BY <1>1, <2>1, RequestPosts DEF Kinds
  <2>3. QED
    BY <1>1, <1>2, <2>2 DEF Moves, HandlerRuns
<1>4. CASE AttemptFails(d)
  <2>1. ReportFailure(d, s)
    BY <1>4 DEF AttemptFails
  <2>2. HandlerRuns(d)
    BY <1>1, <2>1, ReportMoves DEF Results
  <2>3. QED
    BY <1>2, <2>2 DEF Moves
<1>5. QED
  BY <1>3, <1>4

\* a reply that is lost,
LEMMA LostMoves ==
  ASSUME TransferInv, SendInv, NEW d \in Devices, ReplyLost(d)
  PROVE  Moves(d)
<1> DEFINE old == client[d]
           reader == IF old.step = "Uploading" THEN old.device ELSE old.reader
           s == [old EXCEPT !.reply = NoConn, !.reader = reader]
<1>1. ClientInv(d) /\ old \in Client /\ old.reply # NoConn /\ old.reply \in Conns
  BY DEF TransferInv, ClientInv, Steady, ReplyLost, Client
<1>2. reader \in Files \cup {NoFile}
  BY <1>1 DEF Client
<1>3. /\ s \in Client /\ s.step = old.step /\ s.result = old.result /\ s.sid = old.sid
      /\ s.files = old.files /\ s.done = old.done /\ s.contacted = old.contacted
  <2> HIDE DEF reader
  <2> QED
    BY <1>1, <1>2 DEF Client
<1>4. IF s.step = "Aborting" THEN AbortEnds(d, s) ELSE Fail(d, s)
  BY DEF ReplyLost
<1>5. UNCHANGED vars /\ Forget(old.reply)
  BY DEF ReplyLost
<1>6. old.step # "idle"
  BY <1>1 DEF ClientInv, Matches, KindFor
<1> HIDE DEF s, reader
<1>7. Comes(d, s)
  BY <1>3, <1>6, OldComes, AlsoComes
<1>8. HandlerRuns(d)
  BY <1>3, <1>4, <1>7, AbortMoves, FailMoves
<1>9. QED
  BY <1>1, <1>5, <1>8, Forgotten DEF Moves

\* cancel(),
LEMMA CancelMoves ==
  ASSUME TransferInv, SendInv, NEW d \in Devices, Cancel(d)
  PROVE  Moves(d)
<1> DEFINE old == client[d]
           reader == IF old.step = "Uploading" THEN old.device ELSE old.reader
           result == IF old.step = "Aborting" THEN "cancelled" ELSE old.result
           s == [old EXCEPT !.cancelled = TRUE, !.reply = NoConn, !.reader = reader,
                            !.result = result]
<1>1. ClientInv(d) /\ old \in Client /\ old.step # "idle" /\ old.result = "none"
  BY DEF TransferInv, ClientInv, Steady, Cancel
<1>2. reader \in Files \cup {NoFile} /\ result \in Results
      /\ (result = old.result \/ result = "cancelled")
  BY <1>1 DEF Client, Results
<1>3. /\ s \in Client /\ s.step = old.step /\ s.result = result /\ s.sid = old.sid
      /\ s.files = old.files /\ s.done = old.done /\ s.contacted = old.contacted
  <2> HIDE DEF reader, result
  <2> QED
    BY <1>1, <1>2 DEF Client
<1>4. IF s.sid = NoSession THEN ReportResult(d, s, "cancelled") ELSE SendAbort(d, s)
  BY DEF Cancel
<1>5. UNCHANGED vars /\ Forget(old.reply)
  BY DEF Cancel
<1> HIDE DEF s, reader, result
<1>6. Comes(d, s)
  BY <1>1, <1>2, <1>3, OldComes, AlsoComes
<1>7. HandlerRuns(d)
  <2>1. CASE s.sid = NoSession
    BY <1>3, <1>4, <1>6, <2>1, ReportMoves DEF Results
  <2>2. CASE s.sid # NoSession
    <3>1. PICK t : Posts(d, s, t)
      BY <1>3, <1>4, <2>2, AbortPosts
    <3>2. QED
      BY <1>6, <3>1 DEF HandlerRuns
  <2>3. QED
    BY <2>1, <2>2
<1>8. \A c \in Conns : answer'[c] \in {answer[c], NoRequest}
  BY <1>5 DEF Forget
<1>9. QED
  BY <1>5, <1>7, <1>8 DEF Moves

\* and a reply that arrives.
LEMMA ArrivalMoves ==
  ASSUME TransferInv, TypeOK, SendInv, NEW d \in Devices, ReplyArrives(d)
  PROVE  Moves(d)
<1> DEFINE old == client[d]
           a == answer[old.reply]
           s == [old EXCEPT !.reply = NoConn, !.heard = TRUE,
                            !.contacted = old.step # "Aborting" \/ old.contacted]
<1>1. ClientInv(d) /\ old \in Client /\ old.reply # NoConn /\ old.reply \in Conns
      /\ a # NoRequest /\ Forget(old.reply) /\ UNCHANGED vars
  BY DEF TransferInv, ClientInv, Steady, ReplyArrives, Client
<1>2. /\ s \in Client /\ s.step = old.step /\ s.result = old.result
      /\ s.sid = old.sid /\ s.files = old.files /\ s.done = old.done /\ s.device = old.device
  BY <1>1 DEF Client
<1>3. s.contacted = (old.step # "Aborting" \/ old.contacted)
  BY <1>1 DEF Client
<1>4. \/ s.step = "Aborting" /\ AbortEnds(d, s)
      \/ /\ s.step # "Aborting"
         /\ AnswerRefuses(d, s, a) \/ Prepared(d, s, a) \/ Uploaded(d, s, a) \/ Completed(d, s, a)
  BY DEF ReplyArrives
<1>5. /\ AsRequested(a, old.reply) /\ Truthful(a) /\ Matches(d, old, request[old.reply])
      /\ a \in Connection
  BY <1>1 DEF TransferInv, TransferTypeOK, ConnInv, ClientInv
<1>6. old.step \in DOMAIN KindFor /\ a.kind = KindFor[old.step] /\ a.peer = d
  BY <1>5 DEF AsRequested, Matches
<1>7. old.step # "idle"
  BY <1>6 DEF KindFor
<1>8. Comes(d, old)
  BY <1>7, OldComes
<1>9. old.step # "Aborting" => s.contacted
  BY <1>3
<1>10. old.contacted => s.contacted
  BY <1>3
<1>11. answer'[old.reply] = NoRequest /\ \A c \in Conns : answer'[c] \in {answer[c], NoRequest}
  BY <1>1 DEF Forget
<1> HIDE DEF s
<1>12. Comes(d, s)
  BY <1>2, <1>8, <1>10, AlsoComes
<1>13. HandlerRuns(d)
  <2>1. CASE s.step = "Aborting" /\ AbortEnds(d, s)
    BY <1>2, <1>12, <2>1, AbortMoves
  <2>2. CASE AnswerRefuses(d, s, a)
    BY <1>2, <1>12, <2>2, FailMoves DEF AnswerRefuses
  <2>3. CASE s.step # "Aborting" /\ Completed(d, s, a)
    <3>1. PICK result \in {"ok", "unverified"} : ReportResult(d, s, result)
      BY <2>3 DEF Completed
    <3>2. QED
      BY <1>2, <1>12, <3>1, ReportMoves DEF Results
  <2>4. CASE s.step # "Aborting" /\ Prepared(d, s, a)
    <3> DEFINE u == [s EXCEPT !.sid = a.sid]
    <3>1. s.step = "Preparing" /\ a.reply = "Ok" /\ SendNextFile(d, u)
      BY <2>4 DEF Prepared
    <3>2. Grants(a)
      BY <1>2, <1>6, <3>1 DEF KindFor, Grants
    <3>3. a.sid \in issued \ {pendingId}
      BY <1>5, <3>2 DEF Grants, Truthful, OwnSession
    <3>4. old.sid = NoSession /\ old.done = {} /\ old.result = "none"
      BY <1>1, <1>2, <3>1 DEF ClientInv, Fits, Steady
    <3>5. a.sid \in SessionIds \cup {NoSession}
      BY <1>5 DEF Connection
    <3> HIDE DEF a
    <3>6. /\ u \in Client /\ u.step = s.step /\ u.result = s.result /\ u.sid = a.sid
          /\ u.files = s.files /\ u.done = s.done /\ u.contacted = s.contacted
      BY <1>2, <3>5 DEF Client
    <3> HIDE DEF u
    <3>7. CASE a.sid # NoSession
      <4>1. Comes(d, u)
        <5>1. old.step # "idle" /\ u.step = old.step /\ u.files = old.files /\ u.done = {}
          BY <1>2, <1>7, <3>4, <3>6
        <5>2. u.contacted /\ u.sid \in issued \ {pendingId}
          BY <1>2, <1>9, <2>4, <3>3, <3>6
        <5>3. u.result = old.result /\ old.sid = NoSession /\ u.sid # NoSession
              /\ old.result = "none"
          BY <1>2, <3>4, <3>6, <3>7
        <5>4. Grants(answer[old.reply]) /\ u.sid = answer[old.reply].sid
          BY <3>2, <3>6 DEF a
        <5>5. QED
          BY <1>1, <1>11, <3>6, <5>1, <5>2, <5>3, <5>4 DEF Comes
      <4>2. u.done \subseteq u.files /\ u.sid # NoSession /\ u.result = "none"
        BY <1>2, <3>4, <3>6, <3>7
      <4>3. PICK t : Posts(d, u, t)
        BY <3>1, <3>6, <4>2, NextFilePosts
      <4>4. QED
        BY <4>1, <4>3 DEF HandlerRuns
    <3>8. QED
      BY <3>3, <3>7, NullAssumption DEF TypeOK
  <2>5. CASE s.step # "Aborting" /\ Uploaded(d, s, a)
    <3> DEFINE u == [s EXCEPT !.done = s.done \cup {s.device}]
    <3>1. s.step = "Uploading" /\ a.reply = "Ok" /\ SendNextFile(d, u)
      BY <2>5 DEF Uploaded
    <3>2. old.device \in old.files /\ old.sid # NoSession /\ old.result = "none"
      BY <1>1, <1>2, <3>1 DEF ClientInv, Fits
    <3>3. <<d, old.sid, old.device>> \in Sent
      <4>1. request[old.reply].kind = "put" /\ request[old.reply].peer = d
            /\ request[old.reply].sid = old.sid /\ request[old.reply].file = old.device
        BY <1>2, <1>5, <3>1 DEF Matches, KindFor
      <4>2. QED
        BY <1>1, <4>1 DEF Sent
    <3>4. s.done \cup {s.device} \in SUBSET Files
      BY <1>1, <1>2, <3>2 DEF Client
    <3>5. /\ u \in Client /\ u.step = s.step /\ u.result = s.result /\ u.sid = s.sid
          /\ u.files = s.files /\ u.done = s.done \cup {s.device}
          /\ u.contacted = s.contacted
      BY <1>2, <3>4 DEF Client
    <3> HIDE DEF u
    <3>6. Comes(d, u)
      BY <1>2, <1>12, <3>2, <3>3, <3>5 DEF Comes
    <3>7. PICK t : Posts(d, u, t)
      BY <1>2, <3>1, <3>2, <3>5, <3>6, NextFilePosts DEF Comes
    <3>8. QED
      BY <3>6, <3>7 DEF HandlerRuns
  <2>6. QED
    BY <1>4, <2>1, <2>2, <2>3, <2>4, <2>5
<1>14. QED
  BY <1>1, <1>11, <1>13 DEF Moves

\* Every step of a sender is one of those.
LEMMA ClientMoves ==
  ASSUME TransferInv, TypeOK, SendInv, NEW d \in Devices, ClientStep(d)
  PROVE  Moves(d)
<1>1. ASSUME NEW fs \in (SUBSET Files) \ {{}}, Send(d, fs) PROVE Moves(d)
  <2> DEFINE t == Started(fs, client[d].starts + 1, NoFile)
  <2>1. /\ t.files = fs /\ t.result = "none" /\ t.sid = NoSession /\ t.done = {}
        /\ t.step = "Preparing"
    BY DEF Started
  <2>2. Becomes(d, t) /\ request' = request /\ UNCHANGED <<vars, answer>>
        /\ client[d].step \in {"idle", "Done"}
    BY <1>1 DEF Send, networkVars
  <2> HIDE DEF t
  <2>3. SendBegins(d)
    BY <2>1, <2>2 DEF SendBegins
  <2>4. QED
    BY <2>2, <2>3 DEF Moves
<1>2. CASE ReaderStops(d)
  <2> DEFINE t == [client[d] EXCEPT !.reader = NoFile]
  <2>1. client[d] \in Client
    BY DEF TransferInv, TransferTypeOK
  <2>2. /\ t.files = client[d].files /\ t.result = client[d].result
        /\ t.sid = client[d].sid /\ t.done = client[d].done
        /\ t.step = client[d].step /\ t.reply = client[d].reply
    BY <2>1 DEF Client
  <2>3. Becomes(d, t) /\ request' = request /\ UNCHANGED <<vars, answer>>
    BY <1>2 DEF ReaderStops, networkVars
  <2> HIDE DEF t
  <2>4. ReadEnds(d)
    BY <2>2, <2>3 DEF ReadEnds
  <2>5. QED
    BY <2>3, <2>4 DEF Moves
<1>3. QED
  BY <1>1, <1>2, ConnectMoves, LostMoves, CancelMoves, ArrivalMoves DEF ClientStep, ReplyEnds

\* What of a step matters to everybody else: the sender's new state, and what it
\* sent, of which nothing is forgotten.
LEMMA MoveEffect ==
  ASSUME TransferInv, NEW d \in Devices, Moves(d)
  PROVE  /\ client' = [client EXCEPT ![d] = client'[d]]
         /\ \A e \in Devices \ {d} : client'[e] = client[e]
         /\ \A c \in Conns : request'[c] = request[c] \/
              (/\ request[c].kind = "none" /\ request'[c].sid = client'[d].sid
               /\ request'[c].peer = d)
         /\ Sent \subseteq Sent'
<1>1. client \in [Devices -> Client] /\ request \in [Conns -> Connection]
  BY DEF TransferInv, TransferTypeOK
<1>2. PICK t : Becomes(d, t)
  BY DEF Moves, HandlerRuns, SendBegins, ReadEnds, Rests, Posts
<1>3. client' = [client EXCEPT ![d] = t]
  BY <1>2 DEF Becomes
<1>4. client'[d] = t /\ \A e \in Devices \ {d} : client'[e] = client[e]
  BY <1>1, <1>3
<1>5. \A c \in Conns : request'[c] = request[c] \/
        (/\ request[c].kind = "none" /\ request'[c].sid = t.sid
         /\ request'[c].peer = d)
  <2>1. CASE request' = request
    BY <2>1
  <2>2. CASE request' # request
    <3>1. PICK s, u : Posts(d, s, u)
      BY <2>2 DEF Moves, HandlerRuns, SendBegins, ReadEnds, Rests
    <3>2. u = t
      BY <1>1, <1>4, <3>1 DEF Posts, Becomes
    <3>3. PICK n \in Conns, r \in Connection :
            /\ IsFresh(n) /\ request' = [request EXCEPT ![n] = r] /\ r.sid = s.sid /\ r.peer = d
      BY <3>1 DEF Posts
    <3>4. request[n].kind = "none"
      BY <3>3 DEF IsFresh, NoRequest, Blank
    <3>5. s.sid = t.sid
      BY <3>1, <3>2 DEF Posts
    <3>6. QED
      BY <1>1, <3>3, <3>4, <3>5
  <2>3. QED
    BY <2>1, <2>2
<1>6. Sent \subseteq Sent'
  BY <1>5 DEF Sent
<1>7. QED
  BY <1>3, <1>4, <1>5, <1>6

\* What becomes of the sender itself.
LEMMA MovesOn ==
  ASSUME TransferInv, SendInv, NEW d \in Devices, Moves(d)
  PROVE  LET old == client[d]
             t == client'[d] IN
         /\ \/ t.sid = old.sid \/ t.sid = NoSession
            \/ /\ old.reply \in Conns /\ answer'[old.reply] = NoRequest
               /\ Grants(answer[old.reply]) /\ t.sid = answer[old.reply].sid
         /\ \A f \in t.done : <<d, t.sid, f>> \in Sent
         /\ t.step = "idle" <=> t.files = {}
         /\ t.step = "idle" => t.result = "none"
         /\ t.step = "Done" => t.result # "none"
         /\ t.result = "none" /\ t.step \notin {"idle", "Preparing"} => t.reply # NoConn
<1> DEFINE old == client[d]
           t == client'[d]
<1>1. client \in [Devices -> Client]
  BY DEF TransferInv, TransferTypeOK
<1>2. /\ old.step = "idle" <=> old.files = {}
      /\ old.step = "idle" => old.result = "none"
      /\ old.step = "Done" => old.result # "none"
      /\ old.result = "none" /\ old.step \notin {"idle", "Preparing"} => old.reply # NoConn
      /\ \A f \in old.done : <<d, old.sid, f>> \in Sent
  BY DEF SendInv, NeverStandsStill, Connecting
<1>3. ASSUME NEW s, NEW u, Comes(d, s), Rests(d, s, u), s.sid = old.sid
      PROVE  /\ t.sid = old.sid \/ t.sid = NoSession
             /\ \A f \in t.done : <<d, t.sid, f>> \in Sent
             /\ t.step # "idle" /\ t.files # {}
             /\ t.step = "Done" => t.result # "none"
             /\ t.result = "none" => t.step = "Preparing"
  <2>1. t = u
    BY <1>1, <1>3 DEF Rests, Becomes
  <2>2. /\ s.step = old.step /\ old.step # "idle" /\ s.files = old.files
        /\ \A f \in s.done : <<d, s.sid, f>> \in Sent
    BY <1>3 DEF Comes
  <2> HIDE DEF t
  <2>3. QED
    BY <1>2, <1>3, <2>1, <2>2 DEF Rests
<1>4. ASSUME NEW s, NEW u, Comes(d, s), Posts(d, s, u)
      PROVE  /\ \/ t.sid = old.sid
                \/ /\ old.reply \in Conns /\ answer'[old.reply] = NoRequest
                   /\ Grants(answer[old.reply]) /\ t.sid = answer[old.reply].sid
             /\ \A f \in t.done : <<d, t.sid, f>> \in Sent
             /\ t.step \notin {"idle", "Done"} /\ t.files # {} /\ t.reply # NoConn
  <2>1. t = u
    BY <1>1, <1>4 DEF Posts, Becomes
  <2>2. /\ old.step # "idle" /\ s.files = old.files
        /\ \A f \in s.done : <<d, s.sid, f>> \in Sent
        /\ \/ s.sid = old.sid
           \/ /\ old.reply \in Conns /\ answer'[old.reply] = NoRequest
              /\ Grants(answer[old.reply]) /\ s.sid = answer[old.reply].sid
    BY <1>4 DEF Comes
  <2> HIDE DEF t
  <2>3. /\ t.files = s.files /\ t.sid = s.sid /\ t.done = s.done
        /\ t.step \notin {"idle", "Done"} /\ t.reply \in Conns
    BY <1>4, <2>1 DEF Posts
  <2>4. QED
    BY <1>2, <2>2, <2>3, NullAssumption
<1>5. CASE SendBegins(d)
  <2>1. PICK u :
          /\ Becomes(d, u)
          /\ u.files # {} /\ u.result = "none" /\ u.sid = NoSession /\ u.done = {}
          /\ u.step = "Preparing"
    BY <1>5 DEF SendBegins
  <2>2. t = u
    BY <1>1, <2>1 DEF Becomes
  <2> HIDE DEF t
  <2>3. /\ t.files # {} /\ t.result = "none" /\ t.sid = NoSession /\ t.done = {}
        /\ t.step = "Preparing"
    BY <2>1, <2>2
  <2>4. QED
    BY <2>3 DEF t
<1>6. CASE ReadEnds(d)
  <2>1. PICK u : /\ Becomes(d, u)
                 /\ u.files = old.files /\ u.result = old.result /\ u.sid = old.sid
                 /\ u.done = old.done /\ u.step = old.step /\ u.reply = old.reply
    BY <1>6 DEF ReadEnds
  <2>2. t = u
    BY <1>1, <2>1 DEF Becomes
  <2> HIDE DEF t
  <2>3. /\ t.files = old.files /\ t.result = old.result /\ t.sid = old.sid
        /\ t.done = old.done /\ t.step = old.step /\ t.reply = old.reply
    BY <2>1, <2>2
  <2>4. QED
    BY <1>2, <2>3 DEF t
<1>7. CASE HandlerRuns(d)
  BY <1>3, <1>4, <1>7 DEF HandlerRuns
<1>8. QED
  BY <1>5, <1>6, <1>7 DEF Moves

\* A sender's steps keep the invariant.
LEMMA ClientKeepsSend ==
  ASSUME TransferInv, TransferInv', TypeOK, SendInv, NEW d \in Devices, Moves(d)
  PROVE  SendInv'
<1> DEFINE old == client[d]
           t == client'[d]
<1>1. /\ \A e \in Devices \ {d} : client'[e] = client[e]
      /\ \A c \in Conns : request'[c] = request[c] \/ request'[c].sid = t.sid
      /\ Sent \subseteq Sent'
  BY MoveEffect
<1>2. /\ \/ t.sid = old.sid \/ t.sid = NoSession
         \/ /\ old.reply \in Conns /\ answer'[old.reply] = NoRequest
            /\ Grants(answer[old.reply]) /\ t.sid = answer[old.reply].sid
      /\ \A f \in t.done : <<d, t.sid, f>> \in Sent
      /\ t.step = "idle" <=> t.files = {}
      /\ t.step = "idle" => t.result = "none"
      /\ t.step = "Done" => t.result # "none"
      /\ t.result = "none" /\ t.step \notin {"idle", "Preparing"} => t.reply # NoConn
  BY MovesOn
<1>3. UNCHANGED <<issued, pendingId>> /\ \A c \in Conns : answer'[c] \in {answer[c], NoRequest}
  BY DEF Moves, vars, pendingVars, historyVars
<1> HIDE DEF t
<1>4. \A c \in Conns : request'[c].sid # NoSession => request'[c].sid \in issued' \ {pendingId'}
  <2>1. t.sid # NoSession => t.sid \in issued' \ {pendingId'}
    BY DEF t, TransferInv, ClientInv, Steady, OwnSession
  <2>2. QED
    BY <1>1, <1>3, <2>1 DEF SendInv
<1>5. \A c \in Conns : Grants(answer'[c]) =>
        answer'[c] = answer[c] /\ answer[c].sid # NoSession
  <2> SUFFICES ASSUME NEW c \in Conns, Grants(answer'[c])
               PROVE  answer'[c] = answer[c] /\ answer[c].sid # NoSession
    OBVIOUS
  <2>1. answer'[c] = answer[c] /\ answer[c] # NoRequest
    BY <1>3 DEF Grants, NoRequest, Blank
  <2>2. Truthful(answer[c])
    BY <2>1 DEF TransferInv, ConnInv
  <2>3. answer[c].sid \in SessionIds
    BY <2>1, <2>2 DEF Truthful, Grants, OwnSession, TypeOK
  <2>4. QED
    BY <2>1, <2>3, NullAssumption
<1>6. ASSUME NEW c \in Conns, Grants(answer'[c])
      PROVE  /\ Unclaimed(answer[c].sid)'
             /\ \A k \in Conns :
                  Grants(answer'[k]) /\ answer'[k].sid = answer'[c].sid => k = c
  <2>1. answer'[c] = answer[c] /\ answer[c].sid # NoSession
    BY <1>5, <1>6
  <2>2. Unclaimed(answer[c].sid)
        /\ \A k \in Conns : Grants(answer[k]) /\ answer[k].sid = answer[c].sid => k = c
    BY <1>6, <2>1 DEF SendInv
  <2>3. t.sid # answer[c].sid
    <3>1. old.sid # answer[c].sid
      BY <2>2 DEF Unclaimed
    <3>2. ASSUME old.reply \in Conns, answer'[old.reply] = NoRequest,
                 Grants(answer[old.reply]), t.sid = answer[old.reply].sid
          PROVE  t.sid # answer[c].sid
      <4>1. old.reply # c
        BY <1>6, <3>2 DEF Grants, NoRequest, Blank
      <4>2. QED
        BY <2>2, <3>2, <4>1
    <3>3. QED
      BY <1>2, <2>1, <3>1, <3>2
  <2>4. \A e \in Devices : client'[e].sid # answer[c].sid
    BY <1>1, <2>2, <2>3 DEF Unclaimed, t
  <2>5. \A k \in Conns : request'[k].sid # answer[c].sid
    BY <1>1, <2>2, <2>3 DEF Unclaimed
  <2>6. \A k \in Conns : Grants(answer'[k]) /\ answer'[k].sid = answer'[c].sid => k = c
    BY <1>5, <2>1, <2>2
  <2>7. QED
    BY <2>1, <2>4, <2>5, <2>6 DEF Unclaimed
<1>7. \A e \in Devices : \A f \in client'[e].done : <<e, client'[e].sid, f>> \in Sent'
  BY <1>1, <1>2 DEF SendInv, t
<1>8. ASSUME NEW e \in Devices
      PROVE  /\ client'[e].step = "idle" <=> client'[e].files = {}
             /\ client'[e].step = "idle" => client'[e].result = "none"
             /\ client'[e].step = "Done" => client'[e].result # "none"
             /\ client'[e].result = "none" /\ client'[e].step # "idle" =>
                  Connecting(e)' \/ client'[e].reply # NoConn
  <2>1. CASE e = d
    BY <1>2, <2>1 DEF t, Connecting
  <2>2. CASE e # d
    BY <1>1, <2>2 DEF SendInv, NeverStandsStill, Connecting
  <2>3. QED
    BY <2>1, <2>2
<1>9. NeverStandsStill'
  BY <1>8 DEF NeverStandsStill
<1>10. QED
  BY <1>4, <1>5, <1>6, <1>7, <1>8, <1>9 DEF SendInv

\* Nothing has been sent or asked for at first.
LEMMA SendStarts == TransferInit => SendInv /\ Promise!SendInit
<1> SUFFICES ASSUME TransferInit PROVE SendInv /\ Promise!SendInit
  OBVIOUS
<1> DEFINE s == [Started({}, 0, NoFile) EXCEPT !.step = "idle"]
<1>1. /\ s.step = "idle" /\ s.result = "none" /\ s.reply = NoConn /\ s.sid = NoSession
      /\ s.files = {} /\ s.done = {}
  BY DEF Started
<1>2. client = [d \in Devices |-> s]
  BY DEF TransferInit
<1> HIDE DEF s
<1>3. NoRequest.kind = "none" /\ NoRequest.sid = NoSession
  BY DEF NoRequest, Blank
<1>4. \A c \in Conns : request[c] = NoRequest /\ answer[c] = NoRequest
  BY DEF TransferInit
<1>5. Sent = {}
  BY <1>3, <1>4 DEF Sent
<1>6. SendInv
  BY <1>1, <1>2, <1>3, <1>4 DEF SendInv, Grants, NeverStandsStill
<1>7. Arrived = {}
  BY DEF Arrived, TransferInit, Init
<1>8. Promise!SendInit
  BY <1>1, <1>2, <1>5, <1>7 DEF Promise!SendInit
<1>9. QED
  BY <1>6, <1>8

\* The receiver's steps deliver one file that was put, or none.
LEMMA ReceiverKeepsPromise ==
  ASSUME TransferInv, TransferInv', Inductive, Inductive', Receive
  PROVE  Promise!SendNext \/ UNCHANGED Promise!sendVars
<1>1. AllTaken /\ IdsKept /\ DeliveredByItsSender /\ UNCHANGED <<client, request>>
  BY TakenStep, IdsStep, DeliverTends DEF Receive
<1>2. UNCHANGED Sent
  BY <1>1 DEF Sent
<1>3. \A s \in SessionIds, f \in Files :
        /\ copies[s][f] \in Nat /\ copies'[s][f] \in Nat
        /\ copies'[s][f] >= copies[s][f] /\ copies'[s][f] <= 1
  BY <1>1 DEF Inductive, TypeOK, DeliveryInv, AnswersInv, DeliveredOnce, IdsKept
<1>4. CASE \A s \in SessionIds, f \in Files : copies'[s][f] = copies[s][f]
  <2>1. UNCHANGED Arrived
    BY <1>4 DEF Arrived
  <2>2. QED
    BY <1>1, <1>2, <2>1 DEF Promise!sendVars
<1>5. ASSUME NEW s \in SessionIds, NEW f \in Files, copies'[s][f] # copies[s][f]
      PROVE  Promise!SendNext
  <2>1. PICK c \in Conns : IsAnswered(c) /\ conn'[c].kind = "put" /\ conn'[c].sid = s
                           /\ conn'[c].file = f
    BY <1>1, <1>5 DEF DeliveredByItsSender
  <2>2. /\ request[c].kind = "put" /\ request[c].sid = s /\ request[c].file = f
    BY <1>1, <2>1 DEF TransferInv, ConnInv, AsRequested
  <2>3. request[c].peer \in Devices
    <3>1. conn'[c].peer \in Devices
      BY <2>1 DEF Inductive, DeliveryInv, AnswersInv, RequestsNameIds
    <3>2. QED
      BY <1>1, <2>1, <3>1 DEF TransferInv, ConnInv, AsRequested
  <2>4. <<request[c].peer, s, f>> \in Sent
    BY <2>2 DEF Sent
  <2>5. \A r \in SessionIds, g \in Files : copies'[r][g] # copies[r][g] => r = s /\ g = f
    <3> SUFFICES ASSUME NEW r \in SessionIds, NEW g \in Files, copies'[r][g] # copies[r][g]
                 PROVE  r = s /\ g = f
      OBVIOUS
    <3>1. PICK k \in Conns : IsAnswered(k) /\ conn'[k].sid = r /\ conn'[k].file = g
      BY <1>1 DEF DeliveredByItsSender
    <3>2. k = c
      BY <1>1, <2>1, <3>1 DEF AllTaken, OneAnswered
    <3>3. QED
      BY <2>1, <3>1, <3>2
  <2>6. copies[s][f] = 0 /\ copies'[s][f] = 1
    BY <1>3, <1>5
  <2>7. Arrived' = Arrived \cup {<<s, f>>} /\ <<s, f>> \notin Arrived
    BY <2>5, <2>6 DEF Arrived
  <2>8. Promise!Arrive(s, f)
    BY <1>1, <1>2, <2>3, <2>4, <2>7 DEF Promise!Arrive
  <2>9. QED
    BY <2>8 DEF Promise!SendNext
<1>6. QED
  BY <1>4, <1>5

\* What a step of the sender d alone does to what the contract sees.
LEMMA SeenStep ==
  ASSUME TransferInv, NEW d \in Devices, Moves(d)
  PROVE  /\ [e \in Devices |-> client'[e].files]
              = [[e \in Devices |-> client[e].files] EXCEPT ![d] = client'[d].files]
         /\ [e \in Devices |-> client'[e].result]
              = [[e \in Devices |-> client[e].result] EXCEPT ![d] = client'[d].result]
         /\ [e \in Devices |-> client'[e].sid]
              = [[e \in Devices |-> client[e].sid] EXCEPT ![d] = client'[d].sid]
         /\ Arrived' = Arrived
<1>1. \A e \in Devices \ {d} : client'[e] = client[e]
  BY MoveEffect
<1>2. copies' = copies
  BY DEF Moves, vars, diskVars
<1>3. Arrived' = Arrived
  BY <1>2 DEF Arrived
<1>4. QED
  BY <1>1, <1>3

\* A handler that sends nothing tells how the send ended, or nobody notices.
LEMMA RestsKeepPromise ==
  ASSUME TransferInv, TransferInv', SendInv, SendInv', NEW d \in Devices, Moves(d),
         NEW s, NEW t, Comes(d, s), Rests(d, s, t), s.sid = client[d].sid
  PROVE  Promise!SendNext \/ UNCHANGED Promise!sendVars
<1> DEFINE old == client[d]
           files == [e \in Devices |-> client[e].files]
           result == [e \in Devices |-> client[e].result]
           sid == [e \in Devices |-> client[e].sid]
<1>1. client \in [Devices -> Client] /\ client'[d] = t
  BY DEF TransferInv, TransferTypeOK, Rests, Becomes
<1>2. /\ files' = [files EXCEPT ![d] = t.files] /\ result' = [result EXCEPT ![d] = t.result]
      /\ sid' = [sid EXCEPT ![d] = t.sid] /\ Arrived' = Arrived
  BY <1>1, SeenStep
<1>3. Sent' = Sent
  BY DEF Rests, Sent
<1>4. t.files = old.files /\ t.sid = old.sid
  BY DEF Rests, Comes
<1>5. t.result = old.result \/ (old.result = "none" /\ t.result \in Results \ {"none"})
  BY DEF Rests, Comes, Results
<1>6. files[d] = old.files /\ result[d] = old.result /\ sid[d] = old.sid
  OBVIOUS
<1>7. files' = files /\ sid' = sid
  BY <1>2, <1>4, <1>6
<1>8. CASE t.result = old.result
  <2>1. result' = result
    BY <1>2, <1>6, <1>8
  <2>2. QED
    BY <1>2, <1>3, <1>7, <2>1 DEF Promise!sendVars
<1>9. CASE old.result = "none" /\ t.result \in Results \ {"none"}
  <2>1. Steady(d, t)'
    BY <1>1 DEF TransferInv, ClientInv
  <2>2. t.result \in Promise!Endings
    BY <1>9, <2>1 DEF Steady, Results, Promise!Endings
  <2>3. old.files # {}
    BY DEF SendInv, Comes
  <2>4. ASSUME t.result = "ok", NEW f \in old.files
        PROVE  <<d, old.sid, f>> \in Sent /\ <<old.sid, f>> \in Arrived
    <3>1. f \in t.done /\ t.sid \in SessionIds /\ f \in Files /\ copies'[t.sid][f] = 1
      BY <1>4, <2>1, <2>4 DEF Steady, Client
    <3>2. <<d, t.sid, f>> \in Sent'
      BY <1>1, <3>1 DEF SendInv
    <3>3. <<t.sid, f>> \in Arrived'
      BY <3>1 DEF Arrived
    <3>4. QED
      BY <1>2, <1>3, <1>4, <3>2, <3>3
  <2> HIDE DEF files, result, sid
  <2>5. Promise!Tell(d, t.result)
    BY <1>2, <1>3, <1>6, <1>7, <1>9, <2>3, <2>4
       DEF Promise!Tell, Promise!InProgress, files, result, sid
  <2>6. QED
    BY <2>2, <2>5 DEF Promise!SendNext
<1>10. QED
  BY <1>5, <1>8, <1>9

\* A handler that sends a request joins the session it was given, puts a file
\* into it, or does neither.
LEMMA PostsKeepPromise ==
  ASSUME TransferInv, TypeOK, SendInv, NEW d \in Devices, Moves(d),
         NEW s, NEW t, Comes(d, s), Posts(d, s, t)
  PROVE  Promise!SendNext \/ UNCHANGED Promise!sendVars
<1> DEFINE old == client[d]
           files == [e \in Devices |-> client[e].files]
           result == [e \in Devices |-> client[e].result]
           sid == [e \in Devices |-> client[e].sid]
<1>1. client \in [Devices -> Client] /\ request \in [Conns -> Connection] /\ client'[d] = t
  BY DEF TransferInv, TransferTypeOK, Posts, Becomes
<1>2. /\ files' = [files EXCEPT ![d] = t.files] /\ result' = [result EXCEPT ![d] = t.result]
      /\ sid' = [sid EXCEPT ![d] = t.sid] /\ Arrived' = Arrived
  BY <1>1, SeenStep
<1>3. files[d] = old.files /\ result[d] = old.result /\ sid[d] = old.sid
  OBVIOUS
<1>4. /\ t.files = s.files /\ t.sid = s.sid /\ t.result = s.result
      /\ s.files = old.files /\ old.files # {}
  BY DEF Posts, Comes, SendInv
<1>5. files' = files
  BY <1>2, <1>3, <1>4
<1>6. PICK n \in Conns, r \in Connection :
        /\ IsFresh(n) /\ request' = [request EXCEPT ![n] = r] /\ r.sid = s.sid /\ r.peer = d
        /\ r.kind = "put" => r.file \in s.files /\ s.sid # NoSession /\ s.result = "none"
  BY DEF Posts
<1>7. request[n].kind = "none"
  BY <1>6 DEF IsFresh, NoRequest, Blank
<1>8. Sent' = IF r.kind = "put" THEN Sent \cup {<<d, s.sid, r.file>>} ELSE Sent
  <2>1. request'[n] = r /\ \A c \in Conns \ {n} : request'[c] = request[c]
    BY <1>1, <1>6
  <2>2. ASSUME r.kind = "put" PROVE Sent' = Sent \cup {<<d, s.sid, r.file>>}
    BY <1>6, <1>7, <2>1, <2>2 DEF Sent
  <2>3. ASSUME r.kind # "put" PROVE Sent' = Sent
    BY <1>7, <2>1, <2>3 DEF Sent
  <2>4. QED
    BY <2>2, <2>3
<1> HIDE DEF files, result, sid
<1>9. CASE s.sid # old.sid
  <2>1. /\ old.sid = NoSession /\ s.sid # NoSession
        /\ old.result = "none" /\ s.result = "none"
        /\ old.reply \in Conns /\ Grants(answer[old.reply])
        /\ s.sid = answer[old.reply].sid
    BY <1>9 DEF Comes
  <2>2. Unclaimed(s.sid)
    BY <2>1 DEF SendInv
  <2>3. \A e \in Devices : sid[e] # s.sid
    BY <2>2 DEF Unclaimed, sid
  <2>4. \A x \in Sent : x[2] # s.sid
    BY <2>2 DEF Unclaimed, Sent
  <2>5. s.sid \in SessionIds
    BY <2>1 DEF Comes, TypeOK
  <2>6. result' = result
    BY <1>2, <1>3, <1>4, <2>1 DEF result
  <2>7. UNCHANGED Sent \/ \E f \in files[d] : Sent' = Sent \cup {<<d, s.sid, f>>}
    BY <1>3, <1>4, <1>6, <1>8
  <2>8. Promise!Join(d, s.sid)
    BY <1>2, <1>3, <1>4, <1>5, <2>1, <2>3, <2>4, <2>6, <2>7
       DEF Promise!Join, Promise!InProgress, files, result, sid
  <2>9. QED
    BY <2>5, <2>8 DEF Promise!SendNext
<1>10. CASE s.sid = old.sid
  <2>1. sid' = sid
    BY <1>2, <1>3, <1>4, <1>10 DEF sid
  <2>2. CASE r.kind = "put"
    <3>1. s.result = old.result /\ s.result = "none"
      BY <1>6, <2>2 DEF Comes
    <3>2. result' = result
      BY <1>2, <1>3, <1>4, <3>1 DEF result
    <3>3. r.file \in Files
      BY <1>1, <1>4, <1>6, <2>2 DEF Client
    <3>4. Promise!Put(d, r.file)
      BY <1>2, <1>3, <1>4, <1>5, <1>6, <1>8, <1>10, <2>1, <2>2, <3>1, <3>2
         DEF Promise!Put, Promise!InProgress, files, result, sid
    <3>5. QED
      BY <3>3, <3>4 DEF Promise!SendNext
  <2>3. CASE r.kind # "put" /\ s.result = old.result
    <3>1. result' = result
      BY <1>2, <1>3, <1>4, <2>3 DEF result
    <3>2. QED
      BY <1>2, <1>5, <1>8, <2>1, <2>3, <3>1 DEF Promise!sendVars, files, result, sid
  <2>4. CASE r.kind # "put" /\ old.result = "none" /\ s.result = "cancelled"
    <3>1. Promise!Tell(d, "cancelled")
      BY <1>2, <1>3, <1>4, <1>5, <1>8, <2>1, <2>4
         DEF Promise!Tell, Promise!InProgress, files, result, sid
    <3>2. QED
      BY <3>1 DEF Promise!SendNext, Promise!Endings
  <2>5. QED
    BY <2>2, <2>3, <2>4 DEF Comes
<1>11. QED
  BY <1>9, <1>10

\* Every step of a sender keeps the promises.
LEMMA ClientKeepsPromise ==
  ASSUME TransferInv, TransferInv', TypeOK, SendInv, SendInv', NEW d \in Devices, Moves(d)
  PROVE  Promise!SendNext \/ UNCHANGED Promise!sendVars
<1> DEFINE old == client[d]
           files == [e \in Devices |-> client[e].files]
           result == [e \in Devices |-> client[e].result]
           sid == [e \in Devices |-> client[e].sid]
<1>1. client \in [Devices -> Client]
  BY DEF TransferInv, TransferTypeOK
<1>2. /\ files' = [files EXCEPT ![d] = client'[d].files]
      /\ result' = [result EXCEPT ![d] = client'[d].result]
      /\ sid' = [sid EXCEPT ![d] = client'[d].sid] /\ Arrived' = Arrived
  BY SeenStep
<1>3. files[d] = old.files /\ result[d] = old.result /\ sid[d] = old.sid
  OBVIOUS
<1> HIDE DEF files, result, sid
<1>4. CASE SendBegins(d)
  <2>1. PICK t :
          /\ old.step \in {"idle", "Done"} /\ Becomes(d, t) /\ request' = request
          /\ t.files \in (SUBSET Files) \ {{}} /\ t.result = "none" /\ t.sid = NoSession
    BY <1>4 DEF SendBegins
  <2>2. client'[d] = t
    BY <1>1, <2>1 DEF Becomes
  <2>3. Sent' = Sent
    BY <2>1 DEF Sent
  <2>4. old.files = {} \/ old.result # "none"
    BY <2>1 DEF SendInv
  <2>5. Promise!Ask(d, t.files)
    BY <1>2, <1>3, <2>1, <2>2, <2>3, <2>4 DEF Promise!Ask, files, result, sid
  <2>6. QED
    BY <2>1, <2>5 DEF Promise!SendNext
<1>5. CASE ReadEnds(d)
  <2>1. PICK t : /\ Becomes(d, t) /\ request' = request /\ t.files = old.files
                 /\ t.result = old.result /\ t.sid = old.sid
    BY <1>5 DEF ReadEnds
  <2>2. client'[d] = t
    BY <1>1, <2>1 DEF Becomes
  <2>3. Sent' = Sent
    BY <2>1 DEF Sent
  <2>4. files' = files /\ result' = result /\ sid' = sid
    BY <1>2, <2>1, <2>2 DEF files, result, sid
  <2>5. QED
    BY <1>2, <2>3, <2>4 DEF Promise!sendVars, files, result, sid
<1>6. CASE HandlerRuns(d)
  BY <1>6, RestsKeepPromise, PostsKeepPromise DEF HandlerRuns
<1>7. QED
  BY <1>4, <1>5, <1>6 DEF Moves

\* Every step of sender, network or receiver keeps them.
LEMMA PromiseStep ==
  ASSUME TransferInv, TransferInv', Inductive, Inductive', SendInv,
         [TransferNext]_transferVars
  PROVE  SendInv' /\ [Promise!SendNext]_(Promise!sendVars)
<1>0. TypeOK
  BY DEF Inductive
<1>1. CASE Receive
  BY <1>1, ReceiverKeepsSend, ReceiverKeepsPromise
<1>2. ASSUME NEW d \in Devices, ClientStep(d)
      PROVE  SendInv' /\ [Promise!SendNext]_(Promise!sendVars)
  <2>1. Moves(d)
    BY <1>0, <1>2, ClientMoves
  <2>2. SendInv'
    BY <1>0, <2>1, ClientKeepsSend
  <2>3. QED
    BY <1>0, <2>1, <2>2, ClientKeepsPromise
<1>3. CASE UNCHANGED transferVars
  <2>1. UNCHANGED <<client, request, answer, issued, pendingId, copies>>
    BY <1>3 DEF transferVars, networkVars, vars, pendingVars, diskVars, historyVars
  <2>2. Sent' = Sent /\ Arrived' = Arrived
    BY <2>1 DEF Sent, Arrived
  <2>3. SendInv'
    BY <2>1, <2>2 DEF SendInv, Grants, Unclaimed, NeverStandsStill, Connecting
  <2>4. QED
    BY <2>1, <2>2, <2>3 DEF Promise!sendVars
<1>4. QED
  BY <1>1, <1>2, <1>3 DEF TransferNext

\* Both invariants hold together, and every step is one of the contract's.
LEMMA SendInvHolds == TransferSpec => [](TransferInv /\ Inductive /\ SendInv)
<1>1. TransferSpec => TransferInit /\ [][TransferNext]_transferVars
  BY DEF TransferSpec
<1>2. TransferSpec => []Inductive
  BY ReceiverIsReceiveService, InductiveHolds, PTL
<1>3. TransferInit => SendInv
  BY SendStarts
<1>4. TransferInv /\ TransferInv' /\ Inductive /\ Inductive' /\ SendInv
        /\ [TransferNext]_transferVars => SendInv'
  BY PromiseStep
<1>5. QED
  BY <1>1, <1>2, <1>3, <1>4, TransferInvHolds, PTL

\* Sender, network and receiver together keep the promises of SendContract: what
\* runSend() of cli/main.cpp tells its user of a send is what became of it.
THEOREM SendsAsPromised == TransferSpec => ImplementsSendContract
<1>1. TransferSpec => TransferInit /\ [][TransferNext]_transferVars
  BY DEF TransferSpec
<1>2. TransferInit => Promise!SendInit
  BY SendStarts
<1>3. (TransferInv /\ Inductive /\ SendInv) /\ (TransferInv /\ Inductive /\ SendInv)'
        /\ [TransferNext]_transferVars => [Promise!SendNext]_(Promise!sendVars)
  BY PromiseStep
<1>4. QED
  BY <1>1, <1>2, <1>3, SendInvHolds, PTL DEF ImplementsSendContract, Promise!SendSpec

\* A sender without a result connects or waits for a reply, both of which are
\* timed: the safety half of EverySendReports.
THEOREM SendersKeepGoing == TransferSpec => []NeverStandsStill
<1>1. SendInv => NeverStandsStill
  BY DEF SendInv
<1>2. QED
  BY <1>1, SendInvHolds, PTL
=============================================================================
