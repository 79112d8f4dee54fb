------------------------------ MODULE Transfer ------------------------------
(***************************************************************************)
(* The sender (core/transfer/sendclient.cpp, driven by runSend() of        *)
(* cli/main.cpp, which walks through a peer's addresses with a             *)
(* PeerConnector) composed with the receiver of ReceiveService, over a     *)
(* network that delays and loses requests and answers.                     *)
(*                                                                         *)
(* Every device runs at most one sender at a time.  A request stays on its *)
(* connection until the receiver takes it up, whether or not the sender    *)
(* has given up on it by then: a receiver whose event loop stands still    *)
(* (the command line's does while it asks) reads it out of the socket long *)
(* afterwards.  MaxStarts bounds how often a device calls start(), for     *)
(* another address or for another run of the program.                      *)
(***************************************************************************)
EXTENDS ReceiveService

CONSTANT MaxStarts

ASSUME StartsAssumption == MaxStarts \in Nat

VARIABLES
    client,     \* the SendClient of each device
    request,    \* what was sent on each connection
    answer      \* what was answered on it, as it travels back

networkVars == <<request, answer>>
transferVars == <<vars, client, networkVars>>

NoRequest == Blank("new")

Steps == {"idle", "Preparing", "Uploading", "Completing", "Aborting", "Done"}
Results == {"none", "ok", "unverified", "failed", "cancelled"}

\* device is the file m_device reads, and reader one that QNetworkAccessManager
\* may read once more although its PUT is over.  heard says that the request
\* sent last was answered.
Client ==
    [starts : 0..MaxStarts, step : Steps, sid : SessionIds \cup {NoSession},
     files : SUBSET Files, done : SUBSET Files, reply : Conns \cup {NoConn},
     cancelled : BOOLEAN, contacted : BOOLEAN, heard : BOOLEAN, result : Results,
     device : Files \cup {NoFile}, reader : Files \cup {NoFile}]

\* What start() resets the client to.  A start() that stays in the process
\* destroys the device of the round before, whoever still reads it.
Started(fs, n, reader) ==
    [starts |-> n, step |-> "Preparing", sid |-> NoSession, files |-> fs, done |-> {},
     reply |-> NoConn, cancelled |-> FALSE, contacted |-> FALSE, heard |-> FALSE,
     result |-> "none", device |-> NoFile, reader |-> reader]

-----------------------------------------------------------------------------
(* What the client's handlers share.  s is the client as changed so far.   *)

Becomes(d, s) == client' = [client EXCEPT ![d] = s]

IsFresh(c) == request[c] = NoRequest
NextConn == CHOOSE c \in Conns : IsFresh(c)

\* The reply on c is over: what may still come back on it reaches nobody.
Forget(c) == answer' = [k \in Conns |-> IF k = c THEN NoRequest ELSE answer[k]]

\* makeRequest() and post() or put(): a request of its own connection.
SendRequest(d, s, kind, f) ==
    /\ \E c \in Conns : IsFresh(c)
    /\ Becomes(d, [s EXCEPT !.reply = NextConn, !.heard = FALSE])
    /\ request' = [request EXCEPT ![NextConn] =
                     Request(kind, d, s.sid, f, IF kind = "prepare" THEN s.files ELSE {})]

\* reportResult(): the first result of a start() counts.
ReportResult(d, s, result) ==
    /\ Becomes(d, IF s.result = "none"
                  THEN [s EXCEPT !.step = "Done", !.result = result] ELSE s)
    /\ UNCHANGED request

\* Mutation: runSend() goes on to the next address after every failure.
ReportFailureTriesAnyway(d, s) ==
    \/ ReportResult(d, s, "failed")
    \/ /\ s.result = "none" /\ s.starts < MaxStarts
       /\ Becomes(d, Started(s.files, s.starts + 1, s.reader))
       /\ UNCHANGED request

\* A failure is reported; runSend() takes the next address, if there is one,
\* only as long as no answer has ever come.
ReportFailure(d, s) ==
    \/ ReportResult(d, s, "failed")
    \/ /\ s.result = "none" /\ ~s.contacted /\ s.starts < MaxStarts
       /\ Becomes(d, Started(s.files, s.starts + 1, s.reader))
       /\ UNCHANGED request

\* The abort is over, whatever came of it.
AbortEnds(d, s) ==
    IF s.cancelled THEN ReportResult(d, s, "cancelled") ELSE ReportFailure(d, s)

SendAbort(d, s) == SendRequest(d, [s EXCEPT !.step = "Aborting"], "abort", NoFile)

\* fail(): a receiver that holds a session is told, and the result waits.
Fail(d, s) == IF s.sid # NoSession THEN SendAbort(d, s) ELSE ReportFailure(d, s)

\* sendNextFile(): the next file of the list, or complete.  The file may have
\* changed, or be gone, since prepare.
SendNextFile(d, s) ==
    \/ /\ s.done = s.files
       /\ SendRequest(d, [s EXCEPT !.step = "Completing"], "complete", NoFile)
    \/ LET f == CHOOSE f \in s.files \ s.done : TRUE IN
       /\ s.done # s.files
       /\ \/ SendRequest(d, [s EXCEPT !.step = "Uploading", !.device = f], "put", f)
          \/ Fail(d, s)

-----------------------------------------------------------------------------
(* The client's events                                                     *)

\* runSend(): the program is started, and tries the first address.
Send(d, fs) ==
    /\ client[d].step \in {"idle", "Done"} /\ client[d].starts < MaxStarts
    /\ Becomes(d, Started(fs, client[d].starts + 1, NoFile))
    /\ UNCHANGED <<vars, networkVars>>

Connecting(d) == client[d].step = "Preparing" /\ client[d].reply = NoConn

\* The handshake is done: connected() stops the connector's timer, and the
\* prepare goes out.
Connected(d) ==
    /\ Connecting(d)
    /\ SendRequest(d, client[d], "prepare", NoFile)
    /\ UNCHANGED <<vars, answer>>

\* Refused, not the expected peer, not trusted, or not connected within 3 s:
\* the connector moves on.  start() also fails without a request when a file's
\* size cannot be told.
AttemptFails(d) ==
    /\ Connecting(d)
    /\ ReportFailure(d, client[d])
    /\ UNCHANGED <<vars, answer>>

\* onReplyFinished() without an answer: the connection broke, the request took
\* longer than 45 s (30 s without progress for a PUT), or the pin does not fit.
\* The manager may still read the device of a PUT that it has given up.
ReplyLost(d) ==
    LET s == [client[d] EXCEPT !.reply = NoConn, !.reader =
                IF client[d].step = "Uploading" THEN client[d].device ELSE @] IN
    /\ client[d].reply # NoConn
    /\ IF s.step = "Aborting" THEN AbortEnds(d, s) ELSE Fail(d, s)
    /\ Forget(client[d].reply)
    /\ UNCHANGED vars

\* onReplyFinished() with an answer that is not 200, or not readable.
AnswerRefuses(d, s, a) ==
    /\ a.reply # "Ok"
    /\ Fail(d, s)

\* prepare was answered with a session id.
Prepared(d, s, a) ==
    /\ s.step = "Preparing" /\ a.reply = "Ok"
    /\ SendNextFile(d, [s EXCEPT !.sid = a.sid])

\* A PUT was answered: the next one.
Uploaded(d, s, a) ==
    /\ s.step = "Uploading" /\ a.reply = "Ok"
    /\ SendNextFile(d, [s EXCEPT !.done = @ \cup {s.device}])

\* complete was answered: every byte handed to the socket must be reported.
Completed(d, s, a) ==
    /\ s.step = "Completing" /\ a.reply = "Ok"
    /\ ReportResult(d, s, IF s.files \subseteq a.files THEN "ok" ELSE "unverified")

ReplyArrives(d) ==
    LET a == answer[client[d].reply]
        s == [client[d] EXCEPT !.reply = NoConn, !.heard = TRUE,
                               !.contacted = client[d].step # "Aborting" \/ @] IN
    /\ client[d].reply # NoConn /\ a # NoRequest
    /\ \/ s.step = "Aborting" /\ AbortEnds(d, s)
       \/ /\ s.step # "Aborting"
          /\ AnswerRefuses(d, s, a) \/ Prepared(d, s, a) \/ Uploaded(d, s, a) \/ Completed(d, s, a)
    /\ Forget(client[d].reply)
    /\ UNCHANGED vars

\* Mutation: cancel() leaves a sender alone that is aborting already.
CancelOnce(d) ==
    LET s == [client[d] EXCEPT !.cancelled = TRUE, !.reply = NoConn,
                !.reader = IF client[d].step = "Uploading" THEN client[d].device ELSE @] IN
    /\ client[d].step \notin {"idle", "Done"} /\ client[d].result = "none"
    /\ IF s.sid = NoSession THEN ReportResult(d, s, "cancelled")
       ELSE IF s.step = "Aborting" THEN Becomes(d, s) /\ UNCHANGED request
       ELSE SendAbort(d, s)
    /\ Forget(client[d].reply)
    /\ UNCHANGED vars

\* cancel().  The reply in flight is aborted, and its finished slot runs inside
\* the call: it does nothing, unless it was the reply to an abort, which
\* reports the result before a second abort is sent.
Cancel(d) ==
    LET s == [client[d] EXCEPT !.cancelled = TRUE, !.reply = NoConn,
                !.reader = IF client[d].step = "Uploading" THEN client[d].device ELSE @,
                !.result = IF client[d].step = "Aborting" THEN "cancelled" ELSE @] IN
    /\ client[d].step \notin {"idle", "Done"} /\ client[d].result = "none"
    /\ IF s.sid = NoSession THEN ReportResult(d, s, "cancelled") ELSE SendAbort(d, s)
    /\ Forget(client[d].reply)
    /\ UNCHANGED vars

\* The manager has read for the last time.
ReaderStops(d) ==
    /\ client[d].reader # NoFile
    /\ Becomes(d, [client[d] EXCEPT !.reader = NoFile])
    /\ UNCHANGED <<vars, networkVars>>

-----------------------------------------------------------------------------
(* The receiver's steps                                                    *)

\* A request is taken up as it was sent, and a prepare's body with it.
AsSent ==
    \A c \in Conns :
        /\ IsNew(c) /\ ~IsNew(c)' =>
             /\ ~IsFresh(c)
             /\ conn'[c].kind = request[c].kind /\ conn'[c].peer = request[c].peer
             /\ conn'[c].sid = request[c].sid /\ conn'[c].file = request[c].file
        /\ conn[c].kind = "prepare" /\ conn'[c].files # conn[c].files
             /\ conn'[c].phase # "closed" => conn'[c].files = request[c].files

\* respond(), if anybody still waits for the answer.
AnswersTravel ==
    answer' = [c \in Conns |->
                 IF /\ conn'[c].phase = "answered" /\ conn[c].phase # "answered"
                    /\ \E d \in Devices : client[d].reply = c
                 THEN conn'[c] ELSE answer[c]]

Receive == Next /\ AsSent /\ AnswersTravel /\ UNCHANGED <<client, request>>

-----------------------------------------------------------------------------
TransferInit ==
    /\ Init
    /\ client = [d \in Devices |->
                   [Started({}, 0, NoFile) EXCEPT !.step = "idle"]]
    /\ request = [c \in Conns |-> NoRequest]
    /\ answer = [c \in Conns |-> NoRequest]

ReplyEnds(d) == AttemptFails(d) \/ Connected(d) \/ ReplyLost(d) \/ ReplyArrives(d)

ClientStep(d) ==
    \/ \E fs \in (SUBSET Files) \ {{}} : Send(d, fs)
    \/ ReplyEnds(d)
    \/ Cancel(d) \/ ReaderStops(d)

TransferNext == Receive \/ \E d \in Devices : ClientStep(d)

TransferSpec == TransferInit /\ [][TransferNext]_transferVars

\* A reply finishes: QNetworkAccessManager has a time limit on each request, and
\* the connector a timer on each address.  Nothing is assumed of the receiver.
TransferFairSpec == TransferSpec /\ \A d \in Devices : WF_transferVars(ReplyEnds(d))

-----------------------------------------------------------------------------
(* Properties                                                              *)

\* The types of the variables.
TransferTypeOK ==
    /\ client \in [Devices -> Client]
    /\ request \in [Conns -> Connection]
    /\ answer \in [Conns -> Connection]

\* A sender that reports success is right: every file it was asked to send was
\* renamed into the receive directory exactly once, in the session it used,
\* whatever was lost, sent twice, cancelled or restarted on the way.
OkMeansDelivered ==
    \A d \in Devices : client[d].result = "ok" =>
        /\ client[d].sid # NoSession
        /\ \A f \in client[d].files : copies[client[d].sid][f] = 1

\* The end-to-end check of complete never reports a file as incomplete: when a
\* sender gets as far, the receiver counts everything it was given.
NeverUnverified == \A d \in Devices : client[d].result # "unverified"

\* A sender that has reported leaves no session behind if its last request (the
\* complete, or the abort that fail() and cancel() send) was answered.  Only
\* what the network loses, and a cancel before the answer to prepare, is left
\* to the receiver's TTL.
LeavesNothingBehind ==
    \A d \in Devices :
        client[d].result # "none" /\ client[d].heard /\ client[d].sid # NoSession =>
            session # client[d].sid

\* The device of a PUT outlives the manager's last read of it: destroying it
\* earlier crashed (the comment in onReplyFinished()), and start() does destroy
\* it.  It is never called while an aborted PUT may be read.
DeviceOutlivesReader ==
    \A d \in Devices : client[d].reader # NoFile => client[d].device = client[d].reader

\* Every send comes to a result, whatever the receiver does.
EverySendReports ==
    \A d \in Devices : client[d].step = "Preparing" ~> client[d].result # "none"

\* Sender, network and receiver together keep the promises of SendContract: a
\* send goes into one session of its own, whatever is lost, repeated or late,
\* and its user is told once how it ended, "ok" only of a send that arrived.
Sent ==
    {<<request[c].peer, request[c].sid, request[c].file>> :
       c \in {k \in Conns : request[k].kind = "put"}}
Arrived == {x \in SessionIds \X Files : copies[x[1]][x[2]] > 0}
Promise == INSTANCE SendContract WITH
    asked <- [d \in Devices |-> client[d].files],
    told <- [d \in Devices |-> client[d].result],
    into <- [d \in Devices |-> client[d].sid],
    sent <- Sent,
    arrived <- Arrived
ImplementsSendContract == Promise!SendSpec

\* A sender never just stands there: until it has reported, it is connecting or
\* waits for a reply, and either is over after some time.
NeverStandsStill ==
    \A d \in Devices :
        client[d].result = "none" /\ client[d].step # "idle" =>
            Connecting(d) \/ client[d].reply # NoConn
=============================================================================
