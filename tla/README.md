# LanPipe in TLA+

LanPipe sends files between two machines on a LAN. Each process announces itself
(Avahi, Windows DNS-SD or UDP broadcast), speaks HTTP/1.1 over mutual TLS with
self-signed certificates, pairs with a peer by a short code the two users
compare, and transfers files in sessions of `prepare`, one `upload` per file,
and `complete` or `abort`. Each process has one Qt event loop; every handler
below is a slot that this loop calls, and runs to its end before the next.

This directory holds TLA+ modules that model the program, the TLC configurations
that check them on small instances, and proofs for TLAPS.

| module | models | MC module, runs | proofs |
|--------|--------|-----------------|--------|
| `ReceiveService` | the receiver's four endpoints, timers, session, temporary directories | `MCReceiveService`; `receive_service`, `two_dialogs`, `slot_leak` | `ReceiveServiceProofs` |
| `TransferContract` | abstract: what a receiver promises about its one session | | |
| `Transfer` | the sender, its program and the network, composed with `ReceiveService` | `MCTransfer`; `transfer` | `TransferProofs` |
| `SendContract` | abstract: what a sender promises its user | | |
| `Pairing` | both ends of a pairing and the programs around them | `MCPairing`; `pairing`, `pairing_ghost` | `PairingProofs` |
| `PairingContract` | abstract: what a pairing promises the two users | | |
| `HttpRequest` | the parser of request heads, as far as a body depends on it | | `HttpRequestProofs` |
| `HttpServer` | the server and its connections (uses `HttpRequest`) | `MCHttpServer`; `http_server` | `HttpServerProofs` |
| `ConnectionLife` | abstract: what a handler may rely on in a connection | | |
| `Identity` | key and certificate files, and the programs that load them | | |
| `TrustStore` | paired and blocked devices, in one file and several memories | | |
| `Machine` | the programs of one user over `Identity` and `TrustStore` | `MCMachine`; `machine` | `MachineProofs` |
| `Discovery` | a peer's announcements, the list of peers, the search for a peer, in time | `MCDiscovery`; `discovery`, `departed_windows` | `DiscoveryProofs` |
| `WinDnsSd` | the lifetimes in the Windows backend, which the system calls from its threads | `MCWinDnsSd`; `windnssd`, `instance_freed` | `WinDnsSdProofs` |

`PROJECT.json` lists components, runs, mutations, findings, hazards and
theorems, and the source lines of every definition. Definitions marked
*Mutation* are slips that a change to the code could make. They are used nowhere
in the specifications; each is listed with the property that must break when it
takes the place of the definition it varies.

## 1. Inventory

### Transfer

**ReceiveService** (`core/transfer/receiveservice.*`). State: the prepare that
waits for the user (`m_pendingApproval`, `m_pendingSessionId`,
`m_approvalTimer`), the one session (`m_session`, `m_sessionTtl`), the PUT in
flight (`m_upload`, `m_uploadSink`, `m_uploadWritten`), the sweep timer.
Operations: `handlePrepare`/`onPrepareBody`, `handleUpload`/`commitUpload`,
`handleComplete`, `handleAbort`, `submitApproval`, `submitBlock`,
`cancelActive`, three timers, and the `finished` signal of each connection.
Hard: the slot is checked in one event and taken in another; a PUT stops a timer
that every way of ending it has to start again; teardown aborts a connection
whose slots run inside the call; cancellations are queued; directories outlive
the process. Correct when there is one session or one dialog at a time, the slot
always comes free, files are renamed into place at most once, reports are true,
and no directory in use is swept while none is left without an owner.

**ReceiveSession** (`receivesession.*`). State: a file list with one status
each, the temporary directory. Operations: `openFile`, `commitFile`,
`discardFile`, `report`, `discardTempData`, `sweepStale`. Owned and called by
ReceiveService.

**LocalFileSink, LocalFileSource, recvdir, atomicwrite** (`core/files/`). A sink
writes `.part`, and a commit picks a free name and renames. `atomicwrite` writes
a temporary file, syncs it and renames. Hard: a crash between two renames,
another process that takes the name.

**SendClient** (`sendclient.*`). State: the step it is at, the session id, the
list of files and the index in it, the reply it waits for, the device it reads
from, a generation per `start()`. Sends prepare, PUTs, complete; sends abort
when it fails or is cancelled. It sends no file twice: what is tried again is
the whole transfer, with the next address of the peer, and only as long as no
answer has come. Hard: late replies of an earlier start, a cancel before the
answer to prepare, timeouts racing the receiver's, a device that the network
manager still reads. Correct when what it reports is what the receiver has on
disk, it always reports, and it leaves no session behind that it could have
aborted.

### Pairing and trust

**PingService, PingClient, PeerPin** (`ping.*`, `pingclient.*`,
`peerpinning.*`). The two ends of a pairing: each side shows the code, each user
confirms, each side saves the other. Hard: one side may save and the other not;
both time out independently; one pairing at a time. Correct when nobody saves a
device whose own code was not confirmed, the sender never holds a pairing the
receiver lacks, and both programs come to an end.

**TrustStore** (`core/trust/truststore.*`). Trusted and blocked devices in one
JSON file shared by processes; every change reloads or not, then writes the
whole file. Hard: lost updates, roll back of a failed save. Correct when a
program that has read the latest file decides by what is in it, and no entry is
lost but to a program that had not.

**Receive policy and prompt limiter** (`policy.*`). Whether a prepare is
refused, accepted or asked about; three prompts per minute and device.

**Identity, mTLS, SAS, random** (`core/identity.*`, `mtls.*`, `sas.*`). Key and
certificate files, the derivation of the code. `loadOrCreate()` holds no lock.
Hard: a crash between the two files, two first starts at once, a renewal.
Correct when a running program can prove its fingerprint and the two files
belong together.

### Network

**HttpServer, HttpConnection** (`core/http/`). A limit of eight connections; per
connection a head, a body into a buffer or a device, one answer, an idle timer
that an approval pauses, `finished` exactly once. Hard: handshakes under way
when the limit is reached; a body that fails inside its own sink's write.
Correct when a body is handed over exactly as declared, a connection is answered
once, connections are bounded and each of them ends.

**HTTP text, transfer wire format, sanitizer**. Parsing, printing and rewriting
of strings. `Content-Length` is accumulated with an overflow guard.

**PeerDirectory, PeerConnector, discovery backends** (`core/discovery/`). Peers
by id with a last-seen time and a 10 s expiry; addresses tried one after the
other. The Windows backend gets callbacks from a thread pool. Correct when a
live peer stays listed and a departed one goes, a search ends, and no callback
finds its object destroyed.

### Front end

**Command line** (`cli/main.cpp`), **Settings**. The command line answers an
approval inside the signal, while the event loop stands still; Ctrl-C cancels
the session.

### How they interact

`HttpServer` accepts a socket, `HttpConnection` parses a head and emits it;
`PingService` and `ReceiveService` are handlers for paths. A handler answers at
once or asks the connection to read a body and gets its completion in a later
event. `ReceiveService` asks `TrustStore` and the policy, emits
`approvalRequired`, and gets the answer through `submitApproval` or
`submitBlock`. It writes through `LocalFileSink` into a directory
`ReceiveSession` owns. `SendClient` and `PingClient` are the peers at the other
end of the network, and use `PeerConnector` and `PeerPin`.

## 2. Plan

1. `ReceiveService` and `TransferContract`: the part with the most state, and
   the one a user's files depend on.
2. `Transfer`: the sender against that receiver, over a network that loses and
   delays. What the sender believes against what is on the receiver's disk.
   `SendContract` is what remains of both for the one who sends.
3. `Pairing`, with a front end that blocks the event loop and one that does not,
   and `PairingContract`, what remains of it for the two users.
4. `HttpRequest`, `HttpServer` and `ConnectionLife`: the last is what
   `ReceiveService` takes for granted, stated once and shown from both sides.
5. `Identity`, `TrustStore` and `Machine`: files shared by programs that crash.
6. `Discovery` with time, and `WinDnsSd` with threads.
7. For each of these the type invariant and the safety properties as theorems,
   then the refinements, then the safety half of each liveness property.

All of this is done. How the modules compose: `Transfer` EXTENDS
`ReceiveService`, whose every step is a step of the composition; `Machine`
EXTENDS `TrustStore` and takes `Identity` as an instance. There are four
abstract specifications. Above, `ReceiveService` implements `TransferContract`,
`Transfer` implements `SendContract`, and `Pairing` implements
`PairingContract`. Below, `ReceiveService` and `Pairing` keep to
`ConnectionLife`, which `HttpServer` implements. All six refinements are
theorems. What is left, and why, is in section 11.

## 3. ReceiveService

### State

| variable | code |
|----------|------|
| `conn[c]` | one `HttpConnection` and the request on it: its phase, what the request names, the answer given. `files` stands for `m_pendingRequest`/`m_pendingEntries` in a prepare, and for the report in the answer to a complete |
| `pending`, `pendingId`, `approvalTimer` | `m_pendingApproval`, `m_pendingSessionId`, `m_approvalTimer` |
| `session`, `sender`, `entry`, `ttl` | `m_session` (id, peer, statuses), `m_sessionTtl` |
| `upload`, `written` | `m_upload`, `m_uploadWritten`; sink and device live exactly as long |
| `cancels` | the ids captured by the calls `cancelActive()` has queued |
| `blocked` | the black list in the memory of this process's trust store |
| `tempDirs`, `stale` | `.lanpipe-tmp/<id>` directories, and those of them old enough for the sweep |
| `copies` | how often a file of a session was renamed into the receive directory |
| `issued`, `lost` | history: ids drawn, and ids whose directory nobody is going to remove |

### Actions

One action is one event with every slot it runs. `HandlePrepare` is the head of
a prepare; `PrepareMalformed`, `PrepareRefused`, `PrepareTurnedAway`,
`PrepareAsksUser` and `PrepareAccepted` are the ways its body ends.
`UserAccepts`, `UserRejects`, `UserBlocks` and `CancelActive` are the user's
clicks, `ApprovalTimeout` and `SessionExpires` the timers. `UploadRefused`,
`UploadSinkFails` and `UploadStarts` are what a PUT's head leads to,
`UploadProgress`, `UploadLastPiece` and `UploadWriteFails` what its body does.
`PeerGone` and `IdleOrFlushed` close a connection and run the `finished` slots
connected to it. `DirAges`, `Sweep` and `Restart` concern the disk and the
process.

Choices made while translating:

- Connections carry `Connection: close`, so each member of `Conns` is one
  request, and its phase never goes back. What a closed connection carried is
  forgotten: the code has deleted the object.
- The first guards of a prepare (changed identity, names that cannot be
  sanitised, free space, `mkpath`) depend on data the model does not have: each
  is a refusal that may happen. What the policy and the limiter answer is
  likewise open, but for a blocked device, which is never asked about.
- The trust store is reloaded with each prepare, and another process may have
  written any black list by then.
- A size that differs at the end of a body, and a missing sink, are branches of
  `commitUpload()` that cannot be reached, because `readBody()` delivers exactly
  the declared length; they are left out. The teardown at the top of
  `acceptRequest()`, which the code calls theoretically unreachable, is *not*
  left out: `PendingExcludesSession` shows that it never finds anything.
- A body of no bytes is complete before `readBody()` returns, so such a file is
  committed in the step that takes it on.
- When a write fails, the answer is sent, and `m_upload` is kept until the
  connection has finished. Requests may arrive in between.
- `BlockingInput` chooses the front end. The command line reads the answer
  inside the slot of `approvalRequired` (`main.cpp:452-477`), so while a prepare
  waits the event loop stands still (`Running`): only the user, the disk and the
  end of the process go on. The tests, and the graphical front end that is
  planned, answer later.
- Removing a directory tree is one step; whether an error leaves a part of it is
  not modelled. Requests with a wrong method or path are answered and change
  nothing; they are left out, and so is the text of HTTP and JSON.
- A directory's age is a flag: `DirAges` sets it for any directory whose owner
  may leave it alone for 24 hours, which excludes a prepare that waits with the
  loop running (30 s) and a session whose TTL runs (5 min), but not a session
  whose PUT is in progress: writing into `.part` does not renew the directory.

### Properties

Safety: `PendingExcludesSession`, `PendingIsLive`, `UploadBelongs`,
`TtlOnlyWhenIdle`, `LiveDirsKept`, `TempDirsAccounted`, `DeliveredOnce`,
`ReportIsFinal`. On steps: `SessionEndsForACause`, and `UntendedByCommit`: an
active session has its TTL or a PUT in flight (`Tended`), and the only step that
takes both from it is a commit that fails. Refinement: `KeepsToConnectionLife`
(section 6), and `ImplementsContract`, the refinement mapping being that `open`
is `m_session`, `promised` its entries, and `delivered` the files renamed into
the receive directory.

Liveness. `TendedSlotComesFree`: a session ends, or a failed commit has left it
untended, which `UntendedByCommit` says is the only way out; `SlotComesFree`,
without the way out, is what finding 2 refutes. `ApprovalIsBounded` holds *for a
front end that answers later only*. On the command line the approval window's
timer cannot fire while the user is asked, and the wait has no upper bound, as
`docs/handover.md:46-50` says itself; the model with `BlockingInput` TRUE has
those behaviours.

Four more are not checked by a run but proved (section 10): `TypeOK`; `Tended`
where nothing fails in the receive directory; `DeliveriesAreTheSenders`: a file
is renamed into place only in the step that answers a PUT with 200, a PUT of the
active session by the device that opened it; and `OneDialogIfBlocking`: with the
command line's front end no second prepare waits, so finding 1 takes another.

One sentence of `handover.md:49-50` the model does not bear out: a session that
is accepted after its peer has gone is said to be taken down by `finished` at
once. The slot at `receiveservice.cpp:231-235` looks at the pending prepare
only, and accepting has cleared that; the session goes with its TTL.

### Runs

| run | instance | shows |
|-----|----------|-------|
| `receive_service` | 3 requests, 2 devices, 2 ids, 2 files, faults, answers come later, fairness | the safety invariants, the action properties, both refinements, the liveness (278 000 states) |
| `two_dialogs` | 2 requests, answers come later | finding 1 |
| `slot_leak` | 2 requests, faults, the command line's front end, fairness | finding 2 |

Bounds. `Conns` bounds the requests of a behaviour, `SessionIds` the sessions.
Three requests let a session be opened and two more meet it, of another device,
of the same, a PUT and the complete that overtakes it, or a PUT that broke and
the same again; or two prepares and a PUT. One file arrives in one piece and the
other in two, so that there is a state in the middle of a body and one where the
file is done without it. Two ids are enough for a request about an earlier
session, and for a cancellation left over from it. Two devices are the owner and
another. A restart keeps connections that have not been used, so behaviours go
on after it. No counter is unbounded: `written` stays below a file's size, and
`copies` grows only with a request. Deadlock is checked, which says little here,
because the sweep is always enabled: what has to happen is stated as liveness.

Symmetry. TLC's symmetry reduction is not sound for liveness, so
`MCReceiveService` reduces by hand: requests and session ids are numbers and are
used in order, the first request is `d1`'s, and no device is on the black list.
The specification only compares connections, ids and devices, so every behaviour
is a renaming of one that keeps this order (`Canonical`), and a renaming changes
no property. A black list does nothing but refuse a prepare, which the prompt
limiter may refuse as well, blocking answers the request as rejecting does, and
no property reads the list.

Fairness. `LoopFairness` is weak fairness of one action, `Running /\ LoopDue`:
while the event loop runs, it does not stand still for good when a timer is up
or a call is queued (`ApprovalTimeout`, `SessionExpires`, `IdleOrFlushed(c)`,
`RunCancel(sid)`). Which of them it serves is left open; each of them uses up
what made it due, so a bounded behaviour reaches all. Nothing is assumed of
peers or the user, who may stop at any time. A peer that keeps sending bytes for
ever cannot be expressed: a body has a length.

### Findings

1. *Two dialogs at once* (`two_dialogs`). `handlePrepare()` refuses a second
   prepare while one waits, but at that time only the head has arrived.
   `onPrepareBody()` does not look again, so of two prepares whose bodies come
   after both heads, both ask the user. The second takes the slot, the first
   connection stays open with its idle timer paused and nobody to answer it, and
   its directory stays until a sweep. It takes a front end that answers later;
   the command line answers inside the signal.
2. *The slot leaks* (`slot_leak`). `handleUpload()` stops the session's TTL, and
   when the final rename fails, `commitUpload()` does not start it again. If the
   sender then goes away, the session stays until the process ends.
   `UntendedByCommit` says that this is the only hole of its kind: no refused or
   broken PUT, no failing write and no earlier session leaves a session without
   a timer.

`TempDirsAccounted` counts the directory of finding 1 among those in `lost`.

## 4. Transfer

`Transfer` EXTENDS `ReceiveService` and adds one `SendClient` per device with
the program around it (`runSend()`, `PeerConnector`), and the network between.

| variable | code |
|----------|------|
| `client[d]` | `m_step` and `m_phase` as one `step`; `sid`; `files` and `done`, the list and the part of it that was answered; `reply`, the connection of `m_reply`; `device`, the file behind `m_device`, and `reader`, one that the network manager may still read; `cancelled`, `contacted` (an answer has come, of any request but an abort), `heard` (the last request was answered), `result`, and the number of `start()`s |
| `request[c]` | what was sent on connection `c` |
| `answer[c]` | the answer as it travels back, as long as somebody waits for it |

`Send` starts the program; `Connected` and `AttemptFails` are what the connector
and the pin make of an address; `ReplyArrives` and `ReplyLost` are
`onReplyFinished()` with an answer and without; `Cancel` is `cancel()`, with the
`finished` slot that runs inside its call of `abort()`; `ReaderStops` is the
manager's last read. Helpers carry the names of the code (`SendNextFile`,
`SendAbort`, `ReportResult`, `Fail`), `ReportFailure` being `finished` as
`runSend()` takes it: the next address, if no answer ever came. `Receive` is a
step of `ReceiveService` in which a request that is taken up is one that was
sent (`AsSent`), and an answer goes back (`AnswersTravel`).

Faults: an attempt that fails; a request that is lost, taken up after its sender
has given up, or not at all; an answer that is lost or late; a cancel at any
moment; a receiver that crashes; a receive directory in which renames fail
(`DirFaults`).

Properties. `OkMeansDelivered`: a sender that says "ok" has had every file
renamed into place exactly once, in its own session. `LeavesNothingBehind`: a
sender that ends with its last request answered has no session at the receiver.
`DeviceOutlivesReader`: the order of deletion that the comment in
`onReplyFinished()` asks for, which `start()` does not keep by itself.
`EverySendReports`: liveness. Two are proved and not checked by a run.
`NeverUnverified`: the check of `complete` against the bytes sent never finds a
file missing. That is not a defect of the check: it says that an honest receiver
as modelled here gives it no work. `NeverStandsStill`: a sender that has not
reported is connecting or waits for a reply, so the two timeouts reach it in
every state.

`ImplementsSendContract` is the refinement of `SendContract`, which knows
nothing of addresses, requests, timers and prompts. A send is asked for, joins
one session that no one else has joined or put files into, puts files into it,
files put there arrive at most once each, and the user is told once how it
ended: "ok" only if every file was put into the session and has arrived. The
mapping: `asked`, `told` and `into` are the list, the result and the session id
of the client; `sent` is the PUTs among `request`; `arrived` the files renamed
into the receive directory. A PUT that is still in the network when its sender
gives up may arrive after the sender has reported, which is why `Arrive` does
not ask whether the send is in progress.

Run `transfer`: 5 requests, one device, one file in two pieces, one id, two
starts, 126 000 states. Five requests are a whole transfer with one abort, or
two attempts of which the first dies; one file is enough for PUT, failure and
commit, and two starts for an address that fails and one that works. Two files
in one send are beyond TLC here; `receive_service` has them on the receiver's
side, and `TransferProofs` any number on both. One session id, because with two
a sender can be left connecting when the last request has been used, which is
the bound's doing and not the program's. Deadlock is checked. Fairness:
`ReplyEnds(d)`, since `QNetworkAccessManager` has a limit on every request and
the connector a timer on every address. Nothing is assumed of the receiver:
`EverySendReports` holds even if it never answers.

## 5. Pairing

| variable | code |
|----------|------|
| `ping[c]` | one connection to `PingService` and the ping on it |
| `pending`, `code`, `named`, `inputTimer` | `m_pending`, `m_code`, `m_peerDeviceId`, `m_inputTimer`. A code is identified with the ping whose nonce it was derived from |
| `trusted`, `blocked` | the receiver's trust store |
| `gone` | connections whose peer has hung up, noticed or not |
| `client[d]` | the `PingClient` and `runPair()` of each device |
| `confirmed`, `ghosts` | history: pings whose code was typed, and pings saved when their peer had gone |

`HandlePing`, `PingRefused`, `PingAsks`, `SubmitInput`, `InputTimeout`,
`PeerGone` and `IdleOrFlushed` are the receiver's slots, `Pair` to `ClientTypes`
the sender's. `BlockingInput` chooses the front end. The command line reads a
line inside the slot of `inputRequired`, so while a pairing waits the event loop
does nothing (`Running`); the tests, and a graphical front end, answer later.

Properties. `SavedWasConfirmed` and `PendingIsConsistent` are about a slot that
is checked with the head and taken with the body: the second of two pings that
overlap takes it over, and it must take over all of it. `PairingIsBounded`,
`EveryPairEnds`: liveness.

`ImplementsPairingContract` is the refinement of `PairingContract`. There a ping
has one sender; the receiver's user types its code at most once, which saves the
sender and grants the ping, both or neither; and a device saves the receiver
only by a ping of its own that was granted. The mapping: `from` is who made a
ping, `typed` the history `confirmed`, `saved` the receiver's trust store,
`granted` the pings answered with 200, `paired` the connection of a client that
has paired. So every overlap, timeout, lost answer and restart comes down to
those few steps. It implies `SenderSavesSecond` (the sender never holds a
pairing the receiver has not saved), which is proved too and no longer checked
by a run of its own.

Two are proved only. `KeepsToConnectionLife`: PingService asks no more of a
connection than `HttpServer` keeps (section 6). `OneDialogIfBlocking`: with the
command line's front end two dialogs of pairing never exist at once, because no
second body is delivered while the first dialog is open. It is `BlockingInput`
that does this, not the check of the slot: without it two pings that overlap
both wait, and the slot holds the second.

Run `pairing`: two connections, two devices with two tries, a front end that
answers later; 165 000 states. Two pings are the fewest that overlap; two
devices make the one that is saved distinguishable; two tries are a failed
address and a good one. Fairness: the receiver's window, and on the sender's
side the connector's timer and the limit on a request. No user is assumed to
type.

Finding 3, *a ghost pairing* (`pairing_ghost`, `BlockingInput` TRUE).
`main.cpp:406-407` says that a peer which gives up voids the pairing through the
connection's `finished`, so that no record stays of a peer long gone. With the
command line no event can be delivered while the user types: the `finished`
comes after `submitInput()` has saved the peer. The receiver then trusts a
device that does not trust it. Pairing again repairs it.

Two pairings that wait at once are the same slip as finding 1 (the first is
never answered and its idle timer stays paused); the second takes the slot as a
whole, so neither property above is broken by it.

## 6. HTTP

`HttpRequest` translates `parseRequestHead()` as far as the body depends on it:
which heads are incomplete, refused, or complete with a length. `ParseLength` is
the loop over the digits of `Content-Length` with its test before each
multiplication, in base `Base` and a word up to `MaxWord`; `Meant` is the number
as the peer wrote it.

`HttpServer` has one variable, `conn[c]`: the socket in `QSslServer` and then
the `HttpConnection` on it (`m_state`, `m_buffer`, `m_remaining`, `m_bodySink`,
`m_pendingFailure`, `m_idlePaused`, the idle timer). A connection reads one head
and one body; bytes are counted in units. A call of a sink is cut out of the
event that makes it (`running`), since what the sink does to its connection
meanwhile (`failBody()`) is the point; no other event runs until it returns
(`Loop`). `SinkTakes`, `SinkFails` and `SinkStops` are what it does;
`HeadArrives`, `BodyArrives` and `Pump` are `parseHead()`, `onReadyRead()` and
`pumpBody()`; `Incoming`, `Accept` and `HandshakeFails` are the server.

Properties. `BodyIsExact`, `LengthIsExact`, `NothingLeftInBuffer`,
`SinkOutlivesItsCall`, `EveryConnectionEnds`.

`protocol.h:218-220` calls `kMaxConnections`, 8, the most connections the
listening socket allows at once. The code does not keep to it:
`incomingConnection()` compares the established connections with the limit, Qt
compares the handshakes with it, and `acceptPending()` compares nothing, so with
seven established and eight in their handshake there may be fifteen next. What
does hold, for every limit, is `2 * MaxConnections - 1` (`BoundedConnections`,
proved as `ConnectionsAreBounded`); it is no substitute for the documented
limit, and no run claims it. The test opens its ninth connection when eight are
established, and does not meet this.

`ConnectionLife` is the interface: a connection is answered at most once, waits
for a user at most once and before that, and never comes back. `ImplementsLife`
is the side of the server; `KeepsToConnectionLife` is stated by each of the two
handlers, `ReceiveService` and `Pairing`. All three are theorems. So the
assumption under which the handlers model their connections is discharged.

`LengthIsExact` is about the overflow guard, and is proved for words of every
width. Proved only: `TimedUnlessWaiting`, the idle timer runs on every
established connection except exactly while its handler waits for the user.

Run `http_server`: four sockets, a limit of two, bodies of up to two units,
every value of `Content-Length` of up to two characters in base 2 with a word up
to 2 (so that `11` overflows it), and each way of not being a request; 142 000
states. Four sockets fill the limit twice over. The peer may send more than it
declared. `CHECK_DEADLOCK FALSE`: a server all of whose sockets have been used
stops, since there are only `Conns`. Fairness: the idle timer and the
handshake's timeout fire, and a sink returns. The idle timer starts again with
every byte, and the bytes of a peer are bounded by `MaxUnits`; a peer that
trickles bytes for ever is excluded by that bound.

## 7. Machine: Identity and TrustStore

`Identity` is `loadOrCreate()` cut at each access to a file: `CheckFiles`,
`ReadKey` or `GenerateKey` and `WriteKey`, `ReadCertificate`,
`IssueCertificate`, `Verify`. A certificate is the key it was issued for and
whether it is about to expire. A file is replaced as a whole (`atomicwrite.cpp`,
`QSaveFile`), so a crash is `Leave` at any step. `overlapped` is history: a
start has overwritten a key it had not seen.

`TrustStore` is the file (`disk`), the lists in each program (`lists`), the
programs that have it `opened`, and `current`, history: who has read or written
the file since it was last written. Every change is one action, with the save
that succeeds or the roll back of one that fails.

`Machine` runs both for several programs of one user. A program loads the
identity and then opens the store; `block`, `unblock` and the listing commands
open the store alone. Any of them may end at any step. The user may delete
files, as the messages of failed starts advise, while nothing is starting.

Properties. `RunsWithItsOwnCertificate`, `OnlyFirstStartsTear`: the one way to a
key and a certificate of different identities is two first starts at once, which
nothing repairs. A curiosity of the same code: an expired certificate beside a
foreign key is reissued for that key without a word, because `identity.cpp:320`
comes before the comparison at `:350`. `CurrentListsAreTheFile`: the roll back
restores what was there. `EntriesAreLostOnlyToStaleWriters`: later writers win,
with no lock; `reload()` before a change narrows the window and does not close
it. Proved only: `OnlyFirstStartsFail`, a start fails because its key and its
certificate do not belong together only where two first starts have overlapped;
among renewals, crashes and other starts it reads two files that fit.

Run `machine`: two programs, three keys, two devices, 44 000 states with
symmetry. Two programs are the fewest that overlap; keys that nothing refers to
are generated again, and with four or five keys TLC finds the same states up to
symmetry, so three are all that can be referred to at once. Three programs with
one device and four keys give nothing new (141 000 states). There is no
fairness: the properties are about what files may become.

## 8. Discovery

`Discovery` follows one peer (the directory treats each by itself), in units of
half a second: its broadcasts (`up`, `next`, `losses`), what a DNS-SD backend
has resolved (`resolved`, `refreshIn`), the directory (`known`, `age`,
`sweepIn`), and the search of `send` and `pair` (`lookup`, `toTry`, `timer`),
that is the deadline, then `PeerConnector` over the addresses. `Tick` passes
time only when no timer is due. `backend` is the one `startDiscovery()` has
chosen: `broadcast`, `avahi` or `windnssd`. With Avahi an entry is assumed to
stay as long as the peer runs.

`OnlySilencePrunes` is about a peer that runs and has been heard of: it leaves
the list only with broadcasts, and only when `(losses + 1) * (Interval +
Jitter)` is more than the expiry. The run has the constants of `protocol.h`
(`Interval` 4, `Jitter` 1, `RefreshEvery` 4, `Expiry` 20) and up to four losses
in a row, so that pruning does happen in it. The comment at `protocol.h:62-63`
says that the expiry tolerates four losses. It does not: four lost broadcasts
and the one that arrives may be `(4 + 1) * 5 = 25` half seconds apart, because
each may be late by its jitter, which the comment does not count. Three are
tolerated, `(3 + 1) * 5 = 20`.

`DepartedPeerLeaves` holds for broadcasts and for Avahi. For the Windows backend
it does not (finding 4). That backend is otherwise Avahi without `ItemRemove`:
its behaviours are among Avahi's but for what fairness demands, so what
`discovery` shows of safety holds for it too. `LookupEnds`: a search ends, with
a connection or with the program. `PeerAdded` hands over one address: the
connector gets what is known when the peer is added, which is the first
announcement (`main.cpp:663-680`, `:973-992`), and addresses heard of later are
never tried, although `peerconnector.h:5-7` speaks of trying one after the other
and the message at the end of the address list.

Finding 4, *a departed peer that stays* (`departed_windows`).
`TECHNICAL_ROUTE.md:275-278`, and `windnssddiscovery.cpp:415-416` with it, say
that the refresh makes "not heard for `kPeerExpiry` means gone" mean the same
for both DNS-SD and broadcasts. Nothing takes an instance out of the Windows
backend's `m_resolved` before `stop()`, and `refresh()` gives each a new time
and announces it every two seconds. A peer that has gone stays listed until the
program ends.

Proved only, the safety half of both: `ListedIsFresh`, a peer nobody has
announced is gone with the first sweep after its expiry, whatever the backend;
and `SearchIsBounded`, the time a search has left goes down with every tick, no
announcement puts it up, and a search that is over does not begin again.

Run `discovery`: broadcasts and Avahi, two addresses, 273 000 states. Two
addresses are one that is known and one that is heard of later. `CHECK_DEADLOCK
FALSE`: the program ends when a search fails. Fairness: time goes on, timers
that are due run, and Avahi reports a service that has gone. `Tick` needs strong
fairness, as the peer may start and stop without end.

## 9. WinDnsSd

The Windows backend asks the system for a registration, a browse and
resolutions; the system answers on threads of its pool, before, during or after
a cancel. Each request has a `context` that is never freed and names the object
under a lock. `Enter` and `Post` are a callback that has taken the lock and seen
the owner, and what it posts; `Dispatch` is the event loop with the slots it
runs; `Destroy`, `ForgetOwner(c)` and `Destroyed` are the destructor, one lock
at a time. `instance` is the registered service, `apiHolds` what the
system was asked to do with it, to register or to deregister it, and has not
confirmed.

`OwnerOutlivesItsUse`: no callback posts to an object that is gone.
`InstanceOutlivesRegistration`: the instance is not freed while its registration
is under way, the case the comment in `stop()` is about. A price of that: an
instance whose registration fails at once, or is not confirmed before `stop()`,
is never freed.

Finding 5, *the instance is freed in use* (`instance_freed`). `stop()` calls
`DnsServiceDeRegister()` with the same request, which holds the same instance
and will call `onRegisterComplete()` again, and frees the instance in the next
statement. `InstanceOutlivesTheApi`, that a freed instance is in nobody's hands,
is what `windnssddiscovery.h:151-158` and `docs/handover.md:154-156` say of
everything given to that API; it fails when a backend whose registration was
confirmed is stopped.

Run `windnssd`: four contexts (a registration, a browse, two resolutions), two
peers, three posted events, 135 000 states with symmetry. Three events are a
registration that failed (two) and one more. `CHECK_DEADLOCK FALSE`: everything
stops when the object is gone and the callbacks are over. No fairness: nothing
is promised of the system.

## 10. Proofs

Eight modules hold theorems, each over any values of the constants, from the
named assumptions of the module it is about. Every safety invariant, action
property and refinement that a run checks is a theorem. Those in italics no run
checks.

| module | theorems about |
|--------|----------------|
| `ReceiveServiceProofs` | the six safety invariants of `receive_service`, `DeliveredOnce`, `ReportIsFinal`, `SessionEndsForACause`, `UntendedByCommit`, `ImplementsContract`, `KeepsToConnectionLife`; *`TypeOK`, `DeliveriesAreTheSenders`, `Tended`, `OneDialogIfBlocking`* |
| `TransferProofs` | `OkMeansDelivered`, `LeavesNothingBehind`, `DeviceOutlivesReader`, `ImplementsSendContract`; *`NeverUnverified`, `NeverStandsStill`* |
| `PairingProofs` | `SavedWasConfirmed`, `PendingIsConsistent`, `ImplementsPairingContract`; *`TypeOK`, `SenderSavesSecond`, `KeepsToConnectionLife`, `OneDialogIfBlocking`* |
| `HttpRequestProofs` | *`ParseLengthIsExact`: the parser of lengths against what it stands for* |
| `HttpServerProofs` | `BodyIsExact`, `LengthIsExact`, `NothingLeftInBuffer`, `SinkOutlivesItsCall`, `ImplementsLife`; *`TypeOK`, `TimedUnlessWaiting`, `BoundedConnections`* |
| `MachineProofs` | all four of `machine`; *the types, `OnlyFirstStartsFail`* |
| `DiscoveryProofs` | `OnlySilencePrunes`; *`ListedIsFresh`, `SearchIsBounded`* |
| `WinDnsSdProofs` | `OwnerOutlivesItsUse`, `InstanceOutlivesRegistration`; *`TypeOK`, `StoppedKnowsNobody`* |

A liveness property cannot be proved here, but what it rests on can: that in
every reachable state something timed is under way, or that each step brings
the end closer. The runs then show, on small instances and with fairness, that
this is enough.

| liveness (TLC) | its safety half (TLAPS, all instances) |
|----------------|-----------------------------------------|
| `TendedSlotComesFree` | `OnlyCommitsUntend`; `AlwaysTended`, where nothing fails in the receive directory |
| `ApprovalIsBounded` | `OneSlot` (`PendingIsLive`: a waiting prepare has its timer) |
| `EverySendReports` | `SendersKeepGoing` |
| `PairingIsBounded` | `SlotIsConsistent` (a waiting pairing has its timer) |
| `EveryConnectionEnds` | `ConnectionsAreTimed` |
| `DepartedPeerLeaves` | `SilentPeersLeave` |
| `LookupEnds` | `SearchesAreBounded` |

### ReceiveService

From `SizeAssumption`, `FaultAssumption`, `InputAssumption` and `NullAssumption`
(a size is a natural number, `DirFaults` and `BlockingInput` are Booleans, and
the four null values are not values). No safety property of the runs is
inductive by itself. `Inductive` is `TypeOK /\ SlotInv /\ UploadInv /\
DeliveryInv`, where four parts are there only to carry the others:

- `IdsDrawn`: ids in use were drawn and are not lost, and a waiting prepare's
  directory is old only where its timer cannot fire. Without it a fresh id could
  be the one in use, and the sweep could take the directory of a waiting
  prepare.
- `NothingWithoutSession`: no session, no entries, no sender, no upload. Without
  it a new session could begin with an upload.
- `CopiesMatch`: a file of the active session is in the receive directory if and
  only if its entry says so, and ids that are not sessions yet have none. This
  is what turns the guard on entries into "at most once".
- `RequestsNameIds`: requests name ids that were drawn, and a report concerns a
  session that is over. This is why nothing arrives after the report.

The proof takes the parts one after the other (`TypeStep`, `SlotStep`,
`UploadStep`, `CopiesStep`, `AnswersStep`), each using those before it, each by
cases on the actions of `Next`; `OthersKept` says that a step that commits or
reports leaves the other requests' answers as they were. For the refinement,
`StepKinds` shows that every step is of one of four kinds (nothing changes in
the contract, a session opens, a file is delivered, a session closes), and one
lemma for each kind maps it to a step of the contract. `KeepsConnectionLife`
classifies the steps by which phases they change: one, the upload's as well, or
those of a crash.

`DeliverTends` takes every action once more for what it delivers and what it
leaves tended; `DeliveriesAreBound`, `OnlyCommitsUntend` and `AlwaysTended`
follow. The last has the hypothesis `~DirFaults`, which finding 2 shows to be
needed. `BlockingAsksOnce` rests on `Running`: while one prepare waits, no other
body is delivered.

### Transfer

`ReceiverIsReceiveService` shows that a behaviour of the composition is one of
`ReceiveService`, so `Inductive` holds there too. On top of it `TransferInv`
says of each client (`ClientInv`) and of each request (`ConnInv`):

- `Steady`: files that count as done were delivered in the sender's own session,
  and what was reported is true. It holds in the middle of a handler too, so it
  is proved through `Fail`, `SendNextFile` and the other helpers once, by the
  lemmas named `...Leads`.
- `Settled` is `LeavesNothingBehind`, and `Fits` relates the step to the session
  id, the list of files and the device.
- `Matches`: the request a client waits for is the one its step has sent.
  Without it the answer to a PUT could be taken for another file's.
- `AsRequested`, `Truthful`: the receiver handles what was sent, and what an
  answer says stays true while it travels. The second is the heart of it: a 200
  to a PUT means a copy that nothing takes away, one to a prepare a session that
  is the sender's or over, one to a complete or an abort a session that is over
  for good. It needs that session ids are never drawn again, which `OwnKept` and
  `OverKept` take from `Inductive`.

For `SendContract`, `SendInv` adds what no safety property above needed: an
answer that grants a session is the only one of its session, and until it
arrives nobody has joined that session or put a file into it; a request names an
id that was drawn and is not waiting for its user; a file that counts as done
was put into the client's own session; and `NeverStandsStill`, which is proved
on the way. A step of a client maps to at most one step of the contract, as does
a step of the receiver, because a handler that starts a PUT does not end the
send and one that renames a file answers one PUT.

### The others

`PairingProofs`: `PingsHaveSenders`, `RepliesAreTrue` and `ClientsKnow` carry
what was confirmed over the end of the connection and across a restart of the
receiver. `PInv` adds to them what the contract and `OneDialogIfBlocking` need:
a ping that has not been answered has not been confirmed
(`UndecidedUntilAnswered`), and a device whose user is asked for a code was
granted the ping it belongs to (`AskedByGrant`). Every step is then one of the
receiver's or one of a client's (`ReceiverStep`, `ClientStep`), and each kind
maps to the contract and to `ConnectionLife` by one lemma.

`HttpRequestProofs`: the length parser is a recursive function inside a LET, so
it is shown to be the one function that satisfies its equations on the prefixes
of the value; what holds of every prefix is then proved by the least prefix that
would break it, a set, since no induction theorem of the library can be used.
`ParseLengthIsExact` says that it accepts exactly the numbers that fit into the
word, in any base with any word, and reads each as what it means.

`HttpServerProofs` takes it over through `HeadsAssumption` (the heads a peer may
send are heads). An action changes one connection, so the invariant `Good` is
about one record and most lemmas about what a handler returns; `Sound` is the
part of it that holds while a sink runs. `BoundedConnections` is proved by
itself: a connection that becomes established was in its handshake, and a
handshake begins only when neither number has reached the limit.

`MachineProofs`: `FilesBelong` says of every start under way what it has seen of
the two files, as long as no key was overwritten (a certificate it has read or
issued is for the key it holds); the trust store's part needs only that lists in
`current` are the file's.

`DiscoveryProofs`: `HeardInTime` bounds the age of a peer and the time to its
next broadcast by the broadcasts lost so far, `age + next <= (losses + 1) *
(Interval + Jitter)`, from which `OnlySilencePrunes` follows with `RefreshEvery
<= Expiry` as its one hypothesis; `TimersInv` bounds each timer by what it is
set to, and `SearchMoves` says what a step makes of a search.

`WinDnsSdProofs`: `OwnersAreAlive` is the lock, and `CompletedIsTheEnd` says
that word of the completion, seen or still posted, comes after the registration
has ended.

### Only model-checked

- Liveness: `TendedSlotComesFree`, `ApprovalIsBounded`, `EverySendReports`,
  `PairingIsBounded`, `EveryPairEnds`, `EveryConnectionEnds`,
  `DepartedPeerLeaves`, `LookupEnds`. The prover has no reasoning about
  fairness.
- The five findings, which are counterexamples.

## 11. Not modelled, and known gaps

- *Text*: HTTP beyond the length of a body, JSON, the sanitizer, announcements,
  what the command line prints and parses. Functions of their input without
  state; the repository tests them as such. Where their outcome matters, it is a
  choice.
- *Cryptography*: TLS, certificates beyond whose key they are for, the digits of
  the code.
- *The disk*: the choice of a free name and the renames inside one commit are
  one step; another process in the same receive directory is not modelled (a
  comment at `localsink.cpp:120` accepts the window). `LocalFileSource` and
  `recvdir` are thin wrappers.
- *The prompt limiter*: its refusal is a choice of `PrepareTurnedAway`. It
  compares wall-clock times, and the sources take no position on a clock that is
  set.
- *Progress* in a sender, and the totals it adds up: a PUT answered with 200 is
  taken to have sent its bytes.
- *Avahi's* calls into D-Bus, and Windows's into its services, beyond lifetimes.
- *Settings*: read once per decision and written by nobody while the program
  runs.
- *Windows, exit*: whether a queued teardown runs after the exit was queued
  (`main.cpp:136`) is decided inside Qt. `Restart` covers the outcome in which
  it does not.
- *The black list while a user is asked* is what it was when the dialog opened;
  nothing promises more.
- `Pairing` and `Transfer` are not composed with each other: they share only the
  trust store, which each sees as one that may change at any reload.
