# TLA+ models of ceres-wallet-mpc

Models, model-checking configurations and machine-checked proofs about the
two-party threshold-signature SDK in this repository: a Rust engine
(`rust/src`) behind a Flutter FFI, and a Dart client (`lib/src`).  Paths in this
file are relative to the repository root.

## 1. The system

| component | code | state | operations | models |
|---|---|---|---|---|
| Relay and channel bridge | `rust/src/relay.rs`, `collect_batch`/`inject_all` in `rust/src/api/mpc_engine.rs`, `runtime.rs` | two bounded channels, a `Notify`, a spawned protocol task per session | `start_send`, `poll_next`, inject, collect, join | `ChannelRelay`, `RoundPipe` |
| DKLs23 session maps (secp256k1) | `keygen`, `recover`, `sign` in `mpc_engine.rs`, `session.rs` | three maps under a mutex each | round 1, round > 1, round 0 | `DklsSessions` |
| FROST signing, export (ed25519) | `sign*`, `export_private_key` in `engine_ed25519.rs` | `FROST_SIGN_SESSIONS`, `EXPORTED_KEYS` | rounds 1 and 2, export | `FrostSign` |
| FROST key generation and refresh | `keygen*`, `recover*` in `engine_ed25519.rs` | `FROST_KEYGEN_SESSIONS`, `FROST_RECOVERY_SESSIONS` | rounds 1, 2, 0 | `FrostDkg` |
| Curve dispatch and wire types | `api/types.rs`, the heads of `keygen`/`recover`/`sign` | none | decode, route | `KeyShares` |
| Addresses, digests, backup envelope, key export | `api/address.rs`, `types.rs`, end of `mpc_engine.rs`, `export_private_key` of both engines | `EXPORTED_KEYS` | conversions, seal and open, combine | `KeyShares`, `WalletClient` |
| MpcClient | `lib/src/client/mpc_client.dart` and its DTOs, exceptions, engine bridge | the variables of each running operation | keygen, recover, sign, export | `WalletClient` |
| WebSocket transport (example) | `example/lib/ws_transport_example.dart` | socket, subscription, pending requests | connect, send, receive, time out, disconnect, close | `WsTransport`, `RpcTransport` |
| generated bindings, build scripts, HTTP transport, demo app | `rust/src/frb_generated.rs`, `cargokit`, `example/lib` | | | not modelled |

How they interact.  The host calls `MpcClient`; it alternates between the engine
(FFI) and the server (transport), one round per pair of calls.  Each FFI call
runs to its end on one of several worker threads, so calls of different
operations, or of two operations with one session id, overlap; what they share
are the static maps of `session.rs`, each behind a mutex that is taken several
times in one call.  `mpc_engine.rs` routes a call to DKLs23 or to FROST: by the
envelope or share in round 1, by looking whether the FROST map has the id
afterwards.  A DKLs23 session is a tokio task; the call feeds it through a
channel and collects what it sends until it waits for input, which it learns
from a `Notify`.  A FROST session is plain data that a call removes from its map,
works on, and puts back.

What is hard in this code: the hand-over between the synchronous call and the
asynchronous task (lost or stale notifications, full or closed channels, an
early end of the task); calls interleaving between two lock acquisitions (check
then act, remove then put back); sessions replaced or expired while a call is
at work; a process restart, which empties all maps; secrets (nonces, round
secrets) that must be used at most once through all of that; two parties that
must hold matching shares although either may be told last, or never; shares
and backups of older rotations and of older versions; and a socket that is
replaced while requests wait on it.

What makes each component correct:

* bridge: messages cross in order and once in both directions; a call never hangs
  while the protocol could go on; a completed session has delivered everything;
* signing: nonces are used once; a signature is over the message the host gave;
  an exported key is not signed with;
* key generation and refresh: a run's secrets have one owner and yield one share;
  the result carries its own session id and version; expired runs do not go on;
* session maps: a run completes once, with its own result, which is not lost
  before; a sign session never gets stuck as consumed; dropped tasks end; only a
  call that waits for a message nobody sent keeps others waiting;
* client: every operation ends, with a result or an exception; what the host then
  keeps fits the server's share, and backups of it can be recovered from; results
  name their key; only a sign that the server answered leaves a session behind;
* shares: each reaches the engine of its curve in every form in use; an exported
  private key is the key, and signs no more;
* transport: each call gets the reply to its own request or an exception, once;
  the end of one socket does not fail the requests of another.

## 2. Modules

`ChannelRelay` — one DKLs23 session.  The protocol task (sl-dkls23, outside this
repository) is a `Script`: in each phase it sends some messages and then takes
some.  `TaskSend`, `TaskSendFails` are `start_send`; `TaskRecv`, `TaskPollEmpty`,
`TaskPollClosed` are the three results of `poll_next`; `TaskReject`,
`TaskNextPhase`, `TaskFinish` are the protocol's.  The call is a sequence of
actions guarded by `pc`: `CallRound1`/`CallAdvance`/`CallCollect` are the three
kinds of round, `Inject*` is `inject_all`, `Enable`, `RecvFirst`, `RecvNone`,
`Select*`, `Drain*` are the statements of `collect_batch`, `Join` is
`block_on(task_handle)`.  tokio's `Notify` is `permit` and `waiter`.  Payloads are
numbers in the order of creation; `delivered` and `received` record what arrived.

`RoundPipe` — what a caller of the round functions may rely on: non-empty batches
in order, each message once, everything before "completed" unless the caller cut
the session short with round 0, and no end of a session while the protocol runs.
`ChannelRelay` implements it; the mapping is `Pipe` at the end of `ChannelRelay`.

`FrostSign` — FROST signing and export for any number of threads and session ids.
`CallRound1`, `CheckExported`, `Commit` are `sign_round1` (the mutex of
`EXPORTED_KEYS`, then that of the session map); `CallRound2`, `Dispatch`, `Take`,
`Refuse`, `Sign` are the routing in `mpc_engine::sign` and `sign_round2`; `Export`
is `export_private_key`; `Restart` is the process.  Each round-1 call gets a
number, which stands for the nonces it draws.

`FrostDkg` — FROST keygen and recover in one module, as they have the same shape:
`Insert` (round 1), `Dispatch`, `CheckTtl` (recover's round 2 only), `Take`,
`PutBack` (round 2), `Complete` (round 0), `PartFails`.  Sessions are numbered in
the order of `created_at`, so the expired ones are `1..aged` and time is `Age`.
The library's state is its stage: part 2 needs the secret of round 1, part 3 that
of round 2.

`DklsSessions` — one of the three secp256k1 maps, chosen by `Kind`, with several
sessions and threads.  A call is split where it takes or releases the mutex or
blocks: `Inject`, `Collect1`, `Insert` (round 1), `Lookup`, `Inject`, `EnterLock`,
`CollectSome`/`CollectNone`, then `Reset` (sign) or `Remove` and `Join` (later
rounds), `Remove` and `Join` (round 0).  `lock` is the thread that waits in
`collect_batch` with the map locked.  The protocol task is reduced to what
`RoundPipe` promises of it: `TaskStart`, `TaskRecv`, `TaskReject`, `TaskClosed`.
Who still owns a sender or a receiver (`TxOpen`, `RxOpen`) follows from the map and
the locals of the calls, and decides when a task's input closes or its sends fail.
Runs are numbered by their round-1 calls; `births` is the order of `created_at`.

`KeyShares` — the values that cross the FFI and the functions on them; it has no
state.  A share is a point of a line over a small prime field, the private key is
the line's value at 0, and the public key is named by the private key.  This is
what the export interpolates and what a refresh shifts, so a share of another
rotation is a point of another line.  A share as a string is bare (`Raw`), in an
envelope (`V2`), or broken; `Decode`, `RouteOf`, `RawShare`, `SecpShareToSign` and
`ExtractShareMaterial` are the several readers, which do not agree on all forms.
Ciphers open with the key they were sealed with.  The definitions on both sides of
a read are the code's: `Emit` is what the engines write.

`WalletClient` — `MpcClient` with everything around it.  `CallKeygen`,
`CallRecover`, `CallWithShare` are the host's calls, each an operation that runs
on its own; `Send`, `TransportFails`, `RpcError` are `_rpcCall`.  A call of the
engine is one step, together with what the client does with its result up to the
next await: `EngineRound1`, `EngineContinues`, `EngineSigns`, `EngineCompletes`,
`SignedByServer`, `EngineExports`, and `EngineFails` for the rest.  The server is
external, after `doc/SERVER_INTEGRATION.md`: it stores a new share before it sends
the last message (secp256k1) or when it completes (ed25519).  It may refuse, name
no curve as servers before 0.2.0, or give a wrong sender.  A request that the
client has given up may be lost or still arrive (`TransportFails`).  The host
keeps what it is given: share, version, and the last backup (`Keep`, `BackUp`).
Three histories are there for the properties: `refreshes` counts the refreshes the
server has stored, `seen` is what a recovery found there when it was called (or
`None` if another refresh was then stored but not returned), and `torn` has the keys
of refreshes that were cut off or overtaken.

`RpcTransport` — what `MpcClient` relies on in `MpcTransport.send`: a call is
answered with the reply to it or fails, once.  `WsTransport` implements it; the
mapping is `Rpc` at the end of `WsTransport`.

`WsTransport` — the calls of `send` on one `WebSocketMpcTransport`, cut at each
await: `Send` is the start of `_ensureConnected`, `ConnectReady` and
`ConnectFails` its continuation, `ConnectThrows` its `catch` and `finally`,
`RefusePayload`, `Add`, `TimesOut` the rest of `send`; then the handlers
(`HandleMessage`, `HandleStreamError`, `HandleStreamDone`), `Disconnect` and
`Close`.  Sockets are named by the call that opens them.  `listening` keeps those
whose streams still call the handlers, which is more than `subscription` knows:
`Add` drops the channel and leaves its subscription.

Operators whose comment begins with "Fault:" are not part of a specification.
Each is a plausible wrong version of the operator that follows it, used to see
that a property notices.

`MC*` modules give the instances for TLC, `*Proofs` the proofs.

## 3. Runs

| run | instance | properties |
|---|---|---|
| `relay_safety` | 3 phases (send 2 take 1, send 2 take 2, send 1), both channels of capacity 2, 4 calls with 0 to 2 messages each | `TypeOK`, `FifoToCaller`, `FifoToTask`, `CompletedMeansDelivered`, `NoLostWakeup`, `ReturnsOrStarves`, `ImplementsPipe` |
| `relay_expected` | 4 phases, each call brings what its phase needs | `SendNeverFails`, `EveryCallReturns` |
| `sign_safety` | 2 threads, 2 ids, 2 keys, 2 messages, 2 round-1 calls | `TypeOK`, `NoncesHaveOneOwner`, `SignsWhatWasAsked`, `ExportedKeyOpensNoSession` |
| `sign_export` | 1 key | violated: `NoSignatureAfterExport` |
| `sign_restart` | 1 key | violated: `AfterExportSignIsRejected` |
| `dkg_safety` | 2 threads, 1 id in both maps, 2 runs, versions 1..2 | `TypeOK`, `SecretsHaveOneOwner`, `ResultIsOfItsRun`, `StaleRefreshNotAdvanced`, `NewestRunCompletes` |
| `dkg_expired` | 1 run | violated: `ExpiredRunNeverCompletes` |
| `dkls_overlap` | sign, 2 threads, 1 id, 2 runs, 5 calls in any order, 0 or 1 message each | `TypeOK`, `CompletesOnce`, `ConsumedNeverSticks` |
| `dkls_serial` | recover, 2 threads, 2 ids, 2 runs, 3 calls, calls of one id do not overlap | `VersionFollowsRun`, `ResultNotLost`, `CompletedIsCleanedUp`, `NoOrphanTask`, `ReturnsUnlessStarved` |
| `client_safety` | 2 operations of any kind, a key of either curve to begin with, field of order 5, 2 slopes, 2 backup secrets | `TypeOK`, `WalletStaysUsable`, `VersionCountsRefreshes`, `FreshBackupRecovers`, `ResultNamesTheKey`, `ExportIsTheKey`, `ExportedKeySignsNoMore`, `ReachesItsEngine`, `OnlySignLeavesSession`, `EveryOperationEnds` |
| `client_cleanup` | 1 operation | violated: `NoSessionAfterReturn` |
| `ws_safety` | 3 calls, and so up to 3 sockets | `TypeOK`, `HealthyRequestSurvives`, `ImplementsRpc`, `SendEnds` |

Bounds.  Channel capacities are 16 and 64 in the code; what matters is whether
they can fill, so the instances are small enough that they do (`TaskSendFails` and
a blocked `Inject` occur).  Two threads and two sessions are enough for every
order of two calls around one map entry: each call touches one entry and each
hazard listed is between two calls.  `MaxOpen` and `MaxRuns` bound the round-1
calls of a behaviour; in `DklsSessions` `MaxCalls` bounds the others too.  Three
calls are enough there for one session to be starved and another to be kept from
its map, and for a restart between a call and its completion.  `MaxVer` is small so that
`rotation_version + 1` wraps in the instance.  Two operations of the client are
enough for a recovery after a failed, an overlapped or a late one, and for a sign
after an export; a field of order 5 tells the lines of different rotations apart,
as two slopes give up to four lines of one key.  The slopes of `client_safety` are 2
and 3: one after the other they cancel, so that a second refresh brings back the
shares of before the first, which no property may take for no refresh at all.  Three calls of the transport are
enough for one that connects, one that waits with it, and one that comes to a
later socket.  The proofs do without all of these.

Deadlock is not checked: after the last call of the bound the system is idle.

### What the violated runs show

* `NoSignatureAfterExport`: round 2 does not look at `EXPORTED_KEYS`; a session
  opened before the export signs after it.
* `AfterExportSignIsRejected`: the set is in memory and a restart empties it.
* `ExpiredRunNeverCompletes`: only round 2 of `recover` looks at `created_at`.
* `NoSessionAfterReturn`: when the server answers a round of `sign` with the
  signature, `sign` returns it and never calls the engine again; the session stays
  in `SIGN_SESSIONS`, its task waiting, until its id is used again.
  `OnlySignLeavesSession` shows that no other operation does this when it returns.

`VersionFollowsRun` is checked for a host that does not overlap calls of one id.
For one that does it is false: a later round reads the version under one lock and
takes the task to join under another, and a repeated round 1 may come in between.
Likewise `NewestRunCompletes` speaks of behaviours in which no two calls have
overlapped: `keygen_round2` puts back what it took over a session that a round 1
has inserted meanwhile.

`WalletStaysUsable`, `VersionCountsRefreshes` and `FreshBackupRecovers` leave out
the keys in `torn`: the server stores its new share before the client has its own,
so a client that fails in between, two overlapping refreshes, or a refresh from an
old backup leave the two sides apart.  No code mends that; the properties say that
nothing else does it.  Whether a refresh was overtaken is told by `seen` and not by
the shares, which may be the same again after two refreshes whose slopes cancel.  In the same way `HealthyRequestSurvives` names the one case
in which a live socket's requests fail for another's end (`threw`).

Other places where a text and the code differ, seen while modelling and not made
into a run:

* `rust/src/api/types.rs:33` says new shares always use the envelope; secp256k1
  shares are written bare, and `recover` and `export_private_key` cannot read one
  in an envelope, while `sign` can (`RawShare`, `SecpShareToSign`).
* The comment at `rust/src/api/mpc_engine.rs:113` says that a notification means
  all messages of the round are sent; a permit stored by an earlier wait ends the
  collection early and the batch is split over two replies.  Nothing is lost
  (`FifoToCaller`).
* `README.md:69` speaks of maps cleaned up after each run; a run whose task failed
  stays in its map when the next `inject_all` returns early
  (`mpc_engine.rs:307`).  For a task that has finished this is what keeps its
  result (`ResultNotLost`), and a completed one is removed
  (`CompletedIsCleanedUp`).
* `doc/SERVER_INTEGRATION.md:452` answers the export with `serverKeyshare`;
  `mpc_client.dart:265` reads `serverSharePrivate`.
* Test T-3 of `example/test/ws_transport_test.dart` and the comment of
  `WsTransportException` expect `send` to throw on an error answer; `_handleMessage`
  completes with the text, as its own comment says.
* The comment of `WebSocketMpcTransport` says that reconnecting is invisible to the
  caller; the call whose `sink.add` throws fails, and so do the requests that the
  old subscription takes down (`Add`, `HandleStreamDone`).

## 4. Fairness

`ChannelRelay` assumes weak fairness of `Task` (the runtime has two workers that
poll a woken task) and of `CallStep` (a blocked call is the only thing its thread
does).  It assumes nothing of `Call`: the host may stop between calls.  The
selection of `select!` is biased in the code and deterministic here.
`DklsSessions` assumes the same of every task and every thread; a thread waiting
for the mutex gets it because calls are bounded, so no more is asked of the mutex
than that it is handed to somebody.
`WalletClient` assumes weak fairness of `Client(o)`: every request ends, as both
transports in the repository time out, and the engine returns.  That the engine
returns is `ReturnsOrStarves` and `ReturnsUnlessStarved`, so `EveryOperationEnds`
holds for a server that sends what a round needs.  Nothing is assumed of host or
server.  `WsTransport` assumes weak fairness of `Proceed(s)`: timers fire and
continuations run.  It assumes nothing of the network, the server or the handlers.
The FROST
modules have no liveness properties: their calls do not wait.

## 5. Proofs

`ChannelRelayProofs` (every script, capacity and envelope size):

* `TypeCorrect`, from the type invariant alone;
* `WakeupNeverLost`: `NoLostWakeup` with `Signalled`, which ties `permit` and
  `waiter` to the status of the task and the statement the collector is at;
* `CallerGetsEveryMessage`, `TaskGetsEveryMessage`: the concatenations in
  `FifoToCaller` and `FifoToTask` are inductive with `Control`, which relates `pc`,
  the session and the buffers; they rest on lemmas about concatenation;
* `NothingLeftBehind`: `CompletedMeansDelivered`;
* `BridgeImplementsPipe`: every step of the bridge is a step of `RoundPipe` under
  the mapping, or stutters;
* `RoomIsEnough`: `SendNeverFails` if the capacity of the channel out of the task is
  at least the number of messages of the whole script (`RoomForScript`).  `Budget`
  says that what was sent and what is still to be sent fits.  Less is not enough when
  an envelope may carry more than its round needs: the task can then answer all of
  it before the call takes the first message.  The run `relay_expected` has room for
  four of seven messages, and envelopes that fit their rounds.

`FrostSignProofs` (every number of threads, ids, keys, messages and calls).  The
inductive invariant `Inv` says where nonces are: not yet committed to by a call
at "check" or "commit" (`FreshOnes`: each its own, not opened), in the map, in one
thread's hand (`OnePlace`), or spent (`SpentOnce`); that what the host asked for
travels with them (`Content`); and that a call made while its key was marked
finds the mark when it reaches the guard (`LateOnes`).  The properties alone are
not inductive: nothing in `NoncesHaveOneOwner` keeps a call from committing to an
instance that is already in the map.  `NoncesUsedOnce`, `SignsOnlyWhatWasAsked` and
`ExportedKeyIsRefused` follow.

`FrostDkgProofs` (every number of threads, ids, runs and versions).  `Inv` has
five parts.  `Secrets` says where a run's secrets are, as in `FrostSign`, and that
they are there only while the run has not completed (`OnlyLive`).  `Content` ties
the entry and the held session to what round 1 was given.  From these follow
`SecretsStayWithOneOwner` and `ResultsAreOfTheirRun`.  `Unexpired` is why
`ExpiredRefreshStays` holds although the check of `created_at` and the removal are
under two locks: between them the entry can only be replaced by a newer run, or by
one whose round 2 is over (stage 2), which part 2 refuses.  `Serial` says that as
long as no two calls have overlapped, entries and hands have the newest run of
their id, which gives `RetryCompletes`.

`DklsSessionsProofs` (each of the three maps, every number of threads, ids, runs
and calls).  `TypeCorrect` needs which locals a call has at each of its statements
(`LocalsOK`).  The rest is in four parts:

* `RunCompletesOnce` proves `CompletesOnce` with `Handles`: the task handle of a run
  is in the map under one id (`OneEntry`), or with the one call that opens its
  session or joins its task (`OneHolder`, `EntryOrHolder`), and only while the run
  has not completed (`HandlesUnused`).  Alone the property is not inductive: two
  calls could be joining one task.
* `FlagHasItsCall` proves `ConsumedNeverSticks` with `Flags`, which says at which
  statements (`Flagging`) the call is that will reset the flag.  The session it
  resets may be a newer one than it set, so the call is tied to the id.
* `VersionOfItsRun` and `CompletedLeavesNothing` prove `VersionFollowsRun` and
  `CompletedIsCleanedUp` for a host that does not overlap calls of one id
  (`OneCallPerId`; with overlap both are false).  `Serial` says that the session in
  the map (`StoredOK`), what a call carries across the unlocked stretches (`CallOK`)
  and the results (`ResultsOK`) all have the version their run was started with, and
  that an id whose last reply was "completed" is not in the map (`DoneOK`).
* `NothingLost` proves `ResultNotLost`, for such a host too, from `Handles`, `Serial`
  and `Lossless`.  The property speaks of runs that are done; inductive is that a
  newest run which has not failed is in the map or with the call that joins it,
  from its insertion on (`KeptInReach`).  That a session inserted over another
  loses nothing needs that the call which inserts is of the newest run of its id
  (`OpensNewest`) and that a run is inserted once (`BornOK`).

`WalletClientProofs` (every set of operations, prime field, set of slopes and of
secrets).  The properties are about one operation's end, so `IInv` says of every
operation at every await that what it works with is of its key: the share it was
given (`ArgsOK`), the sessions of the two sides (`ServerOK`, `EngineOK`), what is on
the wire (`WireOK`) and the result (`ResultOK`); and of every share the server or
the host keeps that it is of its key, on the curve that key was made on (`StoreOK`,
`WalletOK`).  A step changes the parts of one operation; for the others nothing
moves but the server's shares and the exported keys, and these only grow, never
changing a curve or a key (`Grows`, `CallsOn`).  From `IInv` follow
`NewSharesNameTheKey`, `ExportsTheKey`, `ExportEndsSigning`, `EngineOfTheKey` and
`OnlySignatureLeft`.  That an operation which returned left no session but a
sign's is in `EngineOK`; that a sign called after the export of its key gets no
further than round 1 is the last part of `ArgsOK`.

`WalletRotationProofs` goes on from `IInv` to the three properties about rotations,
which compare what host and server hold (every set of operations, prime field and
slopes, those that cancel each other included).  Its first part is arithmetic: points
of one line fit (`LineFits`), and a refresh moves both points of a line alike
(`RefreshFits`), by calculation modulo `P`.  A refresh is stored by the server in one
step (`Persist`) and returned by the client in a later one (`EngineCompletes`).  The
invariant `Rotations` says of every key that is not torn: a recovery that saw all
refreshes has the newest version, and works on the server's share (`FreshOK`); one
that is between the two steps is alone there, and what it will return fits what was
stored (`HalfwayOK`); a new key has the shares that were dealt (`DealtOK`); what the
host keeps is what an engine wrote, and so is the backup (`KeptOK`); and outside of
those two steps host and server fit, and the version counts the refreshes
(`SettledOK`).  `WalletStaysUsable` and `VersionCountsRefreshes` are `SettledOK`, so
they are not inductive alone: nothing in them says what a recovery under way will
bring.  `StaysUsable`, `VersionsCount` and `FreshBackupsRecover` follow; the last
needs in addition that an engine reads what it wrote (`EmitReads`).

`WsTransportProofs` (every set of calls).  `CallInv` says where a call is by its
`pc`: in the map exactly while it waits, with a socket exactly once it has sent.
`LinkInv` relates `channel`, `connecting`, `subscription` and `listening`: a
socket that is listened to was opened, and one that is not the subscribed one is
there only for a `sink.add` that threw (`threw`).  `LossInv` says that a request
failed for the end of a stream is in one of the cases of
`HealthyRequestSurvives`.  From `CallInv`, `NobodyStranded` and `WsImplementsRpc`;
from all three, `HealthySurvives`.

The assumptions are the named ASSUMEs of the modules: capacities at least one, a
non-empty script, a prime field, operations numbered from 1, slopes that are
naturals, at least one backup secret, and `None` different from the data (numbers,
records and strings).  `RoomIsEnough` and the three theorems for a host that does not
overlap calls of one id state their condition.

Only model-checked: liveness (`ReturnsOrStarves`, `EveryCallReturns`,
`NoOrphanTask`, `ReturnsUnlessStarved`, `EveryOperationEnds`, `SendEnds`), which
rests on fairness and so on ENABLED; and `SendNeverFails` for a channel smaller than
the script, which depends on what the envelopes carry.

## 6. Plan

All modules of the plan are written: `ChannelRelay` and `RoundPipe`, `FrostSign`,
`FrostDkg`, `DklsSessions`, `KeyShares` and `WalletClient`, `WsTransport` and
`RpcTransport`.  What could follow:

1. A proof that `ChannelRelay` never splits a batch if the protocol polls once per
   wait, which would say when `mpc_engine.rs:113` is right, and with it of
   `SendNeverFails` for a channel that has room for two phases of the script.
2. Abstract specifications of the FROST maps (one round-1 value used once), which
   `FrostSign` and `FrostDkg` implement.

## 7. Not modelled

Cryptography: a protocol run succeeds or fails; nonces and signatures are their
run's number, shares are points of a line, keys are named by their secret.  JSON,
base64 and hex except for what dispatch depends on; Keccak, base58 and the
EIP-55 checksum, which unit tests compare with known vectors; logging.  Generated
bindings, build scripts, the HTTP transport (one request per call, no state), the
mock server and the demo application.  Two clients that share one transport: their
ids collide, and no code says they may.  Errors without a listener
(`completeError` on a completer nobody waits for), which change no state here.
A poisoned mutex (a panic while a map is locked)
is not modelled: the locked sections of the FROST engine cannot panic.
