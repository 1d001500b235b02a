---------------------------- MODULE WalletClient ----------------------------
(***************************************************************************)
(* MpcClient (mpc_client.dart) between the engine and a server: keygen,    *)
(* recover, sign and exportPrivateKey as asynchronous operations that may  *)
(* overlap, over a transport that fails, is late, or loses what it carries.*)
(*                                                                         *)
(* The engine is one step per call; what happens inside a call is in the   *)
(* other modules.  The server (external) follows doc/SERVER_INTEGRATION.md;*)
(* it opens a fresh session for every round 1, so a session is named by    *)
(* its operation, and a key by the operation that made it.                 *)
(***************************************************************************)
EXTENDS KeyShares

CONSTANTS Ops,      \* operations of the host, numbers from 1
          Shifts,   \* slopes a protocol run may draw
          Secrets   \* backup secrets

ASSUME WalletAssumption ==
    /\ Ops \subseteq Nat \ {0}
    /\ Shifts \subseteq Nat
    /\ Secrets # {}
    /\ None \notin Nat

VARIABLES
    op,         \* per operation: its arguments and where it is
    wire,       \* per operation: its request or answer under way
    eng,        \* per session: the engine's
    srv,        \* per session: the server's
    store,      \* per key: the share the server persisted
    wallet,     \* per key: what the host keeps
    exported,   \* EXPORTED_KEYS
    torn,       \* history: keys whose refresh was cut off, stale or overtaken
    refreshes   \* history: refreshes the server persisted, per key

vars == <<op, wire, eng, srv, store, wallet, exported, torn, refreshes>>

Old == 0                        \* a key made before
Keys == Ops \cup {Old}
SecretOf(k) == (k + 1) % P

Session == [curve : Curves, base : Material \cup {None}]
ServerSession == [curve : Curves, key : Keys, base : Material \cup {None},
                  shift : Shifts \cup {1}, persisted : BOOLEAN]

Backup == [share : ShareString, key : {DeriveAesKey(secret) : secret \in Secrets}]
Result == [id : Keys, share : ShareString, address : {"evm", "solana"} \X Field,
           ver : Nat, backup : Backup \cup {None}]
Wallet == [share : ShareString, ver : Nat, backup : Backup \cup {None}, stale : BOOLEAN]
ASSUME RecordAssumption == None \notin ServerSession \cup Wallet

Wire == [state : {"none", "request", "answer", "error"}, env : Envelope \cup {None},
         share : ShareString \cup {None}, signed : BOOLEAN]
Op == [kind : {"none", "keygen", "recover", "sign", "export"},
       at : {"new", "send", "await", "returned", "failed"},
       key : Keys \cup {None}, curve : Curves \cup {None},
       share : ShareString \cup {None}, msg : {"digest", "text", None},
       ver : Nat, renew : Secrets \cup {None}, round : 1..3,
       late : BOOLEAN,      \* history: the key was exported before the call
       seen : Nat \cup {None}, \* history: refreshes stored before the call
       result : Result \cup [key : Field] \cup {None}]

TypeOK ==
    /\ op \in [Ops -> Op]
    /\ wire \in [Ops -> Wire]
    /\ eng \in [Ops -> Session \cup {None}]
    /\ srv \in [Ops -> ServerSession \cup {None}]
    /\ store \in [Keys -> Material \cup {None}]
    /\ wallet \in [Keys -> Wallet \cup {None}]
    /\ exported \subseteq Curves \X Field
    /\ torn \subseteq Keys /\ refreshes \in [Keys -> Nat]

NoWire == [state |-> "none", env |-> None, share |-> None, signed |-> FALSE]
NewOp == [kind |-> "none", at |-> "new", key |-> None, curve |-> None, share |-> None,
          msg |-> None, ver |-> 0, renew |-> None, round |-> 1, late |-> FALSE,
          seen |-> None, result |-> None]

\* The share of party x on the line of key k with the given slope.
Point(c, x, k, slope) ==
    [curve |-> c, x |-> x, s |-> (SecretOf(k) + slope * x) % P, vk |-> SecretOf(k)]

Init ==
    \E c \in Curves :
        LET sh == Emit(Point(c, 1, Old, 1)) IN
        /\ op = [o \in Ops |-> NewOp]
        /\ wire = [o \in Ops |-> NoWire]
        /\ eng = [o \in Ops |-> None] /\ srv = [o \in Ops |-> None]
        /\ store = [k \in Keys |-> IF k = Old THEN Point(c, 2, Old, 1) ELSE None]
        /\ wallet = [k \in Keys |-> IF k = Old
                       THEN [share |-> sh, ver |-> 1, stale |-> FALSE, backup |->
                             DeriveBackupEnvelope(sh, CHOOSE pin \in Secrets : TRUE)]
                       ELSE None]
        /\ exported = {} /\ torn = {}
        /\ refreshes = [k \in Keys |-> 0]

-----------------------------------------------------------------------------
(* The host.                                                               *)

Begin(o, o1) ==
    /\ op[o].at = "new"
    /\ op' = [op EXCEPT ![o] = o1]
    /\ UNCHANGED <<wire, eng, srv, store, wallet, exported, torn, refreshes>>

CallKeygen(o, c) ==
    Begin(o, [NewOp EXCEPT !.kind = "keygen", !.at = "send", !.key = o, !.curve = c])

\* Between the server's storing of a refreshed share and the client's return.
Refreshing(k) ==
    \E o \in Ops : /\ op[o].kind = "recover" /\ op[o].key = k
                    /\ op[o].at \in {"send", "await"} /\ srv[o] # None /\ srv[o].persisted

\* decryptBackupShare comes before the first request.
CallRecover(o, k, secret, renew) ==
    /\ wallet[k] # None
    /\ LET sh == DecryptBackupShare(wallet[k].backup, secret) IN
       Begin(o, [NewOp EXCEPT !.kind = "recover", !.key = k, !.share = sh,
                    !.at = IF sh = None THEN "failed" ELSE "send",
                    !.ver = wallet[k].ver, !.renew = renew,
                    !.seen = IF Refreshing(k) THEN None ELSE refreshes[k]])

\* The host passes the share it keeps; or that share in another form: bare, in
\* an envelope of its curve or of an unknown one, or a broken string.
Forms(m) == {Raw(m), V2(m.curve, m), V2("p256", m), Junk}

CallWithShare(o, kind, k, msg) ==
    /\ wallet[k] # None
    /\ \E sh \in Forms(wallet[k].share.bytes) :
          /\ msg = "text" => sh = wallet[k].share
          /\ Begin(o, [NewOp EXCEPT !.kind = kind, !.at = "send", !.key = k, !.share = sh,
                          !.msg = msg, !.late = Mark(wallet[k].share.bytes) \in exported])

\* The host makes a new backup of its share.
BackUp(k, secret) ==
    /\ wallet[k] # None /\ wallet[k].stale
    /\ wallet' = [wallet EXCEPT ![k].stale = FALSE,
                    ![k].backup = DeriveBackupEnvelope(wallet[k].share, secret)]
    /\ UNCHANGED <<op, wire, eng, srv, store, exported, torn, refreshes>>

-----------------------------------------------------------------------------
(* The request, and how it fails.                                          *)

\* _rpcCall.
Send(o) ==
    /\ op[o].at = "send"
    /\ op' = [op EXCEPT ![o].at = "await"]
    /\ wire' = [wire EXCEPT ![o] = [NoWire EXCEPT !.state = "request"]]
    /\ UNCHANGED <<eng, srv, store, wallet, exported, torn, refreshes>>

\* The operation throws; a refresh the server has persisted is cut off by it.
Fail(o) ==
    /\ op' = [op EXCEPT ![o].at = "failed"]
    /\ torn' = IF op[o].kind = "recover" /\ srv[o] # None /\ srv[o].persisted
               THEN torn \cup {op[o].key} ELSE torn

\* An error, or a timeout; what was under way is lost, or still reaches the
\* server.
TransportFails(o) ==
    /\ op[o].at = "await"
    /\ Fail(o)
    /\ wire' = [wire EXCEPT ![o] = NoWire] \/ (wire[o].state = "request" /\ UNCHANGED wire)
    /\ UNCHANGED <<eng, srv, store, wallet, exported, refreshes>>

RpcError(o) ==
    /\ op[o].at = "await" /\ wire[o].state = "error"
    /\ Fail(o)
    /\ wire' = [wire EXCEPT ![o] = NoWire]
    /\ UNCHANGED <<eng, srv, store, wallet, exported, refreshes>>

-----------------------------------------------------------------------------
(* The server (external).                                                  *)

Asked(o) == wire[o].state = "request"
\* Nobody waits for the answer to a request that was given up.
Answer(o, w) == wire' = [wire EXCEPT ![o] = IF op[o].at = "failed" THEN NoWire ELSE w]
Payload(env) == [NoWire EXCEPT !.state = "answer", !.env = env]

\* Servers before 0.2.0 name no curve; a wrong sender is possible.
Envelopes(c) == [curve : IF c = Ed THEN {Ed} ELSE {None, Secp}, from : {0, 1}]

ServerRefuses(o) ==
    /\ Asked(o)
    /\ Answer(o, [NoWire EXCEPT !.state = "error"])
    /\ UNCHANGED <<op, eng, srv, store, wallet, exported, torn, refreshes>>

ServerBegins(o) ==
    /\ Asked(o) /\ op[o].round = 1 /\ op[o].kind # "export"
    /\ op[o].kind = "keygen" \/ store[op[o].key] # None
    /\ LET base == IF op[o].kind = "keygen" THEN None ELSE store[op[o].key]
           c == IF op[o].kind = "keygen" THEN op[o].curve ELSE base.curve
       IN  /\ \E d \in IF op[o].kind = "sign" THEN {1} ELSE Shifts :
                 srv' = [srv EXCEPT ![o] = [curve |-> c, key |-> op[o].key, base |-> base,
                                            shift |-> d, persisted |-> FALSE]]
           /\ \E env \in Envelopes(c) : Answer(o, Payload(env))
    /\ UNCHANGED <<op, eng, store, wallet, exported, torn, refreshes>>

\* The new share is stored.  A refresh is torn if its client has given up, if
\* the two sides started from shares that do not fit, or if another refresh of
\* the key has been stored since it was called, or had not returned then.
Persist(o) ==
    LET k == srv[o].key IN
    /\ store' = [store EXCEPT ![k] =
          IF op[o].kind = "keygen" THEN Point(srv[o].curve, 2, k, srv[o].shift)
          ELSE Refresh(srv[o].base, srv[o].shift)]
    /\ srv' = [srv EXCEPT ![o].persisted = TRUE]
    /\ IF op[o].kind = "keygen" THEN UNCHANGED <<torn, refreshes>>
       ELSE /\ refreshes' = [refreshes EXCEPT ![k] = @ + 1]
            /\ torn' = IF \/ op[o].at = "failed" \/ op[o].seen # refreshes[k]
                          \/ ~InStep(eng[o].base, srv[o].base)
                       THEN torn \cup {k} ELSE torn

\* DKLs23 refuses a refresh whose shares do not fit; FROST cannot tell.
Fits(o) == InStep(eng[o].base, srv[o].base)

\* The next batch; its curve is not read.  The server stores a secp256k1 share
\* before it sends the last one.
ServerContinues(o) ==
    /\ Asked(o) /\ srv[o] # None /\ eng[o] # None
    /\ op[o].round = 2 \/ (op[o].round = 3 /\ op[o].kind = "sign")
    /\ op[o].kind # "keygen" /\ srv[o].curve = Secp => Fits(o)
    /\ IF op[o].kind # "sign" /\ srv[o].curve = Secp THEN Persist(o)
       ELSE UNCHANGED <<store, srv, torn, refreshes>>
    /\ Answer(o, Payload([curve |-> None, from |-> 1]))
    /\ UNCHANGED <<op, eng, wallet, exported>>

\* Nothing is left to send: "completed", with r and s for a signature.  A FROST
\* share is stored now.
ServerFinishes(o) ==
    /\ Asked(o) /\ op[o].round = 3 /\ srv[o] # None /\ eng[o] # None
    /\ IF op[o].kind # "sign" /\ ~srv[o].persisted THEN Persist(o)
       ELSE UNCHANGED <<store, srv, torn, refreshes>>
    /\ Answer(o, [Payload(None) EXCEPT !.signed = (op[o].kind = "sign")])
    /\ UNCHANGED <<op, eng, wallet, exported>>

ServerExports(o) ==
    /\ Asked(o) /\ op[o].kind = "export" /\ store[op[o].key] # None
    /\ Answer(o, [Payload(None) EXCEPT !.share = Emit(store[op[o].key])])
    /\ UNCHANGED <<op, eng, srv, store, wallet, exported, torn, refreshes>>

Server(o) == \/ ServerRefuses(o) \/ ServerBegins(o) \/ ServerContinues(o)
             \/ ServerFinishes(o) \/ ServerExports(o)

-----------------------------------------------------------------------------
(* The answer goes to the engine, in one step with what the client does next. *)

Got(o) == op[o].at = "await" /\ wire[o].state = "answer"

\* After round 1, the map that holds the session decides.
Routed(o) == eng[o].curve

\* while (isContinue): the next request.
\* Fault: the round does not advance.
NextRound_Repeats(o) == /\ op' = [op EXCEPT ![o].at = "send"]
                        /\ wire' = [wire EXCEPT ![o] = NoWire]

NextRound(o) == /\ op' = [op EXCEPT ![o].at = "send", ![o].round = @ + 1]
                /\ wire' = [wire EXCEPT ![o] = NoWire]
FailNow(o) == Fail(o) /\ wire' = [wire EXCEPT ![o] = NoWire]

\* The share the engine works with; the guards of sign.
Given(o) == CASE op[o].kind = "recover" -> ShareToRefresh(op[o].share)
              [] op[o].kind = "sign" -> ShareToSign(op[o].share)
              [] OTHER -> None

\* Fault: an exported share is not looked for.
MaySign_Unguarded(o) ==
    RouteOf(op[o].share) = Secp => FromHex(op[o].msg) # None

MaySign(o) ==
    /\ RouteOf(op[o].share) = Secp => FromHex(op[o].msg) # None
    /\ Mark(Given(o)) \notin exported

\* Round 1: the envelope of a new key, or the share, decides the engine.
EngineRound1(o) ==
    LET env == wire[o].env
        keygen == op[o].kind = "keygen"
        curve == IF keygen THEN DetectCurve(env) ELSE RouteOf(op[o].share)
    IN  /\ Got(o) /\ op[o].round = 1 /\ op[o].kind # "export"
        /\ IF /\ Readable(curve, env) /\ (keygen \/ Given(o) # None)
              /\ op[o].kind = "sign" => MaySign(o)
           THEN /\ eng' = [eng EXCEPT ![o] = [curve |-> curve, base |-> Given(o)]]
                /\ NextRound(o) /\ UNCHANGED torn
           ELSE FailNow(o) /\ UNCHANGED eng
        /\ UNCHANGED <<srv, store, wallet, exported, refreshes>>

\* Any protocol error, or an expired session; the session stays or goes.
EngineFails(o) ==
    /\ Got(o) /\ op[o].kind # "export"
    /\ FailNow(o)
    /\ eng' \in {eng, [eng EXCEPT ![o] = None]}
    /\ UNCHANGED <<srv, store, wallet, exported, refreshes>>

\* Rounds from 2: more to send.
\* Fault: a round that has nothing to send continues.
EngineContinues_NoEnd(o) ==
    /\ Got(o) /\ op[o].round > 1 /\ wire[o].env # None /\ eng[o] # None
    /\ op[o].kind = "sign" => Routed(o) = Secp
    /\ Readable(Routed(o), wire[o].env)
    /\ NextRound(o)
    /\ UNCHANGED <<eng, srv, store, wallet, exported, torn, refreshes>>

EngineContinues(o) ==
    /\ Got(o) /\ op[o].round > 1 /\ wire[o].env # None /\ eng[o] # None
    /\ op[o].round = 2
    /\ op[o].kind = "sign" => Routed(o) = Secp
    /\ Readable(Routed(o), wire[o].env)
    /\ NextRound(o)
    /\ UNCHANGED <<eng, srv, store, wallet, exported, torn, refreshes>>

Return(o, result) ==
    /\ op' = [op EXCEPT ![o].at = "returned", ![o].result = result]
    /\ wire' = [wire EXCEPT ![o] = NoWire]

\* A signature comes of shares that fit.
EngineSigns(o) ==
    /\ Got(o) /\ op[o].kind = "sign" /\ wire[o].env # None /\ eng[o] # None
    /\ op[o].round = IF Routed(o) = Ed THEN 2 ELSE 3
    /\ Readable(Routed(o), wire[o].env) /\ Fits(o)
    /\ Return(o, None)
    /\ eng' = [eng EXCEPT ![o] = None]
    /\ UNCHANGED <<srv, store, wallet, exported, torn, refreshes>>

\* The shares of the completed payloads.
KeygenShare(o) == Point(eng[o].curve, 1, o, srv[o].shift)

\* Fault: recovery returns the share it was given.
RefreshedShare_Given(o) == eng[o].base

RefreshedShare(o) == Refresh(eng[o].base, srv[o].shift)

NewShare(o) == IF op[o].kind = "keygen" THEN KeygenShare(o) ELSE RefreshedShare(o)

\* Fault: the payload's version is the one recovery was called with.
NewVersion_Same(o) == IF op[o].kind = "keygen" THEN 1 ELSE op[o].ver

NewVersion(o) == IF op[o].kind = "keygen" THEN 1 ELSE op[o].ver + 1

\* Fault: the new backup is made of the decrypted backup share.
NewBackup_OfBackup(o) ==
    IF op[o].renew = None THEN None ELSE DeriveBackupEnvelope(op[o].share, op[o].renew)

NewBackup(o) ==
    IF op[o].renew = None THEN None ELSE DeriveBackupEnvelope(Emit(NewShare(o)), op[o].renew)

\* Fault: recovery, too, names the key by the session.
ResultId_Session(o) == o

\* The engine names the key by the session, recovery by its argument.
ResultId(o) == IF op[o].kind = "keygen" THEN o ELSE op[o].key

Completed(o) == [id |-> ResultId(o), share |-> Emit(NewShare(o)),
                 address |-> Address(NewShare(o)), ver |-> NewVersion(o),
                 backup |-> NewBackup(o)]

\* The host stores the result; without a new backup it keeps the old one.
Keep(o, result) ==
    wallet' = [wallet EXCEPT ![result.id] =
        [share |-> result.share, ver |-> result.ver,
         stale |-> result.backup = None,
         backup |-> IF result.backup = None /\ wallet[result.id] # None
                    THEN wallet[result.id].backup ELSE result.backup]]

\* A share is complete: with the last batch (secp256k1), or in round 0, when
\* the server has nothing more to send.
\* Fault: the session of round 0 is not removed.
EngineCompletes_Keeps(o) ==
    /\ Got(o) /\ op[o].kind \in {"keygen", "recover"} /\ op[o].round > 1
    /\ eng[o] # None
    /\ wire[o].env # None => Routed(o) = Secp /\ Readable(Secp, wire[o].env)
    /\ op[o].kind = "recover" /\ Routed(o) = Secp => Fits(o)
    /\ Return(o, Completed(o)) /\ Keep(o, Completed(o))
    /\ eng' = IF wire[o].env = None THEN eng ELSE [eng EXCEPT ![o] = None]
    /\ UNCHANGED <<srv, store, exported, torn, refreshes>>

EngineCompletes(o) ==
    /\ Got(o) /\ op[o].kind \in {"keygen", "recover"} /\ op[o].round > 1
    /\ eng[o] # None
    /\ wire[o].env # None => Routed(o) = Secp /\ Readable(Secp, wire[o].env)
    /\ op[o].kind = "recover" /\ Routed(o) = Secp => Fits(o)
    /\ Return(o, Completed(o)) /\ Keep(o, Completed(o))
    /\ eng' = [eng EXCEPT ![o] = None]
    /\ UNCHANGED <<srv, store, exported, torn, refreshes>>

\* sign: the server answers with r and s itself.
SignedByServer(o) ==
    /\ Got(o) /\ op[o].kind = "sign" /\ wire[o].signed
    /\ Return(o, None)
    /\ UNCHANGED <<eng, srv, store, wallet, exported, torn, refreshes>>

EngineExports(o) ==
    LET e == Export(op[o].share, wire[o].share) IN
    /\ Got(o) /\ op[o].kind = "export"
    /\ \/ /\ e = None /\ FailNow(o) /\ UNCHANGED exported
       \/ /\ e # None /\ Return(o, [key |-> e.key]) /\ UNCHANGED torn
          /\ exported' = exported \cup {e.mark}
    /\ UNCHANGED <<eng, srv, store, wallet, refreshes>>

Engine(o) ==
    \/ EngineRound1(o) \/ EngineFails(o) \/ EngineContinues(o) \/ EngineSigns(o)
    \/ EngineCompletes(o) \/ SignedByServer(o) \/ EngineExports(o)

Host(o) ==
    \/ \E c \in Curves : CallKeygen(o, c)
    \/ \E k \in Keys : \/ \E secret \in Secrets, renew \in Secrets \cup {None} :
                           CallRecover(o, k, secret, renew)
                      \/ \E msg \in {"digest", "text"} : CallWithShare(o, "sign", k, msg)
                      \/ CallWithShare(o, "export", k, None)

Client(o) == Send(o) \/ TransportFails(o) \/ RpcError(o) \/ Engine(o)

Next == \/ \E o \in Ops : Host(o) \/ Client(o) \/ Server(o)
        \/ \E k \in Keys, secret \in Secrets : BackUp(k, secret)

Spec == Init /\ [][Next]_vars
FairSpec == Spec /\ \A o \in Ops : WF_vars(Client(o))

-----------------------------------------------------------------------------
(* Properties.                                                             *)

Settled(k) == wallet[k] # None /\ k \notin torn /\ ~Refreshing(k)

\* The host's share and the server's combine to the key, whatever operations
\* failed or were overlapped, unless a refresh was cut off after the server
\* stored its share, was overtaken by another, or started from an old backup.
WalletStaysUsable ==
    \A k \in Keys : Settled(k) => InStep(wallet[k].share.bytes, store[k])

\* The version the host keeps counts the refreshes the server has stored.
VersionCountsRefreshes ==
    \A k \in Keys : Settled(k) => wallet[k].ver = 1 + refreshes[k]

\* A backup made of the newest share can be recovered from: the engine reads
\* it, and it fits the server's share.
FreshBackupRecovers ==
    \A k \in Keys :
        Settled(k) /\ ~wallet[k].stale =>
            LET m == ShareToRefresh(wallet[k].backup.share)
            IN  m # None /\ InStep(m, store[k])

\* mpc_client.dart:148, "Recovery never changes key identity": what keygen and
\* recover return names a key the server has, by the id and the address.
ResultNamesTheKey ==
    \A o \in Ops : op[o].at = "returned" /\ op[o].kind \in {"keygen", "recover"} =>
        LET r == op[o].result
        IN  store[r.id] # None /\ r.address = Address(store[r.id]) /\ r.id = op[o].key

\* An exported key is the private key; only a key that was handed out is marked.
ExportIsTheKey ==
    /\ \A o \in Ops : op[o].at = "returned" /\ op[o].kind = "export" =>
          op[o].result.key = SecretOf(op[o].key)
    /\ \A x \in exported : \E o \in Ops :
          op[o].at = "returned" /\ op[o].kind = "export" /\ op[o].result.key = x[2]

\* No signature is returned by a sign that the host calls after the export of
\* the key, on either curve, though the server goes along.
ExportedKeySignsNoMore ==
    \A o \in Ops : op[o].at = "returned" /\ op[o].kind = "sign" => ~op[o].late

\* A session is in the engine of its key's curve: that of the request for a
\* new key, though the server may name no curve for secp256k1.
ReachesItsEngine ==
    \A o \in Ops : eng[o] # None =>
        eng[o].curve = IF op[o].kind = "keygen" THEN op[o].curve
                       ELSE store[op[o].key].curve

\* An operation that returns leaves no session in the engine, but for a
\* secp256k1 signature that the server answered with.
OnlySignLeavesSession ==
    \A o \in Ops : op[o].at = "returned" /\ eng[o] # None =>
        op[o].kind = "sign" /\ eng[o].curve = Secp

\* README.md:335, "Session state is ephemeral and cleaned up after protocol
\* completion": an operation that returned has left no session in the engine.
NoSessionAfterReturn ==
    \A o \in Ops : op[o].at = "returned" => eng[o] = None

\* Every operation returns or throws, if the transport ends every request and
\* the engine every call.
EveryOperationEnds ==
    \A o \in Ops :
        (op[o].at \in {"send", "await"}) ~> (op[o].at \in {"returned", "failed"})
=============================================================================
