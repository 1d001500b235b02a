------------------------- MODULE WalletClientProofs -------------------------
(***************************************************************************)
(* Proofs about WalletClient, for every set of operations, every prime     *)
(* field, every set of slopes and of secrets.                              *)
(*                                                                         *)
(* The invariant IInv says of every operation that its share, the sessions *)
(* of the two sides and its result are of its key, and of every share that *)
(* is kept that it is on the curve its key was made on; curves and keys of *)
(* shares never change (Grows), so a step need only be checked for the     *)
(* operation that makes it (CallsOn).                                      *)
(***************************************************************************)
EXTENDS WalletClient, TLAPS

-----------------------------------------------------------------------------
(* Shares and the functions on them.                                       *)

\* A remainder is in the field.
LEMMA FieldMod == ASSUME NEW a \in Int PROVE a % P \in Field
  BY PrimeAssumption DEF Field

\* Every key has a private key.
LEMMA SecretType == ASSUME NEW k \in Keys PROVE SecretOf(k) \in Field
  BY WalletAssumption, FieldMod DEF SecretOf, Keys, Old

\* What a dealt share is.
LEMMA PointType ==
    ASSUME NEW c \in Curves, NEW x \in {1, 2}, NEW k \in Keys, NEW slope \in Shifts \cup {1}
    PROVE  /\ Point(c, x, k, slope) \in Material
           /\ Point(c, x, k, slope).curve = c
           /\ Point(c, x, k, slope).vk = SecretOf(k)
  <1>1. SecretOf(k) \in Field /\ SecretOf(k) \in Int /\ slope \in Int
    BY SecretType, WalletAssumption, PrimeAssumption DEF Field
  <1>2. slope * x \in Int
    BY <1>1
  <1>3. (SecretOf(k) + slope * x) % P \in Field
    BY <1>1, <1>2, FieldMod
  <1> QED
    BY <1>1, <1>3 DEF Point, Material

\* A refresh changes neither the curve nor the public key.
LEMMA RefreshType ==
    ASSUME NEW m \in Material, NEW slope \in Shifts \cup {1}
    PROVE  /\ Refresh(m, slope) \in Material
           /\ Refresh(m, slope).curve = m.curve
           /\ Refresh(m, slope).vk = m.vk
  <1>1. m.x \in Int /\ m.s \in Int /\ slope \in Int
    BY WalletAssumption DEF Material, Field
  <1>2. slope * m.x \in Int
    BY <1>1
  <1>3. (m.s + slope * m.x) % P \in Field
    BY <1>1, <1>2, FieldMod
  <1>4. Refresh(m, slope) = [m EXCEPT !.s = (m.s + slope * m.x) % P]
    BY DEF Refresh, Material
  <1> QED
    BY <1>3, <1>4 DEF Material

\* What the engines hand out holds the share.
LEMMA EmitType ==
    ASSUME NEW m \in Material
    PROVE  Emit(m) \in ShareString /\ Emit(m).bytes = m
  BY DEF Emit, V2, Raw, ShareString, Tags, Material, Curves

\* An address is one of its public key.
LEMMA AddressType ==
    ASSUME NEW m \in Material
    PROVE  Address(m) \in {"evm", "solana"} \X Field
  BY DEF Address, SolanaAddress, EvmAddress, Material

\* All forms of a share hold it, or nothing.
LEMMA FormsType ==
    ASSUME NEW m \in Material, NEW sh \in Forms(m)
    PROVE  sh \in ShareString /\ (sh.bytes = m \/ sh.bytes = None)
  <1>1. sh \in {Raw(m), V2(m.curve, m), V2("p256", m), Junk}
    BY DEF Forms
  <1>2. m.curve \in Tags /\ "p256" \in Tags
    BY DEF Material, Tags
  <1>3. CASE sh = Raw(m)
    BY <1>3 DEF Raw, ShareString
  <1>4. CASE sh = V2(m.curve, m) \/ sh = V2("p256", m)
    BY <1>2, <1>4 DEF V2, ShareString
  <1>5. CASE sh = Junk
    BY <1>5 DEF Junk, ShareString
  <1> QED
    BY <1>1, <1>3, <1>4, <1>5

\* Whatever is decoded are the bytes of the share.
LEMMA DecodeBytes ==
    ASSUME NEW sh \in ShareString, Decode(sh) # None
    PROVE  Decode(sh).bytes = sh.bytes
  BY DEF Decode

\* A share that an engine reads is a share of its curve.
LEMMA SignReads ==
    ASSUME NEW sh \in ShareString, ShareToSign(sh) # None
    PROVE  /\ ShareToSign(sh) = sh.bytes /\ sh.bytes \in Material
           /\ sh.bytes.curve = RouteOf(sh)
  BY DecodeBytes
     DEF ShareToSign, ExtractShareMaterial, SecpShareToSign, FromBytes, RouteOf, IsEd,
         ShareString

LEMMA RefreshReads ==
    ASSUME NEW sh \in ShareString, ShareToRefresh(sh) # None
    PROVE  /\ ShareToRefresh(sh) = sh.bytes /\ sh.bytes \in Material
           /\ sh.bytes.curve = RouteOf(sh)
  BY DecodeBytes
     DEF ShareToRefresh, ExtractShareMaterial, RawShare, FromBytes, RouteOf, IsEd,
         ShareString

\* An export gives the private key of the share it was given, and marks it.
LEMMA ExportReads ==
    ASSUME NEW sh \in ShareString, NEW server, Export(sh, server) # None
    PROVE  /\ sh.bytes \in Material
           /\ Export(sh, server).key = sh.bytes.vk
           /\ Export(sh, server).mark = <<sh.bytes.curve, sh.bytes.vk>>
  <1>1. CASE IsEd(sh)
    <2> DEFINE m == ExtractShareMaterial(sh)
               n == ExtractShareMaterial(server)
    <2>1. m # None /\ InStep(m, n) /\ Export(sh, server) = Exported(m, n)
      BY <1>1 DEF Export, ExportFrost
    <2>2. m = sh.bytes /\ sh.bytes \in Material
      BY <1>1, <2>1, DecodeBytes DEF ExtractShareMaterial, FromBytes, IsEd, ShareString
    <2> QED
      BY <2>1, <2>2 DEF InStep, Exported, Mark
  <1>2. CASE ~IsEd(sh)
    <2> DEFINE m == RawShare(sh)
               n == RawShare(server)
    <2>1. m # None /\ InStep(m, n) /\ Export(sh, server) = Exported(m, n)
      BY <1>2 DEF Export, ExportSecp
    <2>2. m = sh.bytes /\ sh.bytes \in Material
      BY <2>1 DEF RawShare, FromBytes, ShareString
    <2> QED
      BY <2>1, <2>2 DEF InStep, Exported, Mark
  <1> QED
    BY <1>1, <1>2

\* A backup holds its share, and gives it back or nothing.
LEMMA BackupType ==
    ASSUME NEW sh \in ShareString, NEW secret \in Secrets
    PROVE  /\ DeriveBackupEnvelope(sh, secret) \in Backup
           /\ DeriveBackupEnvelope(sh, secret).share = sh
  BY DEF DeriveBackupEnvelope, EncryptShare, Backup

LEMMA BackupOpens ==
    ASSUME NEW b \in Backup \cup {None}, NEW secret,
           DecryptBackupShare(b, secret) # None
    PROVE  b \in Backup /\ DecryptBackupShare(b, secret) = b.share
  BY DEF DecryptBackupShare, DecryptShareBytes

-----------------------------------------------------------------------------
(* The inductive invariant.                                                *)

\* m is a share of key k, on its curve.
Holds(m, k, st) ==
    /\ m \in Material /\ k \in Keys /\ st[k] # None
    /\ m.curve = st[k].curve /\ m.vk = SecretOf(k)

\* An operation's arguments are the key's, and so is its result; a sign of an
\* exported key stays before round 2.
ArgsOK(o, p, st, ex) ==
    /\ p.at = "new" <=> p.kind = "none"
    /\ p.kind # "none" => p.key \in Keys
    /\ p.kind = "keygen" => p.key = o /\ p.curve \in Curves
    /\ p.kind \in {"recover", "sign", "export"} /\ p.at # "failed" =>
          /\ p.share \in ShareString /\ st[p.key] # None
          /\ p.share.bytes # None => Holds(p.share.bytes, p.key, st)
    /\ p.kind = "sign" /\ p.late =>
          /\ p.round = 1 /\ p.at # "returned"
          /\ p.share.bytes # None => Mark(p.share.bytes) \in ex

ResultOK(p, st) ==
    /\ p.at = "returned" /\ p.kind \in {"keygen", "recover"} =>
          /\ p.result.id = p.key /\ st[p.key] # None
          /\ p.result.address = Address(st[p.key])
    /\ p.at = "returned" /\ p.kind = "export" => p.result.key = SecretOf(p.key)

\* An answer comes of the server's session; the last one of a new share comes
\* after it was stored.
WireOK(p, w, s) ==
    /\ w.state # "none" => p.at \in {"await", "failed"}
    /\ p.at = "failed" => w.state \in {"none", "request"}
    /\ w.signed => p.kind = "sign" /\ p.round = 3
    /\ w.state = "answer" /\ p.kind # "export" => s # None
    /\ w.state = "answer" /\ p.kind = "keygen" /\ p.round = 1 => w.env \in Envelopes(p.curve)
    /\ /\ w.state = "answer" /\ p.kind \in {"keygen", "recover"} /\ p.round > 1
       /\ w.env = None \/ s.curve = Secp
       => s.persisted

\* The server's session works on the operation's key.
ServerOK(p, s, st) ==
    s # None =>
        /\ p.kind \in {"keygen", "recover", "sign"} /\ s.key = p.key
        /\ p.kind = "keygen" => s.curve = p.curve
        /\ p.kind # "keygen" => Holds(s.base, p.key, st) /\ s.base.curve = s.curve
        /\ s.persisted => st[p.key] # None

\* So does the engine's; only a signature that the server made outlives its call.
EngineOK(p, e, s, st) ==
    e # None =>
        /\ p.kind \in {"keygen", "recover", "sign"} /\ s # None
        /\ p.kind = "keygen" => e.curve = p.curve
        /\ p.kind # "keygen" => Holds(e.base, p.key, st) /\ e.curve = e.base.curve
        /\ p.kind = "sign" /\ p.round = 3 => e.curve = Secp
        /\ p.at = "returned" => p.kind = "sign" /\ e.curve = Secp

OpOK(o, p, w, e, s, st, ex) ==
    /\ ArgsOK(o, p, st, ex) /\ ResultOK(p, st)
    /\ WireOK(p, w, s) /\ ServerOK(p, s, st) /\ EngineOK(p, e, s, st)

CallsOK == \A o \in Ops : OpOK(o, op[o], wire[o], eng[o], srv[o], store, exported)

\* The server's shares are of their keys, on the curve the key was asked for.
StoreOK ==
    \A k \in Keys : store[k] # None =>
        /\ store[k].vk = SecretOf(k)
        /\ k \in Ops => op[k].kind = "keygen" /\ store[k].curve = op[k].curve

\* What the host keeps of a key is of that key.
WalletOK ==
    \A k \in Keys : wallet[k] # None =>
        /\ Holds(wallet[k].share.bytes, k, store)
        /\ wallet[k].backup # None => Holds(wallet[k].backup.share.bytes, k, store)

ExportedOK ==
    \A x \in exported : \E o \in Ops :
        op[o].at = "returned" /\ op[o].kind = "export" /\ op[o].result.key = x[2]

IInv == TypeOK /\ CallsOK /\ StoreOK /\ WalletOK /\ ExportedOK

-----------------------------------------------------------------------------
(* What a step leaves as it was.                                           *)

\* Replacing an element by itself.
LEMMA SameFun == ASSUME NEW S, NEW T, NEW f \in [S -> T], NEW x \in S
                 PROVE  f = [f EXCEPT ![x] = f[x]]
  OBVIOUS

\* No share changes its curve or its key.
Grows(st, st1) ==
    \A k \in Keys : st[k] # None =>
        st1[k] # None /\ st1[k].curve = st[k].curve /\ st1[k].vk = st[k].vk

LEMMA HoldsOn ==
    ASSUME NEW m, NEW k, NEW st, NEW st1, Grows(st, st1), Holds(m, k, st)
    PROVE  Holds(m, k, st1)
  BY DEF Grows, Holds

\* The address is a function of curve and public key.
LEMMA AddressOn ==
    ASSUME NEW m, NEW n, m.curve = n.curve, m.vk = n.vk
    PROVE  Address(m) = Address(n)
  BY DEF Address, SolanaAddress, EvmAddress

\* What is said of an operation stays true as shares and marks are added.
LEMMA OpOn ==
    ASSUME NEW o, NEW p, NEW w, NEW e, NEW s, NEW st, NEW st1, NEW ex, NEW ex1,
           Grows(st, st1), ex \subseteq ex1, OpOK(o, p, w, e, s, st, ex)
    PROVE  OpOK(o, p, w, e, s, st1, ex1)
  <1>1. ArgsOK(o, p, st1, ex1)
    BY HoldsOn DEF OpOK, ArgsOK, Grows
  <1>2. ResultOK(p, st1)
    <2>1. CASE p.at = "returned" /\ p.kind \in {"keygen", "recover"}
      <3>1. p.key \in Keys /\ st[p.key] # None /\ p.result.id = p.key
            /\ p.result.address = Address(st[p.key])
        BY <2>1 DEF OpOK, ArgsOK, ResultOK
      <3>2. st1[p.key] # None /\ Address(st1[p.key]) = Address(st[p.key])
        BY <3>1, AddressOn DEF Grows
      <3> QED
        BY <2>1, <3>1, <3>2 DEF ResultOK
    <2>2. CASE ~(p.at = "returned" /\ p.kind \in {"keygen", "recover"})
      BY <2>2 DEF OpOK, ResultOK
    <2> QED
      BY <2>1, <2>2
  <1>3. WireOK(p, w, s)
    BY DEF OpOK
  <1>4. ServerOK(p, s, st1)
    BY HoldsOn DEF OpOK, ArgsOK, ServerOK, Grows
  <1>5. EngineOK(p, e, s, st1)
    BY HoldsOn DEF OpOK, EngineOK
  <1> QED
    BY <1>1, <1>2, <1>3, <1>4, <1>5 DEF OpOK

\* A step of one operation.
Moves(o, p, w, e, s) ==
    /\ op' = [op EXCEPT ![o] = p] /\ wire' = [wire EXCEPT ![o] = w]
    /\ eng' = [eng EXCEPT ![o] = e] /\ srv' = [srv EXCEPT ![o] = s]

\* It is enough to look at that operation.
LEMMA CallsOn ==
    ASSUME TypeOK, CallsOK, NEW o \in Ops, NEW p, NEW w, NEW e, NEW s,
           Moves(o, p, w, e, s), Grows(store, store'), exported \subseteq exported',
           OpOK(o, p, w, e, s, store', exported')
    PROVE  CallsOK'
  <1> SUFFICES ASSUME NEW q \in Ops
               PROVE  OpOK(q, op'[q], wire'[q], eng'[q], srv'[q], store', exported')
    BY DEF CallsOK
  <1>1. CASE q = o
    BY <1>1 DEF Moves, TypeOK
  <1>2. CASE q # o
    <2>1. op'[q] = op[q] /\ wire'[q] = wire[q] /\ eng'[q] = eng[q] /\ srv'[q] = srv[q]
      BY <1>2 DEF Moves, TypeOK
    <2>2. OpOK(q, op[q], wire[q], eng[q], srv[q], store, exported)
      BY DEF CallsOK
    <2> QED
      BY <2>1, <2>2, OpOn
  <1> QED
    BY <1>1, <1>2

\* A step that leaves shares and marks alone.
LEMMA StepOn ==
    ASSUME IInv, NEW o \in Ops, NEW p \in Op, NEW w \in Wire, NEW e \in Session \cup {None},
           NEW s \in ServerSession \cup {None},
           Moves(o, p, w, e, s), UNCHANGED <<store, wallet, exported, refreshes>>,
           torn' \subseteq Keys,
           op[o].kind = "keygen" => p.kind = "keygen" /\ p.curve = op[o].curve,
           op[o].at # "returned",
           OpOK(o, p, w, e, s, store, exported)
    PROVE  IInv'
  <1>1. TypeOK'
    BY DEF IInv, TypeOK, Moves
  <1>2. Grows(store, store')
    BY DEF Grows
  <1>3. CallsOK'
    BY <1>2, CallsOn DEF IInv
  <1>4. StoreOK'
    BY DEF IInv, StoreOK, Moves, TypeOK
  <1>5. WalletOK'
    BY DEF IInv, WalletOK
  <1>6. ExportedOK'
    BY DEF IInv, ExportedOK, Moves, TypeOK
  <1> QED
    BY <1>1, <1>3, <1>4, <1>5, <1>6 DEF IInv

\* Before the first step.
LEMMA Start == Init => IInv
  <1> SUFFICES ASSUME NEW c \in Curves,
          op = [o \in Ops |-> NewOp], wire = [o \in Ops |-> NoWire],
          eng = [o \in Ops |-> None], srv = [o \in Ops |-> None],
          store = [k \in Keys |-> IF k = Old THEN Point(c, 2, Old, 1) ELSE None],
          wallet = [k \in Keys |-> IF k = Old
             THEN [share |-> Emit(Point(c, 1, Old, 1)), ver |-> 1, stale |-> FALSE,
                   backup |-> DeriveBackupEnvelope(Emit(Point(c, 1, Old, 1)),
                                 CHOOSE pin \in Secrets : TRUE)]
             ELSE None],
          exported = {}, torn = {}, refreshes = [k \in Keys |-> 0]
        PROVE IInv
    BY DEF Init
  <1>1. Old \in Keys /\ Old \notin Ops
    BY WalletAssumption DEF Keys, Old
  <1>2. /\ Point(c, 1, Old, 1) \in Material /\ Point(c, 2, Old, 1) \in Material
        /\ Point(c, 1, Old, 1).curve = c /\ Point(c, 2, Old, 1).curve = c
        /\ Point(c, 1, Old, 1).vk = SecretOf(Old) /\ Point(c, 2, Old, 1).vk = SecretOf(Old)
    BY <1>1, PointType
  <1>3. (CHOOSE pin \in Secrets : TRUE) \in Secrets
    BY WalletAssumption
  <1>4. PICK sh \in ShareString : sh = Emit(Point(c, 1, Old, 1))
    BY <1>2, EmitType
  <1>5. sh.bytes = Point(c, 1, Old, 1)
    BY <1>2, <1>4, EmitType
  <1>6. PICK b \in Backup : /\ b = DeriveBackupEnvelope(sh, CHOOSE pin \in Secrets : TRUE)
                            /\ b.share = sh
    BY <1>3, BackupType
  <1>7. wallet = [k \in Keys |-> IF k = Old
             THEN [share |-> sh, ver |-> 1, stale |-> FALSE, backup |-> b] ELSE None]
    BY <1>4, <1>6
  <1>8. TypeOK
    <2>1. op \in [Ops -> Op] /\ wire \in [Ops -> Wire]
      BY DEF NewOp, Op, NoWire, Wire
    <2>2. wallet \in [Keys -> Wallet \cup {None}]
      BY <1>7 DEF Wallet
    <2>3. store \in [Keys -> Material \cup {None}]
      BY <1>2
    <2> QED
      BY <2>1, <2>2, <2>3 DEF TypeOK
  <1>9. CallsOK
    BY DEF CallsOK, OpOK, ArgsOK, ResultOK, WireOK, ServerOK, EngineOK, NewOp, NoWire
  <1>10. StoreOK
    BY <1>1, <1>2 DEF StoreOK
  <1>11. store[Old] = Point(c, 2, Old, 1) /\ store[Old] \in Material
    BY <1>1, <1>2
  <1>12. Holds(Point(c, 1, Old, 1), Old, store)
    BY <1>1, <1>2, <1>11, NoneAssumption DEF Holds
  <1>13. WalletOK
    BY <1>1, <1>5, <1>6, <1>7, <1>12 DEF WalletOK
  <1>14. ExportedOK
    BY DEF ExportedOK
  <1> QED
    BY <1>8, <1>9, <1>10, <1>13, <1>14 DEF IInv

-----------------------------------------------------------------------------
(* The host and the transport.                                             *)

\* What is known of the operation that steps.
LEMMA ThisOp ==
    ASSUME IInv, NEW o \in Ops
    PROVE  /\ op[o] \in Op /\ wire[o] \in Wire
           /\ eng[o] \in Session \cup {None} /\ srv[o] \in ServerSession \cup {None}
           /\ OpOK(o, op[o], wire[o], eng[o], srv[o], store, exported)
  BY DEF IInv, TypeOK, CallsOK

LEMMA BeginOn ==
    ASSUME IInv, NEW o \in Ops, NEW p \in Op, Begin(o, p), p.kind # "none",
           p.at \in {"send", "failed"}, ArgsOK(o, p, store, exported)
    PROVE  IInv'
  <1>1. op[o].kind = "none" /\ op[o].at = "new"
    BY ThisOp DEF Begin, OpOK, ArgsOK
  <1>2. wire[o].state = "none" /\ srv[o] = None /\ eng[o] = None /\ ~wire[o].signed
    BY <1>1, ThisOp DEF OpOK, WireOK, ServerOK, EngineOK
  <1>3. OpOK(o, p, wire[o], eng[o], srv[o], store, exported)
    BY <1>2 DEF OpOK, ResultOK, WireOK, ServerOK, EngineOK
  <1>4. Moves(o, p, wire[o], eng[o], srv[o])
    BY SameFun DEF Begin, Moves, IInv, TypeOK
  <1>5. torn' \subseteq Keys /\ UNCHANGED <<store, wallet, exported, refreshes>>
    BY DEF Begin, IInv, TypeOK
  <1>6. PICK w, e, s : w = wire[o] /\ e = eng[o] /\ s = srv[o]
    OBVIOUS
  <1> QED
    BY <1>1, <1>3, <1>4, <1>5, <1>6, ThisOp, StepOn

LEMMA KeygenOn ==
    ASSUME IInv, NEW o \in Ops, NEW c \in Curves, CallKeygen(o, c)
    PROVE  IInv'
  <1>1. PICK p : p = [NewOp EXCEPT !.kind = "keygen", !.at = "send", !.key = o, !.curve = c]
    OBVIOUS
  <1>2. p = [kind |-> "keygen", at |-> "send", key |-> o, curve |-> c, share |-> None,
             msg |-> None, ver |-> 0, renew |-> None, round |-> 1, late |-> FALSE,
             seen |-> None, result |-> None]
    BY <1>1 DEF NewOp
  <1>3. p.kind = "keygen" /\ p.at = "send" /\ p.key = o /\ p.curve = c /\ ~p.late
    BY <1>2
  <1>4. p \in Op
    BY <1>2 DEF Op, Keys
  <1>5. ArgsOK(o, p, store, exported)
    BY <1>3 DEF ArgsOK, Keys
  <1> QED
    BY <1>1, <1>3, <1>4, <1>5, BeginOn DEF CallKeygen

LEMMA RecoverOn ==
    ASSUME IInv, NEW o \in Ops, NEW k \in Keys, NEW secret \in Secrets,
           NEW renew \in Secrets \cup {None}, CallRecover(o, k, secret, renew)
    PROVE  IInv'
  <1>1. wallet[k] # None /\ wallet[k] \in Wallet
    BY DEF CallRecover, IInv, TypeOK
  <1>2. wallet[k].backup \in Backup \cup {None} /\ wallet[k].ver \in Nat
    BY <1>1 DEF Wallet
  <1>3. PICK sh : sh = DecryptBackupShare(wallet[k].backup, secret)
    OBVIOUS
  <1>11. PICK n \in Nat \cup {None} : n = IF Refreshing(k) THEN None ELSE refreshes[k]
    BY DEF IInv, TypeOK
  <1>4. PICK p : p = [NewOp EXCEPT !.kind = "recover", !.key = k, !.share = sh,
                         !.at = IF sh = None THEN "failed" ELSE "send",
                         !.ver = wallet[k].ver, !.renew = renew, !.seen = n]
    OBVIOUS
  <1>5. Begin(o, p)
    BY <1>3, <1>4, <1>11 DEF CallRecover
  <1>6. sh # None => sh \in ShareString /\ Holds(sh.bytes, k, store)
    <2> SUFFICES ASSUME sh # None
                 PROVE  sh \in ShareString /\ Holds(sh.bytes, k, store)
      OBVIOUS
    <2>1. wallet[k].backup \in Backup /\ sh = wallet[k].backup.share
      BY <1>2, <1>3, BackupOpens
    <2>2. wallet[k].backup # None
      BY <1>3 DEF DecryptBackupShare
    <2> QED
      BY <1>1, <2>1, <2>2 DEF Backup, IInv, WalletOK
  <1>7. p = [kind |-> "recover", at |-> IF sh = None THEN "failed" ELSE "send", key |-> k,
             curve |-> None, share |-> sh, msg |-> None, ver |-> wallet[k].ver,
             renew |-> renew, round |-> 1, late |-> FALSE, seen |-> n, result |-> None]
    BY <1>4 DEF NewOp
  <1>8. /\ p.kind = "recover" /\ p.at = (IF sh = None THEN "failed" ELSE "send")
        /\ p.key = k /\ p.share = sh
    BY <1>7
  <1>9. p \in Op
    BY <1>2, <1>6, <1>7 DEF Op
  <1>10. ArgsOK(o, p, store, exported)
    BY <1>6, <1>8 DEF ArgsOK, Holds
  <1> QED
    BY <1>5, <1>8, <1>9, <1>10, BeginOn

LEMMA WithShareOn ==
    ASSUME IInv, NEW o \in Ops, NEW kind \in {"sign", "export"}, NEW k \in Keys,
           NEW msg \in {"digest", "text", None}, CallWithShare(o, kind, k, msg)
    PROVE  IInv'
  <1>1. wallet[k] # None /\ wallet[k] \in Wallet
    BY DEF CallWithShare, IInv, TypeOK
  <1>2. PICK m : m = wallet[k].share.bytes
    OBVIOUS
  <1>3. Holds(m, k, store) /\ m \in Material
    BY <1>1, <1>2 DEF IInv, WalletOK, Holds
  <1>4. PICK sh \in Forms(m) :
           Begin(o, [NewOp EXCEPT !.kind = kind, !.at = "send", !.key = k, !.share = sh,
                          !.msg = msg, !.late = Mark(m) \in exported])
    BY <1>2 DEF CallWithShare
  <1>5. sh \in ShareString /\ (sh.bytes = m \/ sh.bytes = None)
    BY <1>3, FormsType
  <1>6. PICK p : p = [NewOp EXCEPT !.kind = kind, !.at = "send", !.key = k, !.share = sh,
                          !.msg = msg, !.late = Mark(m) \in exported]
    OBVIOUS
  <1>7. p = [kind |-> kind, at |-> "send", key |-> k, curve |-> None, share |-> sh,
             msg |-> msg, ver |-> 0, renew |-> None, round |-> 1,
             late |-> Mark(m) \in exported, seen |-> None, result |-> None]
    BY <1>6 DEF NewOp
  <1>8. /\ p.kind = kind /\ p.at = "send" /\ p.key = k /\ p.share = sh
        /\ p.late <=> Mark(m) \in exported
        /\ p.round = 1
    BY <1>7
  <1>9. p \in Op
    BY <1>5, <1>7 DEF Op
  <1>10. ArgsOK(o, p, store, exported)
    BY <1>3, <1>5, <1>8 DEF ArgsOK, Holds
  <1>11. Begin(o, p)
    BY <1>4, <1>6
  <1> QED
    BY <1>8, <1>9, <1>10, <1>11, BeginOn

\* The backup is of the share the host keeps.
LEMMA BackUpOn ==
    ASSUME IInv, NEW k \in Keys, NEW secret \in Secrets, BackUp(k, secret)
    PROVE  IInv'
  <1>1. wallet[k] # None /\ wallet[k] \in Wallet
    BY DEF BackUp, IInv, TypeOK
  <1>2. PICK b \in Backup : /\ b = DeriveBackupEnvelope(wallet[k].share, secret)
                            /\ b.share = wallet[k].share
    BY <1>1, BackupType DEF Wallet
  <1>3. wallet' = [wallet EXCEPT ![k].stale = FALSE, ![k].backup = b]
    BY <1>2 DEF BackUp
  <1>4. PICK r : r = [wallet[k] EXCEPT !.stale = FALSE, !.backup = b]
    OBVIOUS
  <1>5. r \in Wallet /\ r.share = wallet[k].share /\ r.backup = b
    BY <1>1, <1>4 DEF Wallet
  <1>6. wallet' = [wallet EXCEPT ![k] = r]
    BY <1>3, <1>4 DEF IInv, TypeOK
  <1>7. UNCHANGED <<op, wire, eng, srv, store, exported, torn, refreshes>>
    BY DEF BackUp
  <1>8. TypeOK'
    BY <1>5, <1>6, <1>7 DEF IInv, TypeOK
  <1>9. WalletOK'
    BY <1>1, <1>2, <1>5, <1>6, <1>7 DEF IInv, TypeOK, WalletOK
  <1>10. CallsOK' /\ StoreOK' /\ ExportedOK'
    BY <1>7 DEF IInv, CallsOK, StoreOK, ExportedOK
  <1> QED
    BY <1>8, <1>9, <1>10 DEF IInv

\* An operation whose stage changes, and nothing else of it.
LEMMA SetAt ==
    ASSUME NEW r \in Op, NEW a \in {"new", "send", "await", "returned", "failed"},
           NEW p, p = [r EXCEPT !.at = a]
    PROVE  /\ p \in Op /\ p.at = a /\ p.kind = r.kind /\ p.key = r.key /\ p.curve = r.curve
           /\ p.share = r.share /\ p.round = r.round /\ p.late = r.late
           /\ p.result = r.result /\ p.ver = r.ver /\ p.seen = r.seen
  BY DEF Op

LEMMA NoWireIs ==
    NoWire \in Wire /\ NoWire.state = "none" /\ ~NoWire.signed
  BY DEF NoWire, Wire

LEMMA SendOn ==
    ASSUME IInv, NEW o \in Ops, Send(o)
    PROVE  IInv'
  <1>1. op[o].at = "send"
    BY DEF Send
  <1>2. PICK p : p = [op[o] EXCEPT !.at = "await"]
    OBVIOUS
  <1>3. PICK w : w = [NoWire EXCEPT !.state = "request"]
    OBVIOUS
  <1>4. w \in Wire /\ w.state = "request" /\ ~w.signed
    BY <1>3 DEF NoWire, Wire
  <1>5. PICK e, s : e = eng[o] /\ s = srv[o]
    OBVIOUS
  <1>6. /\ p \in Op /\ p.at = "await" /\ p.kind = op[o].kind /\ p.key = op[o].key
        /\ p.curve = op[o].curve /\ p.share = op[o].share /\ p.round = op[o].round
        /\ p.late = op[o].late /\ p.result = op[o].result
    BY <1>2, SetAt, ThisOp
  <1>7. OpOK(o, p, w, e, s, store, exported)
    BY <1>1, <1>4, <1>5, <1>6, ThisOp
       DEF OpOK, ArgsOK, ResultOK, WireOK, ServerOK, EngineOK
  <1>8. Moves(o, p, w, e, s)
    BY <1>2, <1>3, <1>5, SameFun DEF Send, Moves, IInv, TypeOK
  <1>9. torn' \subseteq Keys /\ UNCHANGED <<store, wallet, exported, refreshes>>
    BY DEF Send, IInv, TypeOK
  <1> QED
    BY <1>1, <1>4, <1>5, <1>6, <1>7, <1>8, <1>9, ThisOp, StepOn

\* An operation that throws.
LEMMA FailOn ==
    ASSUME IInv, NEW o \in Ops, NEW w \in {NoWire, wire[o]}, NEW e \in {eng[o], None},
           op[o].at = "await", Fail(o), w.state \in {"none", "request"},
           wire' = [wire EXCEPT ![o] = w], eng' = [eng EXCEPT ![o] = e],
           UNCHANGED <<srv, store, wallet, exported, refreshes>>
    PROVE  IInv'
  <1>1. PICK p, s, e1, w1 : /\ p = [op[o] EXCEPT !.at = "failed"] /\ s = srv[o]
                            /\ e1 = e /\ w1 = w
    OBVIOUS
  <1>2. /\ p \in Op /\ p.at = "failed" /\ p.kind = op[o].kind /\ p.key = op[o].key
        /\ p.curve = op[o].curve /\ p.share = op[o].share /\ p.round = op[o].round
        /\ p.late = op[o].late /\ p.result = op[o].result
    BY <1>1, SetAt, ThisOp
  <1>3. /\ w1 \in Wire /\ w1.state \in {"none", "request"}
        /\ w1.signed => wire[o].signed
        /\ e1 \in Session \cup {None} /\ e1 \in {eng[o], None}
    BY <1>1, NoWireIs, ThisOp
  <1>4. OpOK(o, p, w1, e1, s, store, exported)
    BY <1>1, <1>2, <1>3, ThisOp
       DEF OpOK, ArgsOK, ResultOK, WireOK, ServerOK, EngineOK
  <1>5. Moves(o, p, w1, e1, s)
    BY <1>1, SameFun DEF Fail, Moves, IInv, TypeOK
  <1>6. op[o].kind = "recover" => op[o].key \in Keys
    BY ThisOp DEF OpOK, ArgsOK
  <1>7. torn' \subseteq Keys
    BY <1>6 DEF Fail, IInv, TypeOK
  <1> QED
    BY <1>1, <1>2, <1>3, <1>4, <1>5, <1>7, ThisOp, StepOn, ZenonT(60)

LEMMA TransportFailsOn ==
    ASSUME IInv, NEW o \in Ops, TransportFails(o)
    PROVE  IInv'
  <1>1. eng' = [eng EXCEPT ![o] = eng[o]]
    BY SameFun DEF TransportFails, IInv, TypeOK
  <1>2. CASE wire' = [wire EXCEPT ![o] = NoWire]
    BY <1>1, <1>2, NoWireIs, FailOn DEF TransportFails
  <1>3. CASE wire[o].state = "request" /\ UNCHANGED wire
    <2>1. wire' = [wire EXCEPT ![o] = wire[o]]
      BY <1>3, SameFun DEF IInv, TypeOK
    <2> QED
      BY <1>1, <1>3, <2>1, FailOn DEF TransportFails
  <1> QED
    BY <1>2, <1>3 DEF TransportFails

LEMMA RpcErrorOn ==
    ASSUME IInv, NEW o \in Ops, RpcError(o)
    PROVE  IInv'
  <1>1. eng' = [eng EXCEPT ![o] = eng[o]]
    BY SameFun DEF RpcError, IInv, TypeOK
  <1> QED
    BY <1>1, NoWireIs, FailOn DEF RpcError

LEMMA EngineFailsOn ==
    ASSUME IInv, NEW o \in Ops, EngineFails(o)
    PROVE  IInv'
  <1>1. eng' = [eng EXCEPT ![o] = eng[o]] \/ eng' = [eng EXCEPT ![o] = None]
    BY SameFun DEF EngineFails, IInv, TypeOK
  <1> QED
    BY <1>1, NoWireIs, FailOn DEF EngineFails, Got, FailNow

-----------------------------------------------------------------------------
(* The server.                                                             *)

\* A step of the server: it answers, and may add to the shares.
LEMMA AnswerOn ==
    ASSUME IInv, NEW o \in Ops, Asked(o), NEW w \in Wire, NEW s \in ServerSession \cup {None},
           Answer(o, w), srv' = [srv EXCEPT ![o] = s], UNCHANGED <<op, eng, wallet, exported>>,
           store' \in [Keys -> Material \cup {None}], Grows(store, store'), StoreOK',
           torn' \subseteq Keys, refreshes' \in [Keys -> Nat],
           op[o].at # "failed" => WireOK(op[o], w, s),
           ServerOK(op[o], s, store'), eng[o] # None => s # None
    PROVE  IInv'
  <1>1. PICK w1 : w1 = IF op[o].at = "failed" THEN NoWire ELSE w
    OBVIOUS
  <1>2. PICK p, e : p = op[o] /\ e = eng[o]
    OBVIOUS
  <1>3. w1 \in Wire
    BY <1>1, NoWireIs
  <1>4. Moves(o, p, w1, e, s)
    BY <1>1, <1>2, SameFun DEF Moves, Answer, IInv, TypeOK
  <1>5. WireOK(p, w1, s)
    <2>1. CASE op[o].at = "failed"
      BY <1>1, <1>2, <2>1, NoWireIs DEF WireOK
    <2>2. CASE op[o].at # "failed"
      BY <1>1, <1>2, <2>2
    <2> QED
      BY <2>1, <2>2
  <1>6. OpOK(o, p, wire[o], e, srv[o], store', exported')
    BY <1>2, ThisOp, OpOn
  <1>7. EngineOK(p, e, s, store')
    BY <1>2, <1>6 DEF OpOK, EngineOK
  <1>8. OpOK(o, p, w1, e, s, store', exported')
    BY <1>2, <1>5, <1>6, <1>7 DEF OpOK
  <1>9. TypeOK'
    BY <1>3, <1>4 DEF IInv, TypeOK, Moves
  <1>10. CallsOK'
    BY <1>4, <1>8, CallsOn DEF IInv
  <1>11. WalletOK'
    <2> SUFFICES ASSUME NEW k \in Keys, wallet'[k] # None
                 PROVE  /\ Holds(wallet'[k].share.bytes, k, store')
                        /\ wallet'[k].backup # None =>
                              Holds(wallet'[k].backup.share.bytes, k, store')
      BY DEF WalletOK
    <2> QED
      BY HoldsOn DEF IInv, WalletOK
  <1>12. ExportedOK'
    BY DEF IInv, ExportedOK
  <1> QED
    BY <1>9, <1>10, <1>11, <1>12 DEF IInv

\* A step of the server that stores nothing.
LEMMA OnlyAnswerOn ==
    ASSUME IInv, NEW o \in Ops, Asked(o), NEW w \in Wire, NEW s \in ServerSession \cup {None},
           Answer(o, w), srv' = [srv EXCEPT ![o] = s],
           UNCHANGED <<op, eng, store, wallet, exported, torn, refreshes>>,
           op[o].at # "failed" => WireOK(op[o], w, s),
           ServerOK(op[o], s, store), eng[o] # None => s # None
    PROVE  IInv'
  <1>1. store' \in [Keys -> Material \cup {None}] /\ Grows(store, store') /\ StoreOK'
    BY DEF Grows, StoreOK, IInv, TypeOK
  <1>2. torn' \subseteq Keys /\ refreshes' \in [Keys -> Nat]
    BY DEF IInv, TypeOK
  <1> QED
    BY <1>1, <1>2, AnswerOn

LEMMA RefusesOn ==
    ASSUME IInv, NEW o \in Ops, ServerRefuses(o)
    PROVE  IInv'
  <1>1. PICK w, s : w = [NoWire EXCEPT !.state = "error"] /\ s = srv[o]
    OBVIOUS
  <1>2. w \in Wire /\ w.state = "error" /\ ~w.signed
    BY <1>1 DEF NoWire, Wire
  <1>3. op[o].at \in {"await", "failed"} /\ ServerOK(op[o], s, store)
        /\ (eng[o] # None => s # None)
    BY <1>1, ThisOp DEF ServerRefuses, Asked, OpOK, WireOK, EngineOK
  <1>4. op[o].at # "failed" => WireOK(op[o], w, s)
    BY <1>2, <1>3 DEF WireOK
  <1>5. srv' = [srv EXCEPT ![o] = s]
    BY <1>1, SameFun DEF ServerRefuses, IInv, TypeOK
  <1> QED
    BY <1>1, <1>2, <1>3, <1>4, <1>5, ThisOp, OnlyAnswerOn DEF ServerRefuses

LEMMA BeginsOn ==
    ASSUME IInv, NEW o \in Ops, ServerBegins(o)
    PROVE  IInv'
  <1>1. PICK base, c :
          /\ base = IF op[o].kind = "keygen" THEN None ELSE store[op[o].key]
          /\ c = IF op[o].kind = "keygen" THEN op[o].curve ELSE base.curve
    OBVIOUS
  <1>2. /\ op[o].round = 1 /\ op[o].kind # "export" /\ Asked(o)
        /\ op[o].kind = "keygen" \/ store[op[o].key] # None
    BY DEF ServerBegins
  <1>3. PICK d \in IF op[o].kind = "sign" THEN {1} ELSE Shifts :
          srv' = [srv EXCEPT ![o] = [curve |-> c, key |-> op[o].key, base |-> base,
                                     shift |-> d, persisted |-> FALSE]]
    BY <1>1 DEF ServerBegins
  <1>4. PICK env \in Envelopes(c) : Answer(o, Payload(env))
    BY <1>1 DEF ServerBegins
  <1>5. op[o].at \in {"await", "failed"} /\ wire[o].state = "request"
    BY <1>2, ThisOp DEF Asked, OpOK, WireOK
  <1>6. /\ op[o].kind \in {"keygen", "recover", "sign"} /\ op[o].key \in Keys
        /\ op[o].kind = "keygen" => op[o].key = o /\ op[o].curve \in Curves
    BY <1>2, <1>5, ThisOp DEF OpOK, ArgsOK, Op
  <1>7. op[o].kind # "keygen" => Holds(base, op[o].key, store) /\ base.curve = c
    BY <1>1, <1>2, <1>6 DEF IInv, TypeOK, StoreOK, Holds
  <1>8. c \in Curves /\ base \in Material \cup {None}
    BY <1>1, <1>6, <1>7 DEF Holds, Material
  <1>9. PICK s : s = [curve |-> c, key |-> op[o].key, base |-> base,
                      shift |-> d, persisted |-> FALSE]
    OBVIOUS
  <1>10. s \in ServerSession /\ s.curve = c /\ s.key = op[o].key /\ s.base = base
         /\ ~s.persisted
    BY <1>6, <1>8, <1>9 DEF ServerSession
  <1>11. s # None
    BY <1>10, RecordAssumption
  <1>12. env \in Envelope
    BY DEF Envelopes, Envelope, Tags, Curves
  <1>13. PICK w : w = Payload(env)
    OBVIOUS
  <1>14. w \in Wire /\ w.state = "answer" /\ w.env = env /\ ~w.signed
    BY <1>12, <1>13 DEF Payload, NoWire, Wire
  <1>15. ServerOK(op[o], s, store)
    BY <1>1, <1>6, <1>7, <1>10 DEF ServerOK
  <1>16. op[o].at # "failed" => WireOK(op[o], w, s)
    BY <1>1, <1>2, <1>5, <1>11, <1>14 DEF WireOK
  <1>17. UNCHANGED <<op, eng, store, wallet, exported, torn, refreshes>>
    BY DEF ServerBegins
  <1> QED
    BY <1>2, <1>3, <1>4, <1>9, <1>10, <1>11, <1>13, <1>14, <1>15, <1>16, <1>17, OnlyAnswerOn

\* The share that is stored is the key's, as the one before it.
LEMMA PersistOn ==
    ASSUME IInv, NEW o \in Ops, srv[o] # None, op[o].kind # "sign", Persist(o), UNCHANGED op
    PROVE  /\ store' \in [Keys -> Material \cup {None}] /\ Grows(store, store') /\ StoreOK'
           /\ torn' \subseteq Keys /\ refreshes' \in [Keys -> Nat]
           /\ \E s \in ServerSession :
                 /\ srv' = [srv EXCEPT ![o] = s] /\ s.persisted /\ s.curve = srv[o].curve
                 /\ ServerOK(op[o], s, store')
  <1>1. PICK k : k = srv[o].key
    OBVIOUS
  <1>2. /\ srv[o] \in ServerSession /\ k = op[o].key /\ k \in Keys
        /\ op[o].kind \in {"keygen", "recover"}
        /\ op[o].kind = "keygen" => k = o /\ srv[o].curve = op[o].curve
        /\ op[o].kind = "recover" => Holds(srv[o].base, k, store)
                                     /\ srv[o].base.curve = srv[o].curve
    BY <1>1, ThisOp DEF OpOK, ArgsOK, ServerOK, ServerSession
  <1>3. PICK n : n = IF op[o].kind = "keygen" THEN Point(srv[o].curve, 2, k, srv[o].shift)
                     ELSE Refresh(srv[o].base, srv[o].shift)
    OBVIOUS
  <1>4. srv[o].curve \in Curves /\ srv[o].shift \in Shifts \cup {1}
    BY <1>2 DEF ServerSession
  <1>5. n \in Material /\ n.vk = SecretOf(k) /\ n.curve = srv[o].curve
    <2>1. CASE op[o].kind = "keygen"
      BY <1>2, <1>3, <1>4, <2>1, PointType
    <2>2. CASE op[o].kind = "recover"
      <3>1. srv[o].base \in Material /\ srv[o].base.vk = SecretOf(k)
        BY <1>2, <2>2 DEF Holds
      <3> QED
        BY <1>2, <1>3, <1>4, <2>2, <3>1, RefreshType
    <2> QED
      BY <1>2, <2>1, <2>2
  <1>6. store' = [store EXCEPT ![k] = n]
    BY <1>1, <1>3 DEF Persist
  <1>7. n # None
    BY <1>5, NoneAssumption
  <1>8. store' \in [Keys -> Material \cup {None}]
    BY <1>5, <1>6 DEF IInv, TypeOK
  <1>9. /\ store'[k] = n
        /\ \A j \in Keys : j # k => store'[j] = store[j]
    BY <1>2, <1>6 DEF IInv, TypeOK
  <1>10. store[k] # None => n.curve = store[k].curve /\ n.vk = store[k].vk
    BY <1>2, <1>5 DEF IInv, StoreOK, Holds
  <1>11. Grows(store, store')
    BY <1>7, <1>9, <1>10 DEF Grows
  <1>12. k \in Ops => op[k].kind = "keygen" /\ n.curve = op[k].curve
    BY <1>2, <1>5 DEF Holds, IInv, StoreOK
  <1>13. StoreOK'
    BY <1>5, <1>9, <1>12 DEF IInv, StoreOK
  <1>14. torn' \subseteq Keys /\ refreshes' \in [Keys -> Nat]
    BY <1>1, <1>2 DEF Persist, IInv, TypeOK
  <1>15. PICK s : s = [srv[o] EXCEPT !.persisted = TRUE]
    OBVIOUS
  <1>16. /\ s \in ServerSession /\ s.persisted /\ s.curve = srv[o].curve
         /\ s.key = srv[o].key /\ s.base = srv[o].base
    BY <1>2, <1>15 DEF ServerSession
  <1>17. srv' = [srv EXCEPT ![o] = s]
    BY <1>15 DEF Persist, IInv, TypeOK
  <1>18. op[o].kind # "keygen" => Holds(srv[o].base, k, store')
    BY <1>2, <1>11, HoldsOn
  <1>19. ServerOK(op[o], s, store')
    BY <1>1, <1>2, <1>7, <1>9, <1>16, <1>18 DEF ServerOK
  <1> QED
    BY <1>8, <1>11, <1>13, <1>14, <1>16, <1>17, <1>19

LEMMA ContinuesOn ==
    ASSUME IInv, NEW o \in Ops, ServerContinues(o)
    PROVE  IInv'
  <1>1. /\ Asked(o) /\ srv[o] # None /\ eng[o] # None
        /\ op[o].round = 2 \/ (op[o].round = 3 /\ op[o].kind = "sign")
    BY DEF ServerContinues
  <1>2. PICK w : w = Payload([curve |-> None, from |-> 1])
    OBVIOUS
  <1>3. w \in Wire /\ w.state = "answer" /\ ~w.signed /\ w.env \in Envelope
    BY <1>2 DEF Payload, NoWire, Wire, Envelope
  <1>4. w.env # None
    BY <1>3, NoneAssumption
  <1>5. op[o].at \in {"await", "failed"} /\ op[o].round # 1
    BY <1>1, ThisOp DEF Asked, OpOK, WireOK
  <1>6. Answer(o, w) /\ UNCHANGED <<op, eng, wallet, exported>>
    BY <1>2 DEF ServerContinues
  <1>7. CASE op[o].kind # "sign" /\ srv[o].curve = Secp
    <2>1. Persist(o)
      BY <1>7 DEF ServerContinues
    <2>2. /\ store' \in [Keys -> Material \cup {None}] /\ Grows(store, store') /\ StoreOK'
          /\ torn' \subseteq Keys /\ refreshes' \in [Keys -> Nat]
      BY <1>1, <1>6, <1>7, <2>1, PersistOn
    <2>3. PICK s \in ServerSession :
             /\ srv' = [srv EXCEPT ![o] = s] /\ s.persisted /\ s.curve = srv[o].curve
             /\ ServerOK(op[o], s, store')
      BY <1>1, <1>6, <1>7, <2>1, PersistOn
    <2>4. WireOK(op[o], w, s) \/ op[o].at = "failed"
      BY <1>3, <1>5, <2>3, RecordAssumption DEF WireOK
    <2>5. s # None
      BY RecordAssumption
    <2> QED
      BY <1>1, <1>3, <1>6, <2>2, <2>3, <2>4, <2>5, AnswerOn
  <1>8. CASE ~(op[o].kind # "sign" /\ srv[o].curve = Secp)
    <2>1. UNCHANGED <<store, srv, torn, refreshes>>
      BY <1>8 DEF ServerContinues
    <2>2. PICK s : s = srv[o]
      OBVIOUS
    <2>3. srv' = [srv EXCEPT ![o] = s]
      BY <2>1, <2>2, SameFun DEF IInv, TypeOK
    <2>4. s \in ServerSession \cup {None} /\ ServerOK(op[o], s, store) /\ s # None
      BY <1>1, <2>2, ThisOp DEF OpOK
    <2>5. WireOK(op[o], w, s) \/ op[o].at = "failed"
      BY <1>3, <1>4, <1>5, <1>8, <2>2, <2>4 DEF WireOK
    <2> QED
      BY <1>1, <1>3, <1>6, <2>1, <2>3, <2>4, <2>5, OnlyAnswerOn
  <1> QED
    BY <1>7, <1>8

LEMMA FinishesOn ==
    ASSUME IInv, NEW o \in Ops, ServerFinishes(o)
    PROVE  IInv'
  <1>1. Asked(o) /\ srv[o] # None /\ eng[o] # None /\ op[o].round = 3
    BY DEF ServerFinishes
  <1>2. PICK w : w = [Payload(None) EXCEPT !.signed = (op[o].kind = "sign")]
    OBVIOUS
  <1>3. w \in Wire /\ w.state = "answer" /\ (w.signed <=> op[o].kind = "sign") /\ w.env = None
    BY <1>2 DEF Payload, NoWire, Wire
  <1>4. op[o].at \in {"await", "failed"}
    BY <1>1, ThisOp DEF Asked, OpOK, WireOK
  <1>5. Answer(o, w) /\ UNCHANGED <<op, eng, wallet, exported>>
    BY <1>2 DEF ServerFinishes
  <1>6. CASE op[o].kind # "sign" /\ ~srv[o].persisted
    <2>1. Persist(o)
      BY <1>6 DEF ServerFinishes
    <2>2. /\ store' \in [Keys -> Material \cup {None}] /\ Grows(store, store') /\ StoreOK'
          /\ torn' \subseteq Keys /\ refreshes' \in [Keys -> Nat]
      BY <1>1, <1>5, <1>6, <2>1, PersistOn
    <2>3. PICK s \in ServerSession :
             /\ srv' = [srv EXCEPT ![o] = s] /\ s.persisted /\ s.curve = srv[o].curve
             /\ ServerOK(op[o], s, store')
      BY <1>1, <1>5, <1>6, <2>1, PersistOn
    <2>4. WireOK(op[o], w, s) \/ op[o].at = "failed"
      BY <1>1, <1>3, <1>4, <2>3, RecordAssumption DEF WireOK
    <2>5. s # None
      BY RecordAssumption
    <2> QED
      BY <1>1, <1>3, <1>5, <2>2, <2>3, <2>4, <2>5, AnswerOn
  <1>7. CASE ~(op[o].kind # "sign" /\ ~srv[o].persisted)
    <2>1. UNCHANGED <<store, srv, torn, refreshes>>
      BY <1>7 DEF ServerFinishes
    <2>2. PICK s : s = srv[o]
      OBVIOUS
    <2>3. srv' = [srv EXCEPT ![o] = s]
      BY <2>1, <2>2, SameFun DEF IInv, TypeOK
    <2>4. s \in ServerSession \cup {None} /\ ServerOK(op[o], s, store) /\ s # None
      BY <1>1, <2>2, ThisOp DEF OpOK
    <2>5. WireOK(op[o], w, s) \/ op[o].at = "failed"
      BY <1>1, <1>3, <1>4, <1>7, <2>2, <2>4 DEF WireOK
    <2> QED
      BY <1>1, <1>3, <1>5, <2>1, <2>3, <2>4, <2>5, OnlyAnswerOn
  <1> QED
    BY <1>6, <1>7

LEMMA ServerExportsOn ==
    ASSUME IInv, NEW o \in Ops, ServerExports(o)
    PROVE  IInv'
  <1>1. Asked(o) /\ op[o].kind = "export" /\ store[op[o].key] # None
    BY DEF ServerExports
  <1>2. op[o].at \in {"await", "failed"} /\ op[o].key \in Keys
    BY <1>1, ThisOp DEF Asked, OpOK, WireOK, ArgsOK
  <1>3. store[op[o].key] \in Material
    BY <1>1, <1>2 DEF IInv, TypeOK
  <1>4. PICK sh \in ShareString : sh = Emit(store[op[o].key])
    BY <1>3, EmitType
  <1>5. PICK w : w = [Payload(None) EXCEPT !.share = sh]
    OBVIOUS
  <1>6. w \in Wire /\ w.state = "answer" /\ ~w.signed
    BY <1>5 DEF Payload, NoWire, Wire
  <1>7. PICK s : s = srv[o]
    OBVIOUS
  <1>8. srv' = [srv EXCEPT ![o] = s]
    BY <1>7, SameFun DEF ServerExports, IInv, TypeOK
  <1>9. /\ s \in ServerSession \cup {None} /\ ServerOK(op[o], s, store)
        /\ eng[o] # None => s # None
    BY <1>7, ThisOp DEF OpOK, EngineOK
  <1>10. WireOK(op[o], w, s) \/ op[o].at = "failed"
    BY <1>1, <1>2, <1>6 DEF WireOK
  <1>11. Answer(o, w) /\ UNCHANGED <<op, eng, store, wallet, exported, torn, refreshes>>
    BY <1>4, <1>5 DEF ServerExports
  <1> QED
    BY <1>1, <1>6, <1>8, <1>9, <1>10, <1>11, OnlyAnswerOn

-----------------------------------------------------------------------------
(* The engine.                                                             *)

\* The envelope of a new key names its curve.
LEMMA DetectReads ==
    ASSUME NEW c \in Curves, NEW env \in Envelopes(c)
    PROVE  DetectCurve(env) = c
  BY NoneAssumption
     DEF DetectCurve, CurveOrDefault, ParseCurve, Envelopes, Envelope, Tags, Curves, Secp, Ed

LEMMA NextRoundOn ==
    ASSUME IInv, NEW o \in Ops, NEW e \in Session \cup {None}, Got(o), op[o].round \in {1, 2},
           NextRound(o), eng' = [eng EXCEPT ![o] = e],
           UNCHANGED <<srv, store, wallet, exported, torn, refreshes>>,
           op[o].kind = "sign" => ~op[o].late,
           EngineOK(op[o], e, srv[o], store),
           op[o].kind = "sign" /\ op[o].round = 2 /\ e # None => e.curve = Secp
    PROVE  IInv'
  <1>1. op[o].at = "await"
    BY DEF Got
  <1>2. PICK n, p : n = op[o].round + 1 /\ p = [op[o] EXCEPT !.at = "send", !.round = n]
    OBVIOUS
  <1>2a. n \in 1..3
    BY <1>2
  <1>3. /\ p \in Op /\ p.at = "send" /\ p.kind = op[o].kind /\ p.key = op[o].key
        /\ p.curve = op[o].curve /\ p.share = op[o].share /\ p.round = op[o].round + 1
        /\ p.late = op[o].late /\ p.result = op[o].result
    BY <1>2, <1>2a, ThisOp, ZenonT(60) DEF Op
  <1>4. PICK w, s : w = NoWire /\ s = srv[o]
    OBVIOUS
  <1>5. ArgsOK(o, p, store, exported) /\ ResultOK(p, store) /\ ServerOK(p, s, store)
    BY <1>1, <1>3, <1>4, ThisOp DEF OpOK, ArgsOK, ResultOK, ServerOK
  <1>6. WireOK(p, w, s)
    BY <1>3, <1>4, NoWireIs DEF WireOK
  <1>7. EngineOK(p, e, s, store)
    <2>1. op[o].kind = "sign" /\ op[o].round + 1 = 3 /\ e # None => e.curve = Secp
      OBVIOUS
    <2> QED
      BY <1>3, <1>4, <2>1 DEF EngineOK
  <1>8. OpOK(o, p, w, e, s, store, exported)
    BY <1>5, <1>6, <1>7 DEF OpOK
  <1>9. Moves(o, p, w, e, s)
    <2>1. op' = [op EXCEPT ![o] = p]
      BY <1>2 DEF NextRound, IInv, TypeOK
    <2> QED
      BY <1>4, <2>1, SameFun DEF NextRound, Moves, IInv, TypeOK
  <1>10. torn' \subseteq Keys
    BY DEF IInv, TypeOK
  <1> QED
    BY <1>1, <1>3, <1>4, <1>8, <1>9, <1>10, NoWireIs, ThisOp, StepOn

\* Round 1 reads the key's share, on its curve, and no mark of it.
LEMMA Round1On ==
    ASSUME IInv, NEW o \in Ops, EngineRound1(o)
    PROVE  IInv'
  <1>1. PICK c, m : /\ c = IF op[o].kind = "keygen" THEN DetectCurve(wire[o].env)
                           ELSE RouteOf(op[o].share)
                    /\ m = Given(o)
    OBVIOUS
  <1>2. Got(o) /\ op[o].round = 1 /\ op[o].kind # "export"
    BY DEF EngineRound1
  <1>3. op[o].at = "await" /\ wire[o].state = "answer"
    BY <1>2 DEF Got
  <1>4. /\ op[o].kind \in {"keygen", "recover", "sign"} /\ op[o].key \in Keys
        /\ srv[o] # None /\ UNCHANGED <<srv, store, wallet, exported, refreshes>>
        /\ op[o].kind = "keygen" => /\ op[o].key = o /\ op[o].curve \in Curves
                                    /\ wire[o].env \in Envelopes(op[o].curve)
        /\ op[o].kind # "keygen" =>
              /\ op[o].share \in ShareString
              /\ op[o].share.bytes # None => Holds(op[o].share.bytes, op[o].key, store)
        /\ op[o].kind = "sign" /\ op[o].late /\ op[o].share.bytes # None =>
              Mark(op[o].share.bytes) \in exported
    BY <1>2, <1>3, ThisOp DEF OpOK, ArgsOK, WireOK, Op, EngineRound1
  <1>5. CASE FailNow(o) /\ UNCHANGED eng
    <2>1. eng' = [eng EXCEPT ![o] = eng[o]]
      BY <1>5, SameFun DEF IInv, TypeOK
    <2> QED
      BY <1>3, <1>5, <2>1, NoWireIs, FailOn DEF EngineRound1, FailNow
  <1>6. CASE /\ op[o].kind = "keygen" \/ Given(o) # None
             /\ op[o].kind = "sign" => MaySign(o)
             /\ eng' = [eng EXCEPT ![o] = [curve |-> c, base |-> m]]
             /\ NextRound(o) /\ UNCHANGED torn
    <2>1. PICK e : e = [curve |-> c, base |-> m]
      OBVIOUS
    <2>2. CASE op[o].kind = "keygen"
      <3>1. c = op[o].curve /\ m = None
        BY <1>1, <1>4, <2>2, DetectReads DEF Given
      <3>2. e \in Session /\ e.curve = op[o].curve
        BY <1>4, <2>1, <2>2, <3>1 DEF Session
      <3>3. EngineOK(op[o], e, srv[o], store)
        BY <1>3, <1>4, <2>2, <3>2 DEF EngineOK
      <3> QED
        BY <1>2, <1>6, <2>1, <2>2, <3>2, <3>3, NextRoundOn DEF EngineRound1
    <2>3. CASE op[o].kind # "keygen"
      <3>1. /\ m = op[o].share.bytes /\ m \in Material /\ m.curve = c
        <4>1. CASE op[o].kind = "recover"
          BY <1>1, <1>4, <1>6, <2>3, <4>1, RefreshReads DEF Given
        <4>2. CASE op[o].kind = "sign"
          BY <1>1, <1>4, <1>6, <2>3, <4>2, SignReads DEF Given
        <4> QED
          BY <1>4, <2>3, <4>1, <4>2
      <3>2. Holds(m, op[o].key, store)
        BY <1>4, <2>3, <3>1, NoneAssumption
      <3>3. e \in Session /\ e.curve = c /\ e.base = m
        BY <2>1, <3>1 DEF Session, Material
      <3>4. EngineOK(op[o], e, srv[o], store)
        BY <1>2, <1>3, <1>4, <2>3, <3>1, <3>2, <3>3 DEF EngineOK
      <3>5. op[o].kind = "sign" => ~op[o].late
        BY <1>1, <1>4, <1>6, <3>1, NoneAssumption DEF MaySign
      <3>6. /\ Got(o) /\ op[o].round \in {1, 2} /\ op[o].round # 2 /\ NextRound(o)
            /\ eng' = [eng EXCEPT ![o] = e] /\ e \in Session \cup {None}
            /\ UNCHANGED <<srv, store, wallet, exported, torn, refreshes>>
        BY <1>2, <1>4, <1>6, <2>1, <3>3
      <3> QED
        BY <3>4, <3>5, <3>6, NextRoundOn
    <2> QED
      BY <2>2, <2>3
  <1> QED
    BY <1>1, <1>5, <1>6 DEF EngineRound1

LEMMA EngineContinuesOn ==
    ASSUME IInv, NEW o \in Ops, EngineContinues(o)
    PROVE  IInv'
  <1>1. PICK e : e = eng[o]
    OBVIOUS
  <1>2. eng' = [eng EXCEPT ![o] = e]
    BY <1>1, SameFun DEF EngineContinues, IInv, TypeOK
  <1>3. e \in Session \cup {None} /\ EngineOK(op[o], e, srv[o], store)
    BY <1>1, ThisOp DEF OpOK
  <1>4. /\ Got(o) /\ op[o].round = 2 /\ NextRound(o)
        /\ op[o].kind = "sign" => e.curve = Secp
        /\ UNCHANGED <<srv, store, wallet, exported, torn, refreshes>>
    BY <1>1 DEF EngineContinues, Routed
  <1>5. op[o].kind = "sign" => ~op[o].late
    BY <1>4, ThisOp DEF OpOK, ArgsOK
  <1> QED
    BY <1>2, <1>3, <1>4, <1>5, NextRoundOn

\* An operation that returns.
Returned(r, x) == [r EXCEPT !.at = "returned", !.result = x]

LEMMA SetReturned ==
    ASSUME NEW r \in Op, NEW x, x \in Result \/ x \in [key : Field] \/ x = None
    PROVE  /\ Returned(r, x) \in Op /\ Returned(r, x).at = "returned"
           /\ Returned(r, x).kind = r.kind /\ Returned(r, x).key = r.key
           /\ Returned(r, x).curve = r.curve /\ Returned(r, x).share = r.share
           /\ Returned(r, x).round = r.round /\ Returned(r, x).late = r.late
           /\ Returned(r, x).ver = r.ver /\ Returned(r, x).seen = r.seen
           /\ Returned(r, x).result = x
  BY ZenonT(60) DEF Op, Returned

\* A signature is returned.
LEMMA SignedOn ==
    ASSUME IInv, NEW o \in Ops, NEW e \in {eng[o], None}, Got(o), op[o].kind = "sign",
           op[o].round \in {2, 3}, Return(o, None), eng' = [eng EXCEPT ![o] = e],
           e # None => op[o].round = 3,
           UNCHANGED <<srv, store, wallet, exported, torn, refreshes>>
    PROVE  IInv'
  <1>1. PICK p, w, s, e1 : /\ p = Returned(op[o], None)
                           /\ w = NoWire /\ s = srv[o] /\ e1 = e
    OBVIOUS
  <1>2. /\ p \in Op /\ p.at = "returned" /\ p.kind = op[o].kind /\ p.key = op[o].key
        /\ p.curve = op[o].curve /\ p.share = op[o].share /\ p.round = op[o].round
        /\ p.late = op[o].late
    BY <1>1, SetReturned, ThisOp
  <1>3. op[o].at = "await" /\ e1 \in {eng[o], None} /\ e1 \in Session \cup {None}
    BY <1>1, ThisOp DEF Got
  <1>4. ArgsOK(o, p, store, exported) /\ ResultOK(p, store) /\ ServerOK(p, s, store)
    BY <1>1, <1>2, <1>3, ThisOp DEF OpOK, ArgsOK, ResultOK, ServerOK
  <1>5. WireOK(p, w, s)
    BY <1>1, <1>2, NoWireIs DEF WireOK
  <1>6. EngineOK(p, e1, s, store)
    BY <1>1, <1>2, <1>3, ThisOp DEF OpOK, EngineOK
  <1>7. OpOK(o, p, w, e1, s, store, exported)
    BY <1>4, <1>5, <1>6 DEF OpOK
  <1>8. Moves(o, p, w, e1, s)
    <2>1. op' = [op EXCEPT ![o] = p]
      BY <1>1 DEF Return, Returned, IInv, TypeOK
    <2> QED
      BY <1>1, <2>1, SameFun DEF Return, Moves, IInv, TypeOK
  <1>9. torn' \subseteq Keys
    BY DEF IInv, TypeOK
  <1> QED
    BY <1>1, <1>2, <1>3, <1>7, <1>8, <1>9, NoWireIs, ThisOp, StepOn

LEMMA EngineSignsOn ==
    ASSUME IInv, NEW o \in Ops, EngineSigns(o)
    PROVE  IInv'
  <1>1. op[o].round \in {2, 3}
    BY DEF EngineSigns
  <1> QED
    BY <1>1, SignedOn DEF EngineSigns

LEMMA SignedByServerOn ==
    ASSUME IInv, NEW o \in Ops, SignedByServer(o)
    PROVE  IInv'
  <1>1. op[o].round = 3
    BY ThisOp DEF SignedByServer, OpOK, WireOK
  <1>2. eng' = [eng EXCEPT ![o] = eng[o]]
    BY SameFun DEF SignedByServer, IInv, TypeOK
  <1> QED
    BY <1>1, <1>2, SignedOn DEF SignedByServer

\* What a completed operation returns is the key's, and the server has stored
\* its share.
LEMMA ResultOfKey ==
    ASSUME IInv, NEW o \in Ops, EngineCompletes(o)
    PROVE  /\ Completed(o) \in Result /\ Completed(o).id = op[o].key /\ op[o].key \in Keys
           /\ store[op[o].key] # None /\ srv[o] \in ServerSession /\ srv[o].persisted
           /\ eng[o].curve = srv[o].curve
           /\ Completed(o).address = Address(store[op[o].key])
           /\ Holds(Completed(o).share.bytes, op[o].key, store)
           /\ Completed(o).backup # None =>
                 Completed(o).backup.share = Completed(o).share
  <1>1. PICK k, n, r : k = op[o].key /\ n = NewShare(o) /\ r = Completed(o)
    OBVIOUS
  <1>2. /\ op[o].at = "await" /\ wire[o].state = "answer" /\ eng[o] # None
        /\ op[o].kind \in {"keygen", "recover"} /\ op[o].round > 1
        /\ wire[o].env # None => eng[o].curve = Secp
    BY DEF EngineCompletes, Got, Routed
  <1>3. /\ k \in Keys
        /\ op[o].kind = "keygen" => k = o
        /\ srv[o] \in ServerSession /\ srv[o] # None /\ eng[o] \in Session
    BY <1>1, <1>2, ThisOp DEF OpOK, ArgsOK, WireOK
  <1>4. op[o].kind = "keygen" =>
           eng[o].curve = op[o].curve /\ srv[o].curve = op[o].curve
    BY <1>2, <1>3, ThisOp DEF OpOK, EngineOK, ServerOK
  <1>5. op[o].kind = "recover" => /\ Holds(eng[o].base, k, store) /\ eng[o].curve = eng[o].base.curve
                                  /\ Holds(srv[o].base, k, store) /\ srv[o].curve = srv[o].base.curve
    BY <1>1, <1>2, <1>3, ThisOp DEF OpOK, EngineOK, ServerOK
  <1>6. eng[o].curve = srv[o].curve
    BY <1>2, <1>4, <1>5 DEF Holds
  <1>7. srv[o].persisted
    BY <1>2, <1>6, ThisOp DEF OpOK, WireOK
  <1>8. store[k] # None
    BY <1>1, <1>3, <1>7, ThisOp DEF OpOK, ServerOK
  <1>9. store[k].curve = eng[o].curve /\ store[k].vk = SecretOf(k) /\ store[k] \in Material
    BY <1>2, <1>3, <1>4, <1>5, <1>8 DEF Holds, IInv, TypeOK, StoreOK
  <1>10. n \in Material /\ n.curve = eng[o].curve /\ n.vk = SecretOf(k)
    <2>1. srv[o].shift \in Shifts \cup {1} /\ eng[o].curve \in Curves
      BY <1>3 DEF ServerSession, Session
    <2>2. CASE op[o].kind = "keygen"
      <3>1. n = Point(eng[o].curve, 1, o, srv[o].shift) /\ k = o
        BY <1>1, <1>3, <2>2 DEF NewShare, KeygenShare
      <3> QED
        BY <1>3, <2>1, <3>1, PointType
    <2>3. CASE op[o].kind = "recover"
      <3>1. n = Refresh(eng[o].base, srv[o].shift)
        BY <1>1, <2>3 DEF NewShare, RefreshedShare
      <3>2. eng[o].base \in Material /\ eng[o].base.vk = SecretOf(k)
        BY <1>5, <2>3 DEF Holds
      <3> QED
        BY <1>5, <2>1, <2>3, <3>1, <3>2, RefreshType
    <2> QED
      BY <1>2, <2>2, <2>3
  <1>11. Holds(n, k, store)
    BY <1>3, <1>8, <1>9, <1>10 DEF Holds
  <1>12. Emit(n) \in ShareString /\ Emit(n).bytes = n /\ Address(n) \in {"evm", "solana"} \X Field
    BY <1>10, EmitType, AddressType
  <1>13. Address(n) = Address(store[k])
    BY <1>9, <1>10, AddressOn
  <1>14. /\ NewBackup(o) \in Backup \cup {None}
         /\ NewBackup(o) # None => NewBackup(o).share = Emit(n)
    <2>1. CASE op[o].renew = None
      BY <2>1 DEF NewBackup
    <2>2. CASE op[o].renew # None
      <3>1. op[o].renew \in Secrets
        BY <2>2, ThisOp DEF Op
      <3>2. NewBackup(o) = DeriveBackupEnvelope(Emit(n), op[o].renew)
        BY <1>1, <2>2 DEF NewBackup
      <3> QED
        BY <1>12, <3>1, <3>2, BackupType
    <2> QED
      BY <2>1, <2>2
  <1>15. NewVersion(o) \in Nat
    BY ThisOp DEF NewVersion, Op
  <1>16. ResultId(o) = k
    BY <1>1, <1>3 DEF ResultId
  <1>17. r = [id |-> k, share |-> Emit(n), address |-> Address(n), ver |-> NewVersion(o),
              backup |-> NewBackup(o)]
    BY <1>1, <1>16 DEF Completed
  <1>18. r \in Result
    BY <1>3, <1>12, <1>14, <1>15, <1>17 DEF Result
  <1>19. r.id = k /\ r.share = Emit(n) /\ r.address = Address(n) /\ r.backup = NewBackup(o)
    BY <1>17
  <1> QED
    BY <1>1, <1>3, <1>6, <1>7, <1>8, <1>11, <1>12, <1>13, <1>14, <1>18, <1>19

LEMMA CompletesOn ==
    ASSUME IInv, NEW o \in Ops, EngineCompletes(o)
    PROVE  IInv'
  <1>1. PICK r : r = Completed(o)
    OBVIOUS
  <1>2. PICK k : k = op[o].key
    OBVIOUS
  <1>3. /\ r \in Result /\ r.id = k /\ k \in Keys /\ store[k] # None
        /\ r.address = Address(store[k]) /\ Holds(r.share.bytes, k, store)
        /\ r.backup # None => r.backup.share = r.share
    BY <1>1, <1>2, ResultOfKey
  <1>4. /\ op[o].at = "await" /\ op[o].kind \in {"keygen", "recover"}
        /\ Return(o, r) /\ Keep(o, r) /\ eng' = [eng EXCEPT ![o] = None]
        /\ UNCHANGED <<srv, store, exported, torn, refreshes>>
    BY <1>1 DEF EngineCompletes, Got
  <1>5. PICK p, w, e, s : p = Returned(op[o], r) /\ w = NoWire /\ e = None /\ s = srv[o]
    OBVIOUS
  <1>6. /\ p \in Op /\ p.at = "returned" /\ p.kind = op[o].kind /\ p.key = op[o].key
        /\ p.curve = op[o].curve /\ p.share = op[o].share /\ p.round = op[o].round
        /\ p.late = op[o].late /\ p.result = r
    BY <1>3, <1>5, SetReturned, ThisOp
  <1>7. ArgsOK(o, p, store, exported) /\ ServerOK(p, s, store)
    BY <1>4, <1>5, <1>6, ThisOp DEF OpOK, ArgsOK, ServerOK
  <1>8. ResultOK(p, store) /\ WireOK(p, w, s) /\ EngineOK(p, e, s, store)
    BY <1>2, <1>3, <1>4, <1>5, <1>6, NoWireIs DEF ResultOK, WireOK, EngineOK
  <1>9. OpOK(o, p, w, e, s, store', exported')
    BY <1>4, <1>7, <1>8 DEF OpOK
  <1>10. Moves(o, p, w, e, s)
    <2>1. op' = [op EXCEPT ![o] = p]
      BY <1>4, <1>5 DEF Return, Returned, IInv, TypeOK
    <2> QED
      BY <1>4, <1>5, <2>1, SameFun DEF Return, Moves, IInv, TypeOK
  <1>11. Grows(store, store')
    BY <1>4 DEF Grows
  <1>12. CallsOK'
    BY <1>4, <1>9, <1>10, <1>11, CallsOn DEF IInv
  <1>13. PICK v : v = [share |-> r.share, ver |-> r.ver, stale |-> r.backup = None,
                       backup |-> IF r.backup = None /\ wallet[k] # None
                                  THEN wallet[k].backup ELSE r.backup]
    OBVIOUS
  <1>14. wallet' = [wallet EXCEPT ![k] = v]
    BY <1>3, <1>4, <1>13 DEF Keep
  <1>15. wallet[k] # None => wallet[k] \in Wallet
    BY <1>3 DEF IInv, TypeOK
  <1>16. /\ v \in Wallet /\ v.share = r.share
         /\ v.backup = r.backup \/ (wallet[k] # None /\ v.backup = wallet[k].backup)
    BY <1>3, <1>13, <1>15 DEF Wallet, Result
  <1>17. TypeOK'
    BY <1>3, <1>4, <1>5, <1>6, <1>10, <1>14, <1>16, NoWireIs, ThisOp DEF IInv, TypeOK, Moves
  <1>18. StoreOK'
    BY <1>4, <1>6, <1>10 DEF IInv, StoreOK, Moves, TypeOK
  <1>19. WalletOK'
    <2>1. /\ wallet'[k] = v
          /\ \A j \in Keys : j # k => wallet'[j] = wallet[j]
      BY <1>3, <1>14 DEF IInv, TypeOK
    <2>2. Holds(v.share.bytes, k, store)
          /\ (v.backup # None => Holds(v.backup.share.bytes, k, store))
      BY <1>3, <1>16 DEF IInv, WalletOK
    <2> QED
      BY <1>4, <2>1, <2>2 DEF IInv, WalletOK
  <1>20. ExportedOK'
    BY <1>4, <1>10 DEF IInv, ExportedOK, Moves, TypeOK
  <1> QED
    BY <1>12, <1>17, <1>18, <1>19, <1>20 DEF IInv

LEMMA ExportsOn ==
    ASSUME IInv, NEW o \in Ops, EngineExports(o)
    PROVE  IInv'
  <1>1. PICK x : x = Export(op[o].share, wire[o].share)
    OBVIOUS
  <1>2. /\ op[o].at = "await" /\ op[o].kind = "export"
        /\ UNCHANGED <<eng, srv, store, wallet, refreshes>>
    BY DEF EngineExports, Got
  <1>3. CASE x = None /\ FailNow(o) /\ UNCHANGED exported
    <2>1. eng' = [eng EXCEPT ![o] = eng[o]]
      BY <1>2, SameFun DEF IInv, TypeOK
    <2> QED
      BY <1>2, <1>3, <2>1, NoWireIs, FailOn DEF FailNow
  <1>4. CASE /\ x # None /\ Return(o, [key |-> x.key]) /\ UNCHANGED torn
             /\ exported' = exported \cup {x.mark}
    <2>1. PICK k, m : k = op[o].key /\ m = op[o].share.bytes
      OBVIOUS
    <2>2. k \in Keys /\ op[o].share \in ShareString /\ (m # None => Holds(m, k, store))
      BY <1>2, <2>1, ThisOp DEF OpOK, ArgsOK
    <2>3. m \in Material /\ x.key = m.vk /\ x.mark = <<m.curve, m.vk>>
      BY <1>1, <1>4, <2>1, <2>2, ExportReads
    <2>4. m.vk = SecretOf(k) /\ m.curve \in Curves /\ m.vk \in Field
      BY <2>2, <2>3, NoneAssumption DEF Holds, Material
    <2>5. PICK y : y = [key |-> x.key]
      OBVIOUS
    <2>6. y \in [key : Field] /\ y.key = SecretOf(k)
      BY <2>3, <2>4, <2>5
    <2>7. PICK p, w, e, s : p = Returned(op[o], y) /\ w = NoWire /\ e = eng[o] /\ s = srv[o]
      OBVIOUS
    <2>8. /\ p \in Op /\ p.at = "returned" /\ p.kind = op[o].kind /\ p.key = op[o].key
          /\ p.curve = op[o].curve /\ p.share = op[o].share /\ p.round = op[o].round
          /\ p.late = op[o].late /\ p.result = y
      BY <2>6, <2>7, SetReturned, ThisOp
    <2>9. ArgsOK(o, p, store, exported) /\ ServerOK(p, s, store)
      BY <1>2, <2>7, <2>8, ThisOp DEF OpOK, ArgsOK, ServerOK
    <2>10. e = None
      BY <1>2, <2>7, ThisOp DEF OpOK, EngineOK
    <2>11. ResultOK(p, store) /\ WireOK(p, w, s) /\ EngineOK(p, e, s, store)
      BY <1>2, <2>1, <2>6, <2>7, <2>8, <2>10, NoWireIs DEF ResultOK, WireOK, EngineOK
    <2>12. OpOK(o, p, w, e, s, store, exported)
      BY <2>9, <2>11 DEF OpOK
    <2>13. Grows(store, store') /\ exported \subseteq exported'
      BY <1>2, <1>4 DEF Grows
    <2>14. OpOK(o, p, w, e, s, store', exported')
      BY <2>12, <2>13, OpOn
    <2>15. Moves(o, p, w, e, s)
      <3>1. op' = [op EXCEPT ![o] = p]
        BY <1>4, <2>5, <2>7 DEF Return, Returned, IInv, TypeOK
      <3> QED
        BY <1>2, <1>4, <2>7, <3>1, SameFun DEF Return, Moves, IInv, TypeOK
    <2>16. CallsOK'
      BY <2>13, <2>14, <2>15, CallsOn DEF IInv
    <2>17. x.mark \in Curves \X Field
      BY <2>3, <2>4
    <2>18. TypeOK'
      BY <1>2, <1>4, <2>7, <2>8, <2>15, <2>17, NoWireIs, ThisOp DEF IInv, TypeOK, Moves
    <2>19. StoreOK'
      BY <1>2, <2>8, <2>15 DEF IInv, StoreOK, Moves, TypeOK
    <2>20. WalletOK'
      BY <1>2 DEF IInv, WalletOK
    <2>21. op'[o] = p /\ \A q \in Ops : q # o => op'[q] = op[q]
      BY <2>15 DEF Moves, IInv, TypeOK
    <2>22. ExportedOK'
      <3> SUFFICES ASSUME NEW z \in exported'
                   PROVE  \E q \in Ops : /\ op'[q].at = "returned" /\ op'[q].kind = "export"
                                         /\ op'[q].result.key = z[2]
        BY DEF ExportedOK
      <3>1. CASE z \in exported
        BY <1>2, <2>21, <3>1 DEF IInv, ExportedOK
      <3>2. CASE z = x.mark
        BY <1>2, <2>3, <2>4, <2>6, <2>8, <2>21, <3>2
      <3> QED
        BY <1>4, <3>1, <3>2
    <2> QED
      BY <2>16, <2>18, <2>19, <2>20, <2>22 DEF IInv
  <1> QED
    BY <1>1, <1>3, <1>4 DEF EngineExports

-----------------------------------------------------------------------------
(* The theorems.                                                           *)

\* Every step keeps the invariant.
LEMMA Step == IInv /\ [Next]_vars => IInv'
  <1> SUFFICES ASSUME IInv, [Next]_vars
               PROVE  IInv'
    OBVIOUS
  <1>1. ASSUME NEW o \in Ops, Host(o)
        PROVE  IInv'
    <2>1. ASSUME NEW c \in Curves, CallKeygen(o, c)
          PROVE  IInv'
      BY <2>1, KeygenOn
    <2>2. ASSUME NEW k \in Keys, NEW secret \in Secrets, NEW renew \in Secrets \cup {None},
                 CallRecover(o, k, secret, renew)
          PROVE  IInv'
      BY <2>2, RecoverOn
    <2>3. ASSUME NEW k \in Keys, NEW msg \in {"digest", "text"},
                 CallWithShare(o, "sign", k, msg)
          PROVE  IInv'
      BY <2>3, WithShareOn
    <2>4. ASSUME NEW k \in Keys, CallWithShare(o, "export", k, None)
          PROVE  IInv'
      BY <2>4, WithShareOn
    <2> QED
      BY <1>1, <2>1, <2>2, <2>3, <2>4 DEF Host
  <1>2. ASSUME NEW o \in Ops, Client(o)
        PROVE  IInv'
    <2>1. CASE Send(o)
      BY <2>1, SendOn
    <2>2. CASE TransportFails(o)
      BY <2>2, TransportFailsOn
    <2>3. CASE RpcError(o)
      BY <2>3, RpcErrorOn
    <2>4. CASE Engine(o)
      BY <2>4, Round1On, EngineFailsOn, EngineContinuesOn, EngineSignsOn, CompletesOn,
         SignedByServerOn, ExportsOn DEF Engine
    <2> QED
      BY <1>2, <2>1, <2>2, <2>3, <2>4 DEF Client
  <1>3. ASSUME NEW o \in Ops, Server(o)
        PROVE  IInv'
    BY <1>3, RefusesOn, BeginsOn, ContinuesOn, FinishesOn, ServerExportsOn DEF Server
  <1>4. ASSUME NEW k \in Keys, NEW secret \in Secrets, BackUp(k, secret)
        PROVE  IInv'
    BY <1>4, BackUpOn
  <1>5. CASE UNCHANGED vars
    BY <1>5 DEF vars, IInv, TypeOK, CallsOK, StoreOK, WalletOK, ExportedOK
  <1> QED
    BY <1>1, <1>2, <1>3, <1>4, <1>5 DEF Next

\* The invariant holds of every run.
THEOREM Invariance == Spec => []IInv
  <1> QED
    BY Start, Step, PTL DEF Spec

\* Types.
THEOREM TypeCorrect == Spec => []TypeOK
  <1>1. IInv => TypeOK
    BY DEF IInv
  <1> QED
    BY <1>1, Invariance, PTL

\* What keygen and recover return (EngineCompletes) is of the key the operation
\* is about: its id, and the address of the share the server has stored.
THEOREM NewSharesNameTheKey == Spec => []ResultNamesTheKey
  <1>1. IInv => ResultNamesTheKey
    <2> SUFFICES ASSUME IInv, NEW o \in Ops, op[o].at = "returned",
                        op[o].kind \in {"keygen", "recover"}
                 PROVE  /\ store[op[o].result.id] # None
                        /\ op[o].result.address = Address(store[op[o].result.id])
                        /\ op[o].result.id = op[o].key
      BY DEF ResultNamesTheKey
    <2> QED
      BY ThisOp DEF OpOK, ResultOK
  <1> QED
    BY <1>1, Invariance, PTL

\* The key an export returns (EngineExports) is the private key of the key the
\* host asked for, and each mark in EXPORTED_KEYS is of a key returned.
THEOREM ExportsTheKey == Spec => []ExportIsTheKey
  <1>1. IInv => ExportIsTheKey
    BY ThisOp DEF ExportIsTheKey, IInv, ExportedOK, OpOK, ResultOK
  <1> QED
    BY <1>1, Invariance, PTL

\* After an export a sign with any form of the key's share (EngineRound1) never
\* returns a signature.
THEOREM ExportEndsSigning == Spec => []ExportedKeySignsNoMore
  <1>1. IInv => ExportedKeySignsNoMore
    BY ThisOp DEF ExportedKeySignsNoMore, OpOK, ArgsOK
  <1> QED
    BY <1>1, Invariance, PTL

\* A session is in the map of the engine of its key's curve (EngineRound1).
THEOREM EngineOfTheKey == Spec => []ReachesItsEngine
  <1>1. IInv => ReachesItsEngine
    <2> SUFFICES ASSUME IInv, NEW o \in Ops, eng[o] # None
                 PROVE  eng[o].curve = IF op[o].kind = "keygen" THEN op[o].curve
                                       ELSE store[op[o].key].curve
      BY DEF ReachesItsEngine
    <2> QED
      BY ThisOp DEF OpOK, EngineOK, Holds
  <1> QED
    BY <1>1, Invariance, PTL

\* Of all operations that return only a secp256k1 signature the server made
\* (SignedByServer) leaves its session in the engine.
THEOREM OnlySignatureLeft == Spec => []OnlySignLeavesSession
  <1>1. IInv => OnlySignLeavesSession
    BY ThisOp DEF OnlySignLeavesSession, OpOK, EngineOK
  <1> QED
    BY <1>1, Invariance, PTL
=============================================================================
