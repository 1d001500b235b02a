------------------------------ MODULE KeyShares ------------------------------
(***************************************************************************)
(* What crosses the FFI, and what the engine makes of it: shares, server   *)
(* envelopes, backups, key export (types.rs, the heads of keygen, recover  *)
(* and sign in mpc_engine.rs, engine_ed25519.rs, address.rs).              *)
(*                                                                         *)
(* A party's share is a point (x, s) of a line over the field of order P;  *)
(* the private key is the line's value at 0.  The public key of k is named *)
(* by k.  Strings are named by what the parsers find in them.              *)
(***************************************************************************)
EXTENDS Integers

CONSTANTS P,        \* the order of the field, a prime
          None      \* an error, or a field that is absent

ASSUME PrimeAssumption ==
    /\ P \in Nat /\ P > 2
    /\ \A a \in 1..(P - 1) : \E b \in 1..(P - 1) : (a * b) % P = 1

Secp == "secp256k1"
Ed == "ed25519"
Curves == {Secp, Ed}
Field == 0..(P - 1)

\* Curve::parse.
ParseCurve(s) == CASE s \in {Secp, ""} -> Secp [] s = Ed -> Ed [] OTHER -> None

-----------------------------------------------------------------------------
(* Shares.                                                                 *)

\* A protocol-native share; x is 1 for the client and 2 for the server.
Material == [curve : Curves, x : {1, 2}, s : Field, vk : Field]

\* A share as a string: base64 of native bytes, base64 of a ShareEnvelope with
\* native bytes inside, or neither.
Raw(bytes) == [form |-> "raw", tag |-> None, bytes |-> bytes]
V2(tag, bytes) == [form |-> "v2", tag |-> tag, bytes |-> bytes]
Junk == [form |-> "junk", tag |-> None, bytes |-> None]
Tags == Curves \cup {"", "p256"}
ShareString == [form : {"raw", "v2", "junk"}, tag : Tags \cup {None},
                bytes : Material \cup {None}]

\* What the engines hand out.
Emit(m) == IF m.curve = Ed THEN V2(Ed, m) ELSE Raw(m)

\* ShareEnvelope::decode; a share of no envelope is taken for secp256k1.
Decode(sh) ==
    CASE sh.form = "raw" -> [curve |-> Secp, bytes |-> sh.bytes]
      [] sh.form = "v2" /\ ParseCurve(sh.tag) # None /\ sh.bytes # None ->
            [curve |-> ParseCurve(sh.tag), bytes |-> sh.bytes]
      [] OTHER -> None

\* The dispatch of recover, sign and export: an error is not ed25519.
IsEd(sh) == Decode(sh) # None /\ Decode(sh).curve = Ed
RouteOf(sh) == IF IsEd(sh) THEN Ed ELSE Secp

\* Keyshare::from_bytes and the key material of FROST.
FromBytes(curve, bytes) == IF bytes # None /\ bytes.curve = curve THEN bytes ELSE None
ExtractShareMaterial(sh) == IF IsEd(sh) THEN FromBytes(Ed, Decode(sh).bytes) ELSE None

\* The share in the string, as sign reads it, and as recover and export do:
\* they do not look into the envelope of a secp256k1 share.
SecpShareToSign(sh) == IF Decode(sh) = None THEN None ELSE FromBytes(Secp, Decode(sh).bytes)
RawShare(sh) == IF sh.form = "raw" THEN FromBytes(Secp, sh.bytes) ELSE None

ShareToSign(sh) == IF IsEd(sh) THEN ExtractShareMaterial(sh) ELSE SecpShareToSign(sh)
ShareToRefresh(sh) == IF IsEd(sh) THEN ExtractShareMaterial(sh) ELSE RawShare(sh)

\* One address per public key.
SolanaAddress(m) == <<"solana", m.vk>>
EvmAddress(m) == <<"evm", m.vk>>
Address(m) == IF m.curve = Ed THEN SolanaAddress(m) ELSE EvmAddress(m)

\* MessageDigest::from_hex takes 32 bytes and nothing else.
FromHex(msg) == IF msg = "digest" THEN msg ELSE None

-----------------------------------------------------------------------------
(* The server's envelopes.                                                 *)

Envelope == [curve : Tags \cup {None}, from : {0, 1}]

ASSUME NoneAssumption ==
    None \notin Curves \cup Material \cup Envelope \cup [curve : Curves, bytes : Material]

\* Fault: no curve means ed25519.
CurveOrDefault_Ed(env) == IF ParseCurve(env.curve) = None THEN Ed ELSE ParseCurve(env.curve)

CurveOrDefault(env) == IF ParseCurve(env.curve) = None THEN Secp ELSE ParseCurve(env.curve)

\* An envelope that is no JSON (None) is taken for secp256k1, too.
DetectCurve(env) == IF env = None THEN Secp ELSE CurveOrDefault(env)

\* Of the two parsers only the first looks at the sender.
ParseServerEnvelopeBatch(env) == env # None /\ env.from = 1
ParseWire(env) == env # None
Readable(curve, env) == IF curve = Secp THEN ParseServerEnvelopeBatch(env) ELSE ParseWire(env)

-----------------------------------------------------------------------------
(* Backups.                                                                *)

\* HKDF: one key per secret.
DeriveAesKey(secret) == <<"ceres-mpc-backup-v1", secret>>

\* AES-GCM opens with the key it was sealed with, or not at all.
EncryptShare(sh, key) == [share |-> sh, key |-> key]
DecryptShareBytes(payload, key) == IF payload.key = key THEN payload.share ELSE None

DeriveBackupEnvelope(sh, secret) == EncryptShare(sh, DeriveAesKey(secret))
DecryptBackupShare(env, secret) ==
    IF env = None THEN None ELSE DecryptShareBytes(env, DeriveAesKey(secret))

-----------------------------------------------------------------------------
(* Refresh and export.                                                     *)

\* l1 * s1 + l2 * s2, the line's value at 0.
Interpolate(m, n) ==
    LET Recip(a) == CHOOSE b \in 1..(P - 1) : (((a % P) * b) % P) = 1
    IN  (-n.x * Recip(m.x - n.x) * m.s - m.x * Recip(n.x - m.x) * n.s) % P

\* Two shares of one public key that combine to its private key.
InStep(m, n) ==
    /\ m.curve = n.curve /\ m.vk = n.vk /\ m.x # n.x
    /\ Interpolate(m, n) = m.vk

\* Both parties add their value of a line through (0, 0).
Refresh(m, slope) == [m EXCEPT !.s = (@ + slope * m.x) % P]

\* The entry of EXPORTED_KEYS: a compressed point, or FROST's key.
Mark(m) == <<m.curve, m.vk>>

\* The private key and the mark left.
Exported(m, n) == [key |-> Interpolate(m, n), address |-> Address(m), mark |-> Mark(m)]

\* FROST: the verifying keys are compared, then the combined key with them.
\* Fault: the combined key is not compared.
ExportFrost_Unchecked(local, server) ==
    LET m == ExtractShareMaterial(local) n == ExtractShareMaterial(server)
    IN  IF m = None \/ n = None THEN None ELSE Exported(m, n)

ExportFrost(local, server) ==
    LET m == ExtractShareMaterial(local) n == ExtractShareMaterial(server)
    IN  IF m = None \/ n = None \/ ~InStep(m, n) THEN None ELSE Exported(m, n)

\* secp256k1: combine_shares compares.
ExportSecp(local, server) ==
    LET m == RawShare(local) n == RawShare(server)
    IN  IF m = None \/ n = None \/ ~InStep(m, n) THEN None ELSE Exported(m, n)

Export(local, server) ==
    IF IsEd(local) THEN ExportFrost(local, server) ELSE ExportSecp(local, server)
=============================================================================
