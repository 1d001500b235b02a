------------------------ MODULE WalletRotationProofs ------------------------
(***************************************************************************)
(* Proofs about WalletClient, continued: that the host's share and the     *)
(* server's stay of one rotation, for every set of operations, every prime *)
(* field, and whatever slopes the protocol runs draw, so also for those    *)
(* that cancel each other.                                                 *)
(*                                                                         *)
(* A rotation ends in two steps: the server stores its share (Persist),    *)
(* then the client returns (EngineCompletes).  The invariant Rotations     *)
(* says, for every key whose refreshes were not torn, what holds before    *)
(* the first, between the two (Halfway), and after the second.             *)
(***************************************************************************)
EXTENDS WalletClientProofs

-----------------------------------------------------------------------------
(* Lines: shares of a key are values of one.                               *)

\* Three identities, for the solver.
LEMMA Products ==
    ASSUME NEW p \in Int, NEW a \in Int, NEW b \in Int
    PROVE  /\ p * (a + b) = p * a + p * b
           /\ (p - 1) * a = p * (a - 1) + (p - a)
           /\ -2 * (p - 1) * a - 1 * 1 * b = (2 * a - b) + p * (-2 * a)
           /\ -1 * 1 * a - 2 * (p - 1) * b = (2 * b - a) + p * (-2 * b)
  BY SMT

\* Remainders: a % P is the one element of the field that differs from a by a
\* multiple of P.
LEMMA ModRep ==
    ASSUME NEW a \in Int
    PROVE  a % P \in Field /\ \E q \in Int : a = P * q + (a % P)
  <1>1. P \in Nat /\ P > 0
    BY PrimeAssumption
  <1>2. a = P * (a \div P) + (a % P) /\ a \div P \in Int /\ a % P \in 0..(P - 1)
    BY <1>1
  <1> QED
    BY <1>2 DEF Field

LEMMA ModIs ==
    ASSUME NEW a \in Int, NEW r \in Field, \E q \in Int : a = P * q + r
    PROVE  a % P = r
  BY PrimeAssumption, SMT DEF Field

LEMMA ModShift ==
    ASSUME NEW a \in Int, NEW b \in Int, \E q \in Int : a = b + P * q
    PROVE  a % P = b % P
  <1>1. PICK q \in Int : a = b + P * q
    OBVIOUS
  <1>2. PICK d \in Int : b = P * d + (b % P)
    BY ModRep
  <1>3. b % P \in Field /\ b % P \in Int /\ P \in Int
    BY ModRep, PrimeAssumption DEF Field
  <1>4. a = P * (d + q) + (b % P)
    <2>1. P * (d + q) = P * d + P * q
      BY <1>3, Products
    <2> QED
      BY <1>1, <1>2, <1>3, <2>1
  <1>5. d + q \in Int
    OBVIOUS
  <1> QED
    BY <1>3, <1>4, <1>5, ModIs

\* The only multipliers that two parties have: of 1, and of -1.
LEMMA RecipOne ==
    ASSUME NEW r \in 1..(P - 1)
    PROVE  ((1 % P) * r) % P = 1 <=> r = 1
  <1>1. P \in Int /\ r \in Int /\ r \in Field /\ 1 \in Field /\ P * 0 = 0
    BY PrimeAssumption DEF Field
  <1>2. 1 % P = 1 /\ r % P = r
    BY <1>1, ModIs
  <1> QED
    BY <1>1, <1>2

LEMMA RecipMinus ==
    ASSUME NEW r \in 1..(P - 1)
    PROVE  (((-1) % P) * r) % P = 1 <=> r = P - 1
  <1>1. /\ P \in Int /\ r \in Int /\ P - 1 \in Field /\ P - r \in Field
        /\ -1 = P * (-1) + (P - 1)
    BY PrimeAssumption DEF Field
  <1>2. (-1) % P = P - 1
    BY <1>1, ModIs
  <1>3. (P - 1) * r \in Int /\ (P - 1) * r = P * (r - 1) + (P - r)
    <2>1. (P - 1) * r = P * (r - 1) + (P - r)
      BY <1>1, Products
    <2> QED
      BY <1>1, <2>1
  <1>4. ((P - 1) * r) % P = P - r
    <2>1. r - 1 \in Int
      BY <1>1
    <2> QED
      BY <1>1, <1>3, <2>1, ModIs
  <1> QED
    BY <1>1, <1>2, <1>4

\* A line's value at 0, from the shares of both parties.
LEMMA AtZero ==
    ASSUME NEW m \in Material, NEW n \in Material, m.x # n.x
    PROVE  Interpolate(m, n) = IF m.x = 1 THEN (2 * m.s - n.s) % P ELSE (2 * n.s - m.s) % P
  <1> DEFINE r == CHOOSE b \in 1..(P - 1) : ((((m.x - n.x) % P) * b) % P) = 1
             t == CHOOSE b \in 1..(P - 1) : ((((n.x - m.x) % P) * b) % P) = 1
  <1>1. Interpolate(m, n) = (-n.x * r * m.s - m.x * t * n.s) % P
    BY DEF Interpolate
  <1>2. /\ P \in Int /\ 1 \in 1..(P - 1) /\ (P - 1) \in 1..(P - 1)
        /\ m.s \in Int /\ n.s \in Int
    BY PrimeAssumption DEF Material, Field
  <1>3. CASE m.x = 1 /\ n.x = 2
    <2>1. m.x - n.x = -1 /\ n.x - m.x = 1
      BY <1>3
    <2>2. r = P - 1
      BY <1>2, <2>1, RecipMinus
    <2>3. t = 1
      BY <1>2, <2>1, RecipOne
    <2> HIDE DEF r, t
    <2>4. -n.x * r * m.s - m.x * t * n.s = (2 * m.s - n.s) + P * (-2 * m.s)
      <3>1. -2 * (P - 1) * m.s - 1 * 1 * n.s = (2 * m.s - n.s) + P * (-2 * m.s)
        BY <1>2, Products
      <3> QED
        BY <1>3, <2>2, <2>3, <3>1
    <2>5. (-n.x * r * m.s - m.x * t * n.s) % P = (2 * m.s - n.s) % P
      <3>1. /\ -n.x * r * m.s - m.x * t * n.s \in Int /\ 2 * m.s - n.s \in Int
            /\ -2 * m.s \in Int
        BY <1>2, <1>3, <2>2, <2>3
      <3> QED
        BY <2>4, <3>1, ModShift
    <2> QED
      BY <1>1, <1>3, <2>5
  <1>4. CASE m.x = 2 /\ n.x = 1
    <2>1. m.x - n.x = 1 /\ n.x - m.x = -1
      BY <1>4
    <2>2. r = 1
      BY <1>2, <2>1, RecipOne
    <2>3. t = P - 1
      BY <1>2, <2>1, RecipMinus
    <2> HIDE DEF r, t
    <2>4. -n.x * r * m.s - m.x * t * n.s = (2 * n.s - m.s) + P * (-2 * n.s)
      <3>1. -1 * 1 * m.s - 2 * (P - 1) * n.s = (2 * n.s - m.s) + P * (-2 * n.s)
        BY <1>2, Products
      <3> QED
        BY <1>4, <2>2, <2>3, <3>1
    <2>5. (-n.x * r * m.s - m.x * t * n.s) % P = (2 * n.s - m.s) % P
      <3>1. /\ -n.x * r * m.s - m.x * t * n.s \in Int /\ 2 * n.s - m.s \in Int
            /\ -2 * n.s \in Int
        BY <1>2, <1>4, <2>2, <2>3
      <3> QED
        BY <2>4, <3>1, ModShift
    <2> QED
      BY <1>1, <1>4, <2>5
  <1> QED
    BY <1>3, <1>4 DEF Material

\* The value at 0 of the line through (1, a) and (2, b); a value moved by the
\* line of slope d through (0, 0).
AtNought(a, b) == (2 * a - b) % P
Slid(a1, a, d, x) == a1 = ((a + d * x) % P)

\* Moving both values keeps the value at 0.
LEMMA Along ==
    ASSUME NEW a \in Int, NEW b \in Int, NEW d \in Int, NEW a1 \in Int, NEW b1 \in Int,
           Slid(a1, a, d, 1), Slid(b1, b, d, 2)
    PROVE  AtNought(a1, b1) = AtNought(a, b)
  <1>1. a1 = ((a + d) % P) /\ b1 = ((b + 2 * d) % P)
    <2>1. d * 1 = d /\ d * 2 = 2 * d
      OBVIOUS
    <2> QED
      BY <2>1 DEF Slid
  <1>2. P \in Int /\ a + d \in Int /\ b + 2 * d \in Int
    BY PrimeAssumption
  <1>3. PICK q \in Int : a + d = P * q + a1
    BY <1>1, <1>2, ModRep
  <1>4. PICK t \in Int : b + 2 * d = P * t + b1
    BY <1>1, <1>2, ModRep
  <1>5. PICK u \in Int : u = t - 2 * q
    OBVIOUS
  <1>6. 2 * a1 - b1 = (2 * a - b) + P * u
    <2>1. PICK e \in Int, f \in Int : e = P * q /\ f = P * t
      BY <1>2
    <2>2. P * u = f - 2 * e
      BY <1>2, <1>5, <2>1, SMT
    <2> QED
      BY <1>3, <1>4, <2>1, <2>2
  <1>7. 2 * a1 - b1 \in Int /\ 2 * a - b \in Int
    OBVIOUS
  <1> QED
    BY <1>6, <1>7, ModShift DEF AtNought

\* Both parties add their value of a line through (0, 0): they stay in step.
LEMMA RefreshFits ==
    ASSUME NEW m \in Material, NEW n \in Material, NEW d \in Int, InStep(m, n),
           Refresh(m, d) \in Material, Refresh(n, d) \in Material
    PROVE  InStep(Refresh(m, d), Refresh(n, d))
  <1>1. PICK m1 \in Material, n1 \in Material : m1 = Refresh(m, d) /\ n1 = Refresh(n, d)
    OBVIOUS
  <1>2. /\ m1.curve = m.curve /\ m1.vk = m.vk /\ m1.x = m.x /\ m1.s = ((m.s + d * m.x) % P)
        /\ n1.curve = n.curve /\ n1.vk = n.vk /\ n1.x = n.x /\ n1.s = ((n.s + d * n.x) % P)
    BY <1>1 DEF Refresh, Material
  <1>3. /\ m.x # n.x /\ m.x \in {1, 2} /\ n.x \in {1, 2} /\ P \in Int
        /\ m.s \in Int /\ n.s \in Int /\ m1.s \in Int /\ n1.s \in Int
        /\ m.curve = n.curve /\ m.vk = n.vk /\ Interpolate(m, n) = m.vk
    BY PrimeAssumption DEF InStep, Material, Field
  <1>5. CASE m.x = 1
    <2>1. n.x = 2 /\ Slid(m1.s, m.s, d, 1) /\ Slid(n1.s, n.s, d, 2)
      BY <1>2, <1>3, <1>5 DEF Slid
    <2>2. AtNought(m1.s, n1.s) = AtNought(m.s, n.s)
      BY <1>3, <2>1, Along
    <2>3. Interpolate(m1, n1) = AtNought(m1.s, n1.s)
      BY <1>2, <1>3, <1>5, AtZero DEF AtNought
    <2>4. Interpolate(m, n) = AtNought(m.s, n.s)
      BY <1>3, <1>5, AtZero DEF AtNought
    <2> QED
      BY <1>1, <1>2, <1>3, <2>2, <2>3, <2>4 DEF InStep
  <1>6. CASE m.x = 2
    <2>1. n.x = 1 /\ Slid(n1.s, n.s, d, 1) /\ Slid(m1.s, m.s, d, 2)
      BY <1>2, <1>3, <1>6 DEF Slid
    <2>2. AtNought(n1.s, m1.s) = AtNought(n.s, m.s)
      BY <1>3, <2>1, Along
    <2>3. Interpolate(m1, n1) = AtNought(n1.s, m1.s)
      BY <1>2, <1>3, <1>6, AtZero DEF AtNought
    <2>4. Interpolate(m, n) = AtNought(n.s, m.s)
      BY <1>3, <1>6, AtZero DEF AtNought
    <2> QED
      BY <1>1, <1>2, <1>3, <2>2, <2>3, <2>4 DEF InStep
  <1> QED
    BY <1>3, <1>5, <1>6

\* Two points of a line.
LEMMA LineFits ==
    ASSUME NEW m \in Material, NEW n \in Material, NEW d \in Int,
           m.curve = n.curve, m.vk = n.vk, m.x = 1, n.x = 2,
           Slid(m.s, m.vk, d, 1), Slid(n.s, m.vk, d, 2)
    PROVE  InStep(m, n)
  <1>1. P \in Int /\ m.s \in Int /\ n.s \in Int /\ m.vk \in Int /\ m.vk \in Field
    BY PrimeAssumption DEF Material, Field
  <1>2. AtNought(m.s, n.s) = AtNought(m.vk, m.vk)
    BY <1>1, Along
  <1>3. AtNought(m.vk, m.vk) = m.vk
    <2>1. PICK a \in Field : a = m.vk
      BY <1>1
    <2>2. a \in Int /\ P * 0 = 0 /\ 2 * a - a = a
      BY PrimeAssumption DEF Field
    <2>3. a % P = a
      BY <2>2, ModIs
    <2> QED
      BY <2>1, <2>2, <2>3 DEF AtNought
  <1>4. Interpolate(m, n) = AtNought(m.s, n.s)
    BY AtZero DEF AtNought
  <1> QED
    BY <1>2, <1>3, <1>4 DEF InStep

-----------------------------------------------------------------------------
(* The inductive invariant, in addition to IInv.                           *)

Stored(s) == s # None /\ s.persisted

\* Only new shares are stored, and a round-2 request is out only until then.
StageOK(p, w, s) ==
    Stored(s) => /\ p.kind \in {"keygen", "recover"} /\ p.round > 1
                 /\ p.round = 2 => p.at # "send" /\ w.state # "request"

\* The server has stored the refreshed share, the client has not returned.
Half(p, s) == p.kind = "recover" /\ p.at \in {"send", "await"} /\ Stored(s)
Halfway(o, k) == Half(op[o], srv[o]) /\ op[o].key = k

\* A refresh of k that saw all refreshes before it has the newest version, and
\* nobody is halfway.
FreshOK(o, k) ==
    k \notin torn /\ op[o].seen = refreshes[k] /\ ~Stored(srv[o]) =>
        /\ op[o].ver = 1 + refreshes[k]
        /\ \A q \in Ops : ~Halfway(q, k)
        /\ srv[o] # None => srv[o].base = store[k]

\* A refresh that is halfway is the only one; what it will return fits.
HalfwayOK(o, k) ==
    k \notin torn /\ Halfway(o, k) =>
        /\ op[o].ver = refreshes[k]
        /\ store[k] = Refresh(srv[o].base, srv[o].shift)
        /\ InStep(eng[o].base, srv[o].base)
        /\ \A q \in Ops : Halfway(q, k) => q = o

RecoverOK(o, k) ==
    op[o].kind = "recover" /\ op[o].key = k =>
        /\ wallet[k] # None
        /\ op[o].seen # None => op[o].seen <= refreshes[k]
        /\ FreshOK(o, k) /\ HalfwayOK(o, k)

\* Before its keygen returns, a key has the share that was dealt.
DealtOK(k) ==
    k \in Ops =>
        /\ store[k] # None => Stored(srv[k])
        /\ wallet[k] # None => op[k].kind = "keygen" /\ op[k].at = "returned"
        /\ wallet[k] = None =>
              /\ refreshes[k] = 0
              /\ store[k] # None => store[k] = Point(srv[k].curve, 2, k, srv[k].shift)

\* What the host keeps is what an engine handed out, and its backup is of it.
KeptOK(k) ==
    wallet[k] # None =>
        /\ wallet[k].share = Emit(wallet[k].share.bytes)
        /\ ~wallet[k].stale => wallet[k].backup.share = wallet[k].share

SettledOK(k) ==
    Settled(k) => /\ InStep(wallet[k].share.bytes, store[k])
                  /\ wallet[k].ver = 1 + refreshes[k]

KeyOK(k) ==
    /\ \A o \in Ops : RecoverOK(o, k)
    /\ DealtOK(k) /\ KeptOK(k) /\ SettledOK(k)

StagesOK == \A o \in Ops : StageOK(op[o], wire[o], srv[o])
Rotations == StagesOK /\ \A k \in Keys : KeyOK(k)

-----------------------------------------------------------------------------
(* What a step leaves as it was.                                           *)

LEMMA RefreshingIs ==
    ASSUME NEW k
    PROVE  Refreshing(k) <=> \E o \in Ops : Halfway(o, k)
  BY DEF Refreshing, Halfway, Half, Stored

\* A step of one operation, seen from each.
LEMMA MovesTo ==
    ASSUME TypeOK, NEW o \in Ops, NEW p, NEW w, NEW e, NEW s, Moves(o, p, w, e, s)
    PROVE  /\ op'[o] = p /\ wire'[o] = w /\ eng'[o] = e /\ srv'[o] = s
           /\ \A q \in Ops : q # o =>
                 /\ op'[q] = op[q] /\ wire'[q] = wire[q]
                 /\ eng'[q] = eng[q] /\ srv'[q] = srv[q]
  BY DEF Moves, TypeOK

LEMMA StagesOn ==
    ASSUME TypeOK, StagesOK, NEW o \in Ops, NEW p, NEW w, NEW e, NEW s,
           Moves(o, p, w, e, s), StageOK(p, w, s)
    PROVE  StagesOK'
  <1> SUFFICES ASSUME NEW q \in Ops
               PROVE  StageOK(op'[q], wire'[q], srv'[q])
    BY DEF StagesOK
  <1>1. CASE q = o
    BY <1>1, MovesTo
  <1>2. CASE q # o
    <2>1. op'[q] = op[q] /\ wire'[q] = wire[q] /\ srv'[q] = srv[q]
      BY <1>2, MovesTo
    <2>2. StageOK(op[q], wire[q], srv[q])
      BY DEF StagesOK
    <2> QED
      BY <2>1, <2>2
  <1> QED
    BY <1>1, <1>2

\* Nothing of key k changes, and nothing of the operations but o.
Same(k) == /\ store'[k] = store[k] /\ wallet'[k] = wallet[k]
           /\ refreshes'[k] = refreshes[k] /\ (k \in torn => k \in torn')
Only(o) == \A q \in Ops : q # o =>
              op'[q] = op[q] /\ eng'[q] = eng[q] /\ srv'[q] = srv[q]

\* Then it is enough to look at o, which may get halfway only in Persist.
LEMMA KeyOn ==
    ASSUME NEW k \in Keys, NEW o \in Ops, KeyOK(k), Same(k), Only(o),
           Halfway(o, k)' => Halfway(o, k),
           Halfway(o, k) => Halfway(o, k)' \/ k \in torn',
           RecoverOK(o, k)', DealtOK(k)'
    PROVE  KeyOK(k)'
  <1>1. \A q \in Ops : Halfway(q, k)' => Halfway(q, k)
    BY DEF Only, Halfway
  <1>2. ASSUME NEW q \in Ops
        PROVE  RecoverOK(q, k)'
    <2>1. CASE q = o
      BY <2>1
    <2>2. CASE q # o
      <3>1. op'[q] = op[q] /\ eng'[q] = eng[q] /\ srv'[q] = srv[q]
        BY <2>2 DEF Only
      <3>2. RecoverOK(q, k)
        BY DEF KeyOK
      <3>3. FreshOK(q, k) => FreshOK(q, k)'
        BY <1>1, <3>1 DEF FreshOK, Same
      <3>4. HalfwayOK(q, k) => HalfwayOK(q, k)'
        BY <1>1, <3>1 DEF HalfwayOK, Same
      <3> QED
        BY <3>1, <3>2, <3>3, <3>4 DEF RecoverOK, Same
    <2> QED
      BY <2>1, <2>2
  <1>3. KeptOK(k)'
    BY DEF KeyOK, KeptOK, Same
  <1>4. SettledOK(k)'
    <2> SUFFICES ASSUME Settled(k)'
                 PROVE  /\ InStep(wallet'[k].share.bytes, store'[k])
                        /\ wallet'[k].ver = 1 + refreshes'[k]
      BY DEF SettledOK
    <2>1. ~Refreshing(k)' /\ k \notin torn' /\ wallet[k] # None
      BY DEF Settled, Same
    <2>2. \A q \in Ops : ~Halfway(q, k)'
      BY <2>1 DEF Refreshing, Halfway, Half, Stored
    <2>3. \A q \in Ops : ~Halfway(q, k)
      BY <2>1, <2>2 DEF Only, Halfway
    <2>4. Settled(k)
      BY <2>1, <2>3, RefreshingIs DEF Settled, Same
    <2> QED
      BY <2>4 DEF KeyOK, SettledOK, Same
  <1> QED
    BY <1>2, <1>3, <1>4 DEF KeyOK

\* A key whose keygen is another's, or has stored what it had.
LEMMA DealtOn ==
    ASSUME NEW k \in Keys, NEW o \in Ops, DealtOK(k), Same(k), Only(o),
           k = o => /\ op[o].at # "returned"
                    /\ Stored(srv[o]) => srv'[o] = srv[o]
    PROVE  DealtOK(k)'
  BY DEF DealtOK, Same, Only, Stored

\* A step of o that neither begins nor ends a rotation.
LEMMA QuietOn ==
    ASSUME IInv, Rotations, NEW o \in Ops, NEW p, NEW w, NEW e, NEW s, Moves(o, p, w, e, s),
           UNCHANGED <<store, wallet, refreshes>>, torn \subseteq torn',
           op[o].at # "returned", StageOK(p, w, s),
           p.kind = op[o].kind, p.key = op[o].key, p.ver = op[o].ver, p.seen = op[o].seen,
           Stored(srv[o]) \/ Stored(s) => s = srv[o],
           s # None /\ s # srv[o] /\ p.kind = "recover" => s.base = store[p.key],
           Half(p, s) => Half(op[o], srv[o]) /\ e = eng[o],
           Half(op[o], srv[o]) => Half(p, s) \/ op[o].key \in torn'
    PROVE  Rotations'
  <1>1. op'[o] = p /\ wire'[o] = w /\ eng'[o] = e /\ srv'[o] = s /\ Only(o)
    BY MovesTo DEF IInv, Only
  <1>2. StagesOK'
    BY StagesOn DEF IInv, Rotations
  <1>3. ASSUME NEW k \in Keys
        PROVE  KeyOK(k)'
    <2>1. Same(k) /\ KeyOK(k)
      BY DEF Same, Rotations
    <2>2. /\ Halfway(o, k)' => Halfway(o, k)
          /\ Halfway(o, k) => Halfway(o, k)' \/ k \in torn'
      BY <1>1 DEF Halfway
    <2>3. DealtOK(k)'
      BY <1>1, <2>1, DealtOn DEF KeyOK
    <2>4. \A q \in Ops : Halfway(q, k)' => Halfway(q, k)
      BY <1>1, <2>2 DEF Only, Halfway
    <2>5. RecoverOK(o, k)'
      <3>1. SUFFICES ASSUME p.kind = "recover", p.key = k
                     PROVE  /\ wallet[k] # None
                            /\ p.seen # None => p.seen <= refreshes[k]
                            /\ FreshOK(o, k)' /\ HalfwayOK(o, k)'
        BY <1>1 DEF RecoverOK
      <3>2. RecoverOK(o, k) /\ op[o].kind = "recover" /\ op[o].key = k
        BY <2>1, <3>1 DEF KeyOK
      <3>3. FreshOK(o, k)'
        BY <1>1, <2>1, <2>4, <3>1, <3>2 DEF RecoverOK, FreshOK, Same
      <3>4. HalfwayOK(o, k)'
        <4> SUFFICES ASSUME k \notin torn', Halfway(o, k)'
                     PROVE  /\ p.ver = refreshes[k]
                            /\ store[k] = Refresh(s.base, s.shift)
                            /\ InStep(e.base, s.base)
                            /\ \A q \in Ops : Halfway(q, k)' => q = o
          BY <1>1 DEF HalfwayOK
        <4>1. Half(p, s) /\ e = eng[o] /\ s = srv[o] /\ Halfway(o, k) /\ k \notin torn
          BY <1>1, <2>1, <2>2 DEF Halfway, Half, Same
        <4> QED
          BY <2>4, <3>2, <4>1 DEF RecoverOK, HalfwayOK
      <3> QED
        BY <3>2, <3>3, <3>4 DEF RecoverOK
    <2> QED
      BY <1>1, <2>1, <2>2, <2>3, <2>5, KeyOn
  <1> QED
    BY <1>2, <1>3 DEF Rotations

-----------------------------------------------------------------------------
(* Calls, and the host's backup.                                           *)

\* A call of recover takes the version of what the host keeps.
LEMMA BeginKeeps ==
    ASSUME IInv, Rotations, NEW o \in Ops, NEW p, Begin(o, p), p.round = 1,
           p.kind = "recover" => /\ p.key \in Keys /\ wallet[p.key] # None
                                 /\ p.ver = wallet[p.key].ver
                                 /\ p.seen = IF Refreshing(p.key) THEN None
                                             ELSE refreshes[p.key]
    PROVE  Rotations'
  <1>1. op[o].kind = "none" /\ op[o].at = "new" /\ srv[o] = None
    BY ThisOp DEF Begin, OpOK, ArgsOK, ServerOK
  <1>2. PICK w, e, s : w = wire[o] /\ e = eng[o] /\ s = srv[o]
    OBVIOUS
  <1>3. Moves(o, p, w, e, s)
    BY <1>2, SameFun DEF Begin, Moves, IInv, TypeOK
  <1>4. op'[o] = p /\ eng'[o] = e /\ srv'[o] = None /\ Only(o)
    BY <1>1, <1>2, <1>3, MovesTo DEF IInv, Only
  <1>5. StagesOK'
    <2>1. StageOK(p, w, s)
      BY <1>1, <1>2 DEF StageOK, Stored
    <2> QED
      BY <1>3, <2>1, StagesOn DEF IInv, Rotations
  <1>6. ASSUME NEW k \in Keys
        PROVE  KeyOK(k)'
    <2>1. Same(k) /\ KeyOK(k) /\ (k \in torn' => k \in torn)
      BY DEF Same, Rotations, Begin
    <2>2. ~Halfway(o, k)' /\ ~Halfway(o, k)
      BY <1>1, <1>4 DEF Halfway, Half, Stored
    <2>3. DealtOK(k)'
      BY <1>1, <1>4, <2>1, DealtOn DEF KeyOK, Stored
    <2>4. \A q \in Ops : Halfway(q, k)' => Halfway(q, k)
      BY <1>4, <2>2 DEF Only, Halfway
    <2>5. RecoverOK(o, k)'
      <3>1. SUFFICES ASSUME p.kind = "recover", p.key = k
                     PROVE  /\ wallet[k] # None
                            /\ p.seen # None => p.seen <= refreshes[k]
                            /\ FreshOK(o, k)' /\ HalfwayOK(o, k)'
        BY <1>4, <2>1 DEF RecoverOK, Same
      <3>2. refreshes[k] \in Nat /\ refreshes[k] # None
        BY WalletAssumption DEF IInv, TypeOK
      <3>3. FreshOK(o, k)'
        <4> SUFFICES ASSUME k \notin torn, p.seen = refreshes[k]
                     PROVE  /\ p.ver = 1 + refreshes[k]
                            /\ \A q \in Ops : ~Halfway(q, k)'
          BY <1>4, <2>1 DEF FreshOK, Same
        <4>1. ~Refreshing(k)
          BY <3>1, <3>2
        <4>2. Settled(k)
          BY <3>1, <4>1 DEF Settled
        <4> QED
          BY <2>1, <2>4, <3>1, <4>1, <4>2, RefreshingIs DEF KeyOK, SettledOK
      <3>4. HalfwayOK(o, k)'
        BY <2>2 DEF HalfwayOK
      <3> QED
        BY <3>1, <3>2, <3>3, <3>4
    <2> QED
      BY <1>4, <2>1, <2>2, <2>3, <2>5, KeyOn
  <1> QED
    BY <1>5, <1>6 DEF Rotations

LEMMA HostKeeps ==
    ASSUME IInv, Rotations, NEW o \in Ops, Host(o)
    PROVE  Rotations'
  <1>1. ASSUME NEW c \in Curves, CallKeygen(o, c)
        PROVE  Rotations'
    <2>1. PICK p : p = [NewOp EXCEPT !.kind = "keygen", !.at = "send", !.key = o, !.curve = c]
      OBVIOUS
    <2>2. p.kind = "keygen" /\ p.round = 1
      BY <2>1 DEF NewOp
    <2> QED
      BY <1>1, <2>1, <2>2, BeginKeeps DEF CallKeygen
  <1>2. ASSUME NEW k \in Keys, NEW secret \in Secrets, NEW renew \in Secrets \cup {None},
               CallRecover(o, k, secret, renew)
        PROVE  Rotations'
    <2>1. PICK sh : sh = DecryptBackupShare(wallet[k].backup, secret)
      OBVIOUS
    <2>2. PICK p : p = [NewOp EXCEPT !.kind = "recover", !.key = k, !.share = sh,
                           !.at = IF sh = None THEN "failed" ELSE "send",
                           !.ver = wallet[k].ver, !.renew = renew,
                           !.seen = IF Refreshing(k) THEN None ELSE refreshes[k]]
      OBVIOUS
    <2>3. /\ p.round = 1 /\ p.key = k /\ p.ver = wallet[k].ver
          /\ p.seen = IF Refreshing(k) THEN None ELSE refreshes[k]
      BY <2>2 DEF NewOp
    <2>4. Begin(o, p) /\ wallet[k] # None
      BY <1>2, <2>1, <2>2 DEF CallRecover
    <2> QED
      BY <2>3, <2>4, BeginKeeps
  <1>3. ASSUME NEW kind \in {"sign", "export"}, NEW k \in Keys,
               NEW msg, CallWithShare(o, kind, k, msg)
        PROVE  Rotations'
    <2>1. PICK sh, late : Begin(o, [NewOp EXCEPT !.kind = kind, !.at = "send", !.key = k,
                                      !.share = sh, !.msg = msg, !.late = late])
      BY <1>3 DEF CallWithShare
    <2>2. PICK p : p = [NewOp EXCEPT !.kind = kind, !.at = "send", !.key = k,
                           !.share = sh, !.msg = msg, !.late = late]
      OBVIOUS
    <2>3. p.kind = kind /\ p.round = 1
      BY <2>2 DEF NewOp
    <2> QED
      BY <2>1, <2>2, <2>3, BeginKeeps
  <1> QED
    BY <1>1, <1>2, <1>3 DEF Host

\* The backup is of the share; the share stays.
LEMMA BackUpKeeps ==
    ASSUME IInv, Rotations, NEW k \in Keys, NEW secret \in Secrets, BackUp(k, secret)
    PROVE  Rotations'
  <1>1. wallet[k] # None /\ wallet[k] \in Wallet
    BY DEF BackUp, IInv, TypeOK
  <1>2. PICK b \in Backup : /\ b = DeriveBackupEnvelope(wallet[k].share, secret)
                            /\ b.share = wallet[k].share
    BY <1>1, BackupType DEF Wallet
  <1>3. PICK r : r = [wallet[k] EXCEPT !.stale = FALSE, !.backup = b]
    OBVIOUS
  <1>4. r \in Wallet /\ r.share = wallet[k].share /\ r.backup = b /\ r.ver = wallet[k].ver
    BY <1>1, <1>3 DEF Wallet
  <1>5. r # None
    BY <1>4, RecordAssumption
  <1>6. wallet'[k] = r /\ \A j \in Keys : j # k => wallet'[j] = wallet[j]
    BY <1>2, <1>3 DEF BackUp, IInv, TypeOK
  <1>7. UNCHANGED <<op, wire, eng, srv, store, torn, refreshes>>
    BY DEF BackUp
  <1>8. StagesOK'
    BY <1>7 DEF Rotations, StagesOK
  <1>9. ASSUME NEW j \in Keys
        PROVE  KeyOK(j)'
    <2>1. KeyOK(j)
      BY DEF Rotations
    <2>2. /\ wallet'[j] # None <=> wallet[j] # None
          /\ wallet[j] # None => /\ wallet'[j].share = wallet[j].share
                                 /\ wallet'[j].ver = wallet[j].ver
      BY <1>1, <1>4, <1>5, <1>6
    <2>3. ASSUME NEW o \in Ops
          PROVE  RecoverOK(o, j)'
      BY <1>7, <2>1, <2>2 DEF KeyOK, RecoverOK, FreshOK, HalfwayOK, Halfway
    <2>4. DealtOK(j)'
      BY <1>7, <2>1, <2>2 DEF KeyOK, DealtOK
    <2>5. KeptOK(j)'
      BY <1>2, <1>4, <1>6, <2>1, <2>2 DEF KeyOK, KeptOK
    <2>6. SettledOK(j)'
      BY <1>7, <2>1, <2>2 DEF KeyOK, SettledOK, Settled, Refreshing
    <2> QED
      BY <2>3, <2>4, <2>5, <2>6 DEF KeyOK
  <1> QED
    BY <1>8, <1>9 DEF Rotations

-----------------------------------------------------------------------------
(* The transport and the engine.                                           *)

LEMMA SendKeeps ==
    ASSUME IInv, Rotations, NEW o \in Ops, Send(o)
    PROVE  Rotations'
  <1>1. op[o].at = "send"
    BY DEF Send
  <1>2. PICK p : p = [op[o] EXCEPT !.at = "await"]
    OBVIOUS
  <1>3. PICK w, e, s : w = [NoWire EXCEPT !.state = "request"] /\ e = eng[o] /\ s = srv[o]
    OBVIOUS
  <1>4. /\ p.at = "await" /\ p.kind = op[o].kind /\ p.key = op[o].key /\ p.round = op[o].round
        /\ p.ver = op[o].ver /\ p.seen = op[o].seen
    BY <1>2, SetAt, ThisOp
  <1>5. Moves(o, p, w, e, s)
    BY <1>2, <1>3, SameFun DEF Send, Moves, IInv, TypeOK
  <1>6. StageOK(op[o], wire[o], srv[o])
    BY DEF Rotations, StagesOK
  <1>7. StageOK(p, w, s)
    BY <1>1, <1>3, <1>4, <1>6 DEF StageOK
  <1>8. Half(p, s) <=> Half(op[o], srv[o])
    BY <1>1, <1>3, <1>4 DEF Half
  <1> QED
    BY <1>1, <1>3, <1>4, <1>5, <1>7, <1>8, QuietOn DEF Send

\* A rotation that is cut off is torn.
LEMMA FailKeeps ==
    ASSUME IInv, Rotations, NEW o \in Ops, NEW w \in {NoWire, wire[o]}, NEW e \in {eng[o], None},
           op[o].at = "await", Fail(o),
           wire' = [wire EXCEPT ![o] = w], eng' = [eng EXCEPT ![o] = e],
           UNCHANGED <<srv, store, wallet, refreshes>>
    PROVE  Rotations'
  <1>1. PICK p, s, e1, w1 : /\ p = [op[o] EXCEPT !.at = "failed"] /\ s = srv[o]
                            /\ e1 = e /\ w1 = w
    OBVIOUS
  <1>2. /\ p.at = "failed" /\ p.kind = op[o].kind /\ p.key = op[o].key /\ p.round = op[o].round
        /\ p.ver = op[o].ver /\ p.seen = op[o].seen
    BY <1>1, SetAt, ThisOp
  <1>3. Moves(o, p, w1, e1, s)
    BY <1>1, SameFun DEF Fail, Moves, IInv, TypeOK
  <1>4. StageOK(op[o], wire[o], srv[o])
    BY DEF Rotations, StagesOK
  <1>5. StageOK(p, w1, s)
    BY <1>1, <1>2, <1>4, NoWireIs DEF StageOK
  <1>6. torn \subseteq torn' /\ (Half(op[o], srv[o]) => op[o].key \in torn')
    BY DEF Fail, Half, Stored
  <1>7. ~Half(p, s)
    BY <1>2 DEF Half
  <1> QED
    BY <1>1, <1>2, <1>3, <1>5, <1>6, <1>7, QuietOn

LEMMA TransportFailsKeeps ==
    ASSUME IInv, Rotations, NEW o \in Ops, TransportFails(o)
    PROVE  Rotations'
  <1>1. eng' = [eng EXCEPT ![o] = eng[o]]
    BY SameFun DEF TransportFails, IInv, TypeOK
  <1>2. CASE wire' = [wire EXCEPT ![o] = NoWire]
    BY <1>1, <1>2, FailKeeps DEF TransportFails
  <1>3. CASE wire[o].state = "request" /\ UNCHANGED wire
    <2>1. wire' = [wire EXCEPT ![o] = wire[o]]
      BY <1>3, SameFun DEF IInv, TypeOK
    <2> QED
      BY <1>1, <2>1, FailKeeps DEF TransportFails
  <1> QED
    BY <1>2, <1>3 DEF TransportFails

LEMMA RpcErrorKeeps ==
    ASSUME IInv, Rotations, NEW o \in Ops, RpcError(o)
    PROVE  Rotations'
  <1>1. eng' = [eng EXCEPT ![o] = eng[o]]
    BY SameFun DEF RpcError, IInv, TypeOK
  <1> QED
    BY <1>1, FailKeeps DEF RpcError

LEMMA EngineFailsKeeps ==
    ASSUME IInv, Rotations, NEW o \in Ops, EngineFails(o)
    PROVE  Rotations'
  <1>1. eng' = [eng EXCEPT ![o] = eng[o]] \/ eng' = [eng EXCEPT ![o] = None]
    BY SameFun DEF EngineFails, IInv, TypeOK
  <1> QED
    BY <1>1, FailKeeps DEF EngineFails, Got, FailNow

\* The next round; the engine's session is new in round 1, when nothing is
\* stored, and stays in round 2.
LEMMA NextRoundKeeps ==
    ASSUME IInv, Rotations, NEW o \in Ops, NEW e, op[o].at = "await", op[o].round \in {1, 2},
           NextRound(o), eng' = [eng EXCEPT ![o] = e], op[o].round = 2 => e = eng[o],
           UNCHANGED <<srv, store, wallet, torn, refreshes>>
    PROVE  Rotations'
  <1>1. PICK n, p : n = op[o].round + 1 /\ p = [op[o] EXCEPT !.at = "send", !.round = n]
    OBVIOUS
  <1>2. /\ p.at = "send" /\ p.kind = op[o].kind /\ p.key = op[o].key /\ p.round = n
        /\ p.ver = op[o].ver /\ p.seen = op[o].seen
    BY <1>1, ThisOp DEF Op
  <1>3. PICK w, s : w = NoWire /\ s = srv[o]
    OBVIOUS
  <1>4. Moves(o, p, w, e, s)
    <2>1. op' = [op EXCEPT ![o] = p]
      BY <1>1 DEF NextRound, IInv, TypeOK
    <2> QED
      BY <1>3, <2>1, SameFun DEF NextRound, Moves, IInv, TypeOK
  <1>5. StageOK(op[o], wire[o], srv[o])
    BY DEF Rotations, StagesOK
  <1>6. StageOK(p, w, s) /\ (Half(p, s) => op[o].round = 2)
    BY <1>1, <1>2, <1>3, <1>5 DEF StageOK, Half
  <1>7. Half(p, s) <=> Half(op[o], srv[o])
    BY <1>2, <1>3 DEF Half
  <1> QED
    BY <1>2, <1>3, <1>4, <1>6, <1>7, QuietOn

LEMMA Round1Keeps ==
    ASSUME IInv, Rotations, NEW o \in Ops, EngineRound1(o)
    PROVE  Rotations'
  <1>1. /\ op[o].at = "await" /\ op[o].round = 1
        /\ UNCHANGED <<srv, store, wallet, exported, refreshes>>
    BY DEF EngineRound1, Got
  <1>2. CASE FailNow(o) /\ UNCHANGED eng
    <2>1. eng' = [eng EXCEPT ![o] = eng[o]]
      BY <1>2, SameFun DEF IInv, TypeOK
    <2> QED
      BY <1>1, <1>2, <2>1, FailKeeps DEF FailNow
  <1>3. ASSUME NEW e, eng' = [eng EXCEPT ![o] = e], NextRound(o), UNCHANGED torn
        PROVE  Rotations'
    <2>1. /\ op[o].round \in {1, 2} /\ (op[o].round = 2 => e = eng[o])
          /\ UNCHANGED <<srv, store, wallet, torn, refreshes>>
      BY <1>1, <1>3
    <2> QED
      BY <1>1, <1>3, <2>1, NextRoundKeeps
  <1> QED
    BY <1>2, <1>3 DEF EngineRound1

LEMMA EngineContinuesKeeps ==
    ASSUME IInv, Rotations, NEW o \in Ops, EngineContinues(o)
    PROVE  Rotations'
  <1>1. eng' = [eng EXCEPT ![o] = eng[o]]
    BY SameFun DEF EngineContinues, IInv, TypeOK
  <1> QED
    BY <1>1, NextRoundKeeps DEF EngineContinues, Got

\* A signature, or an exported key, is returned.
LEMMA ReturnKeeps ==
    ASSUME IInv, Rotations, NEW o \in Ops, NEW x, x \in [key : Field] \/ x = None,
           op[o].at = "await", op[o].kind \in {"sign", "export"}, Return(o, x),
           NEW e, eng' = [eng EXCEPT ![o] = e],
           UNCHANGED <<srv, store, wallet, torn, refreshes>>
    PROVE  Rotations'
  <1>1. PICK p, w, s : p = Returned(op[o], x) /\ w = NoWire /\ s = srv[o]
    OBVIOUS
  <1>2. /\ p.at = "returned" /\ p.kind = op[o].kind /\ p.key = op[o].key
        /\ p.round = op[o].round /\ p.ver = op[o].ver /\ p.seen = op[o].seen
    BY <1>1, SetReturned, ThisOp
  <1>3. Moves(o, p, w, e, s)
    <2>1. op' = [op EXCEPT ![o] = p]
      BY <1>1 DEF Return, Returned, IInv, TypeOK
    <2> QED
      BY <1>1, <2>1, SameFun DEF Return, Moves, IInv, TypeOK
  <1>4. StageOK(op[o], wire[o], srv[o])
    BY DEF Rotations, StagesOK
  <1>5. StageOK(p, w, s)
    BY <1>1, <1>2, <1>4 DEF StageOK
  <1>6. ~Half(p, s) /\ ~Half(op[o], srv[o])
    BY <1>2 DEF Half
  <1> QED
    BY <1>1, <1>2, <1>3, <1>5, <1>6, QuietOn

LEMMA SignedKeeps ==
    ASSUME IInv, Rotations, NEW o \in Ops, EngineSigns(o) \/ SignedByServer(o)
    PROVE  Rotations'
  <1>1. eng' = [eng EXCEPT ![o] = eng[o]] \/ eng' = [eng EXCEPT ![o] = None]
    BY SameFun DEF EngineSigns, SignedByServer, IInv, TypeOK
  <1> QED
    BY <1>1, ReturnKeeps DEF EngineSigns, SignedByServer, Got

LEMMA ExportsKeeps ==
    ASSUME IInv, Rotations, NEW o \in Ops, EngineExports(o)
    PROVE  Rotations'
  <1>1. PICK x : x = Export(op[o].share, wire[o].share)
    OBVIOUS
  <1>2. /\ op[o].at = "await" /\ op[o].kind = "export"
        /\ UNCHANGED <<eng, srv, store, wallet, refreshes>>
    BY DEF EngineExports, Got
  <1>3. eng' = [eng EXCEPT ![o] = eng[o]]
    BY <1>2, SameFun DEF IInv, TypeOK
  <1>4. CASE FailNow(o)
    BY <1>2, <1>3, <1>4, FailKeeps DEF FailNow
  <1>5. CASE x # None /\ Return(o, [key |-> x.key]) /\ UNCHANGED torn
    <2>1. op[o].share \in ShareString
      BY <1>2, ThisOp DEF OpOK, ArgsOK
    <2>2. x.key \in Field
      BY <1>1, <1>5, <2>1, ExportReads DEF Material
    <2>3. PICK y : y = [key |-> x.key]
      OBVIOUS
    <2> QED
      BY <1>2, <1>3, <1>5, <2>2, <2>3, ReturnKeeps
  <1> QED
    BY <1>1, <1>4, <1>5 DEF EngineExports

-----------------------------------------------------------------------------
(* The server.                                                             *)

\* An answer that stores nothing.
LEMMA AnswerKeeps ==
    ASSUME IInv, Rotations, NEW o \in Ops, NEW w, NEW s, Asked(o), Answer(o, w),
           w.state # "request", srv' = [srv EXCEPT ![o] = s],
           UNCHANGED <<op, eng, store, wallet, torn, refreshes>>,
           s # srv[o] => /\ ~Stored(srv[o]) /\ ~Stored(s)
                         /\ op[o].kind = "recover" => s.base = store[op[o].key]
    PROVE  Rotations'
  <1>1. PICK w1 : w1 = IF op[o].at = "failed" THEN NoWire ELSE w
    OBVIOUS
  <1>2. PICK p, e : p = op[o] /\ e = eng[o]
    OBVIOUS
  <1>3. Moves(o, p, w1, e, s)
    BY <1>1, <1>2, SameFun DEF Moves, Answer, IInv, TypeOK
  <1>4. op[o].at \in {"await", "failed"}
    BY ThisOp DEF Asked, OpOK, WireOK
  <1>5. StageOK(op[o], wire[o], srv[o])
    BY DEF Rotations, StagesOK
  <1>6. StageOK(p, w1, s)
    BY <1>1, <1>2, <1>4, <1>5, NoWireIs DEF StageOK
  <1>7. Half(p, s) <=> Half(op[o], srv[o])
    BY <1>2 DEF Half
  <1> QED
    BY <1>2, <1>3, <1>4, <1>6, <1>7, QuietOn

LEMMA RefusesKeeps ==
    ASSUME IInv, Rotations, NEW o \in Ops, ServerRefuses(o)
    PROVE  Rotations'
  <1>1. PICK w : w = [NoWire EXCEPT !.state = "error"]
    OBVIOUS
  <1>2. w.state # "request"
    BY <1>1 DEF NoWire
  <1>3. srv' = [srv EXCEPT ![o] = srv[o]]
    BY SameFun DEF ServerRefuses, IInv, TypeOK
  <1> QED
    BY <1>1, <1>2, <1>3, AnswerKeeps DEF ServerRefuses

LEMMA ServerExportsKeeps ==
    ASSUME IInv, Rotations, NEW o \in Ops, ServerExports(o)
    PROVE  Rotations'
  <1>1. PICK w : w = [Payload(None) EXCEPT !.share = Emit(store[op[o].key])]
    OBVIOUS
  <1>2. w.state # "request"
    BY <1>1 DEF Payload, NoWire
  <1>3. srv' = [srv EXCEPT ![o] = srv[o]]
    BY SameFun DEF ServerExports, IInv, TypeOK
  <1> QED
    BY <1>1, <1>2, <1>3, AnswerKeeps DEF ServerExports

\* The server starts from the share it has stored.
LEMMA BeginsKeeps ==
    ASSUME IInv, Rotations, NEW o \in Ops, ServerBegins(o)
    PROVE  Rotations'
  <1>1. PICK base, c :
          /\ base = IF op[o].kind = "keygen" THEN None ELSE store[op[o].key]
          /\ c = IF op[o].kind = "keygen" THEN op[o].curve ELSE base.curve
    OBVIOUS
  <1>2. PICK d :
          srv' = [srv EXCEPT ![o] = [curve |-> c, key |-> op[o].key, base |-> base,
                                     shift |-> d, persisted |-> FALSE]]
    BY <1>1 DEF ServerBegins
  <1>3. PICK env : Answer(o, Payload(env))
    BY <1>1 DEF ServerBegins
  <1>4. PICK s : s = [curve |-> c, key |-> op[o].key, base |-> base,
                      shift |-> d, persisted |-> FALSE]
    OBVIOUS
  <1>5. ~Stored(s) /\ s.base = base
    BY <1>4 DEF Stored
  <1>6. PICK w : w = Payload(env)
    OBVIOUS
  <1>7. w.state # "request"
    BY <1>6 DEF Payload, NoWire
  <1>8. ~Stored(srv[o])
    BY DEF ServerBegins, Rotations, StagesOK, StageOK
  <1>9. /\ Asked(o) /\ Answer(o, w) /\ srv' = [srv EXCEPT ![o] = s]
        /\ UNCHANGED <<op, eng, store, wallet, torn, refreshes>>
    BY <1>2, <1>3, <1>4, <1>6 DEF ServerBegins
  <1> QED
    BY <1>1, <1>5, <1>7, <1>8, <1>9, AnswerKeeps

\* A refresh of another key, or of no key, says nothing of k.
LEMMA OtherKey ==
    ASSUME IInv, NEW o \in Ops, NEW k \in Keys, KeyOK(k), Same(k), Only(o),
           op[o].kind \in {"keygen", "recover"}, op[o].key # k,
           op'[o].kind = op[o].kind, op'[o].key = op[o].key
    PROVE  KeyOK(k)'
  <1>1. ~Halfway(o, k) /\ ~Halfway(o, k)' /\ RecoverOK(o, k)'
    BY DEF Halfway, RecoverOK
  <1>2. DealtOK(k)'
    <2>1. CASE k = o
      <3>1. op[o].kind = "recover" /\ store[k] = None
        BY <2>1, ThisOp DEF OpOK, ArgsOK, IInv, StoreOK
      <3>2. wallet[k] = None
        BY <3>1 DEF IInv, WalletOK, Holds
      <3> QED
        BY <3>1, <3>2 DEF KeyOK, DealtOK, Same
    <2>2. CASE k # o
      BY <2>2, DealtOn DEF KeyOK
    <2> QED
      BY <2>1, <2>2
  <1> QED
    BY <1>1, <1>2, KeyOn

\* The server stores the share of a new key: nobody else knows of it.
LEMMA DealKeeps ==
    ASSUME IInv, Rotations, NEW o \in Ops, NEW s, Only(o), op' = op, eng' = eng,
           op[o].kind = "keygen", op[o].at \in {"await", "failed"}, srv'[o] = s, Stored(s),
           s.curve = srv[o].curve, s.shift = srv[o].shift,
           store'[o] = Point(srv[o].curve, 2, o, srv[o].shift),
           UNCHANGED <<wallet, refreshes>>
    PROVE  KeyOK(o)'
  <1>1. o \in Keys /\ KeyOK(o)
    BY DEF Keys, Rotations
  <1>2. wallet[o] = None
    BY <1>1 DEF KeyOK, DealtOK
  <1>3. ASSUME NEW q \in Ops
        PROVE  RecoverOK(q, o)'
    BY <1>1, <1>2 DEF KeyOK, RecoverOK
  <1>4. DealtOK(o)'
    BY <1>1, <1>2 DEF KeyOK, DealtOK
  <1> QED
    BY <1>2, <1>3, <1>4 DEF KeyOK, KeptOK, SettledOK, Settled

\* The server stores a refreshed share: unless that is torn, the operation saw
\* all refreshes before it and fits, and is now the only one halfway.
LEMMA RotateKeeps ==
    ASSUME IInv, Rotations, NEW o \in Ops, NEW k \in Keys, NEW s, Only(o),
           op' = op, eng' = eng,
           op[o].kind = "recover", op[o].key = k, op[o].at \in {"await", "failed"},
           srv[o] # None, ~Stored(srv[o]), srv'[o] = s, Stored(s),
           s.base = srv[o].base, s.shift = srv[o].shift,
           store'[k] = Refresh(srv[o].base, srv[o].shift),
           wallet' = wallet, refreshes'[k] = refreshes[k] + 1,
           torn' = IF \/ op[o].at = "failed" \/ op[o].seen # refreshes[k]
                      \/ ~InStep(eng[o].base, srv[o].base)
                   THEN torn \cup {k} ELSE torn
    PROVE  KeyOK(k)'
  <1>1. KeyOK(k) /\ RecoverOK(o, k) /\ wallet[k] # None
    BY DEF Rotations, KeyOK, RecoverOK
  <1>2. refreshes[k] \in Nat /\ None \notin Nat
    BY WalletAssumption DEF IInv, TypeOK
  <1>3. k \notin torn' =>
           /\ k \notin torn /\ op[o].at = "await" /\ op[o].seen = refreshes[k]
           /\ InStep(eng[o].base, srv[o].base)
    OBVIOUS
  <1>4. k \notin torn' => op[o].ver = 1 + refreshes[k] /\ \A q \in Ops : ~Halfway(q, k)
    BY <1>1, <1>3 DEF RecoverOK, FreshOK
  <1>5. k \notin torn' => \A q \in Ops : Halfway(q, k)' => q = o
    BY <1>4 DEF Only, Halfway
  <1>6. ASSUME NEW q \in Ops
        PROVE  RecoverOK(q, k)'
    <2> SUFFICES ASSUME op[q].kind = "recover", op[q].key = k
                 PROVE  /\ op[q].seen # None => op[q].seen <= refreshes[k] + 1
                        /\ FreshOK(q, k)' /\ HalfwayOK(q, k)'
      BY <1>1 DEF RecoverOK
    <2>1. RecoverOK(q, k) /\ op[q] \in Op
      BY <1>1, ThisOp DEF KeyOK
    <2>2. op[q].seen \in Nat \cup {None} /\ (op[q].seen # None => op[q].seen <= refreshes[k])
      BY <2>1 DEF RecoverOK, Op
    <2>3. op[q].seen # refreshes[k] + 1
      BY <1>2, <2>2
    <2>4. FreshOK(q, k)'
      BY <2>3 DEF FreshOK
    <2>5. HalfwayOK(q, k)'
      <3> SUFFICES ASSUME k \notin torn', Halfway(q, k)'
                   PROVE  /\ op[q].ver = refreshes[k] + 1
                          /\ store'[k] = Refresh(srv'[q].base, srv'[q].shift)
                          /\ InStep(eng[q].base, srv'[q].base)
                          /\ \A r \in Ops : Halfway(r, k)' => r = q
        BY DEF HalfwayOK
      <3>1. q = o
        BY <1>5
      <3> QED
        BY <1>2, <1>3, <1>4, <1>5, <3>1
    <2> QED
      BY <1>2, <2>2, <2>4, <2>5
  <1>7. DealtOK(k)'
    <2>1. store[k] # None
      BY <1>1 DEF IInv, WalletOK, Holds
    <2>2. k \in Ops => k # o /\ Stored(srv[k]) /\ srv'[k] = srv[k]
      BY <1>1, <2>1 DEF KeyOK, DealtOK, Only
    <2> QED
      BY <1>1, <2>2 DEF KeyOK, DealtOK
  <1>8. KeptOK(k)'
    BY <1>1 DEF KeyOK, KeptOK
  <1>9. SettledOK(k)'
    <2>1. k \notin torn' => Halfway(o, k)'
      BY <1>3 DEF Halfway, Half
    <2>2. k \notin torn' => Refreshing(k)'
      BY <2>1 DEF Refreshing, Halfway, Half, Stored
    <2> QED
      BY <2>2 DEF SettledOK, Settled
  <1> QED
    BY <1>6, <1>7, <1>8, <1>9 DEF KeyOK

LEMMA PersistKeeps ==
    ASSUME IInv, Rotations, NEW o \in Ops, NEW w, Asked(o), srv[o] # None,
           ~srv[o].persisted, op[o].kind # "sign", op[o].round > 1, Persist(o), Answer(o, w),
           w.state # "request", UNCHANGED <<op, eng, wallet>>
    PROVE  Rotations'
  <1>1. PICK k : k = srv[o].key
    OBVIOUS
  <1>2. /\ srv[o] \in ServerSession /\ k = op[o].key /\ k \in Keys
        /\ op[o].kind \in {"keygen", "recover"} /\ (op[o].kind = "keygen" => k = o)
    BY <1>1, ThisOp DEF OpOK, ArgsOK, ServerOK, ServerSession
  <1>3. op[o].at \in {"await", "failed"}
    BY ThisOp DEF Asked, OpOK, WireOK
  <1>4. PICK s : s = [srv[o] EXCEPT !.persisted = TRUE]
    OBVIOUS
  <1>5. /\ s.persisted /\ s.curve = srv[o].curve /\ s.base = srv[o].base
        /\ s.shift = srv[o].shift /\ Stored(s)
    <2>1. s \in ServerSession /\ s.persisted
      BY <1>2, <1>4 DEF ServerSession
    <2> QED
      BY <1>2, <1>4, <2>1, RecordAssumption DEF ServerSession, Stored
  <1>6. PICK w1, p, e : /\ w1 = IF op[o].at = "failed" THEN NoWire ELSE w
                        /\ p = op[o] /\ e = eng[o]
    OBVIOUS
  <1>7. Moves(o, p, w1, e, s)
    BY <1>4, <1>6, SameFun DEF Moves, Answer, Persist, IInv, TypeOK
  <1>8. srv'[o] = s /\ Only(o)
    BY <1>7, MovesTo DEF IInv, Only
  <1>9. StagesOK'
    <2>1. StageOK(p, w1, s)
      BY <1>2, <1>3, <1>6, NoWireIs DEF StageOK
    <2> QED
      BY <1>7, <2>1, StagesOn DEF IInv, Rotations
  <1>10. PICK n : n = IF op[o].kind = "keygen" THEN Point(srv[o].curve, 2, k, srv[o].shift)
                      ELSE Refresh(srv[o].base, srv[o].shift)
    OBVIOUS
  <1>11. /\ store'[k] = n
         /\ \A j \in Keys : j # k => store'[j] = store[j]
    BY <1>1, <1>2, <1>10 DEF Persist, IInv, TypeOK
  <1>12. \A j \in Keys : j # k => refreshes'[j] = refreshes[j] /\ (j \in torn => j \in torn')
    BY <1>1, <1>2 DEF Persist, IInv, TypeOK
  <1>13. ASSUME NEW j \in Keys
         PROVE  KeyOK(j)'
    <2>1. KeyOK(j)
      BY DEF Rotations
    <2>2. CASE j # k
      <3>1. Same(j)
        BY <1>11, <1>12, <2>2 DEF Same
      <3> QED
        BY <1>2, <1>8, <2>1, <2>2, <3>1, OtherKey
    <2>3. CASE j = k /\ op[o].kind = "keygen"
      <3>1. UNCHANGED <<wallet, refreshes>>
        BY <2>3 DEF Persist
      <3> QED
        BY <1>2, <1>3, <1>5, <1>8, <1>10, <1>11, <2>3, <3>1, DealKeeps
    <2>4. CASE j = k /\ op[o].kind = "recover"
      <3>1. /\ refreshes'[k] = refreshes[k] + 1
            /\ torn' = IF \/ op[o].at = "failed" \/ op[o].seen # refreshes[k]
                          \/ ~InStep(eng[o].base, srv[o].base)
                       THEN torn \cup {k} ELSE torn
        BY <1>1, <1>2, <2>4 DEF Persist, IInv, TypeOK
      <3>2. ~Stored(srv[o]) /\ wallet' = wallet /\ op' = op /\ eng' = eng
            /\ store'[k] = Refresh(srv[o].base, srv[o].shift)
        BY <1>10, <1>11, <2>4 DEF Stored
      <3> QED
        BY <1>2, <1>3, <1>5, <1>8, <2>4, <3>1, <3>2, RotateKeeps
    <2> QED
      BY <1>2, <2>2, <2>3, <2>4
  <1> QED
    BY <1>9, <1>13 DEF Rotations

LEMMA ContinuesKeeps ==
    ASSUME IInv, Rotations, NEW o \in Ops, ServerContinues(o)
    PROVE  Rotations'
  <1>1. /\ Asked(o) /\ srv[o] # None /\ UNCHANGED <<op, eng, wallet>>
        /\ op[o].round = 2 \/ (op[o].round = 3 /\ op[o].kind = "sign")
    BY DEF ServerContinues
  <1>2. PICK w : w = Payload([curve |-> None, from |-> 1])
    OBVIOUS
  <1>3. w.state # "request" /\ Answer(o, w)
    BY <1>2 DEF Payload, NoWire, ServerContinues
  <1>4. CASE op[o].kind # "sign" /\ srv[o].curve = Secp
    <2>1. Persist(o) /\ op[o].round = 2
      BY <1>1, <1>4 DEF ServerContinues
    <2>2. ~srv[o].persisted
      BY <1>1, <2>1 DEF Asked, Rotations, StagesOK, StageOK, Stored
    <2> QED
      BY <1>1, <1>3, <1>4, <2>1, <2>2, PersistKeeps
  <1>5. CASE ~(op[o].kind # "sign" /\ srv[o].curve = Secp)
    <2>1. UNCHANGED <<store, srv, torn, refreshes>>
      BY <1>5 DEF ServerContinues
    <2>2. srv' = [srv EXCEPT ![o] = srv[o]]
      BY <2>1, SameFun DEF IInv, TypeOK
    <2> QED
      BY <1>1, <1>3, <2>1, <2>2, AnswerKeeps
  <1> QED
    BY <1>4, <1>5

LEMMA FinishesKeeps ==
    ASSUME IInv, Rotations, NEW o \in Ops, ServerFinishes(o)
    PROVE  Rotations'
  <1>1. Asked(o) /\ srv[o] # None /\ op[o].round = 3 /\ UNCHANGED <<op, eng, wallet>>
    BY DEF ServerFinishes
  <1>2. PICK w : w = [Payload(None) EXCEPT !.signed = (op[o].kind = "sign")]
    OBVIOUS
  <1>3. w.state # "request" /\ Answer(o, w)
    BY <1>2 DEF Payload, NoWire, ServerFinishes
  <1>4. CASE op[o].kind # "sign" /\ ~srv[o].persisted
    <2>1. Persist(o)
      BY <1>4 DEF ServerFinishes
    <2> QED
      BY <1>1, <1>3, <1>4, <2>1, PersistKeeps
  <1>5. CASE ~(op[o].kind # "sign" /\ ~srv[o].persisted)
    <2>1. UNCHANGED <<store, srv, torn, refreshes>>
      BY <1>5 DEF ServerFinishes
    <2>2. srv' = [srv EXCEPT ![o] = srv[o]]
      BY <2>1, SameFun DEF IInv, TypeOK
    <2> QED
      BY <1>1, <1>3, <2>1, <2>2, AnswerKeeps
  <1> QED
    BY <1>4, <1>5

-----------------------------------------------------------------------------
(* The end of a rotation.                                                  *)

\* The share of a new key fits the one that was dealt to the server.
LEMMA NewKeyFits ==
    ASSUME NEW c \in Curves, NEW k \in Keys, NEW d \in Shifts \cup {1}
    PROVE  InStep(Point(c, 1, k, d), Point(c, 2, k, d))
  <1>1. PICK m \in Material, n \in Material : m = Point(c, 1, k, d) /\ n = Point(c, 2, k, d)
    BY PointType
  <1>2. /\ m.curve = c /\ n.curve = c /\ m.vk = SecretOf(k) /\ n.vk = SecretOf(k)
        /\ m.x = 1 /\ n.x = 2 /\ m.s = ((SecretOf(k) + d * 1) % P)
        /\ n.s = ((SecretOf(k) + d * 2) % P)
    BY <1>1 DEF Point
  <1>3. d \in Int
    BY WalletAssumption
  <1>4. Slid(m.s, m.vk, d, 1) /\ Slid(n.s, m.vk, d, 2)
    BY <1>2 DEF Slid
  <1> QED
    BY <1>1, <1>2, <1>3, <1>4, LineFits

\* What a completed operation hands out fits the server's share, and counts.
LEMMA NewShareFits ==
    ASSUME IInv, Rotations, NEW o \in Ops, NEW k \in Keys, EngineCompletes(o), op[o].key = k,
           k \notin torn
    PROVE  /\ InStep(NewShare(o), store[k])
           /\ NewVersion(o) = 1 + refreshes[k]
  <1>1. /\ op[o].at = "await" /\ op[o].kind \in {"keygen", "recover"} /\ eng[o] # None
    BY DEF EngineCompletes, Got
  <1>2. /\ store[k] # None /\ srv[o] \in ServerSession /\ srv[o].persisted
        /\ eng[o].curve = srv[o].curve
    BY ResultOfKey
  <1>3. srv[o].shift \in Shifts \cup {1} /\ srv[o].curve \in Curves /\ Stored(srv[o])
    BY <1>2, RecordAssumption DEF ServerSession, Stored
  <1>4. KeyOK(k)
    BY DEF Rotations
  <1>5. CASE op[o].kind = "keygen"
    <2>1. k = o
      BY <1>5, ThisOp DEF OpOK, ArgsOK
    <2>2. wallet[k] = None
      BY <1>1, <1>4, <2>1 DEF KeyOK, DealtOK
    <2>3. refreshes[k] = 0 /\ store[k] = Point(srv[o].curve, 2, k, srv[o].shift)
      BY <1>2, <1>4, <2>1, <2>2 DEF KeyOK, DealtOK
    <2>4. NewShare(o) = Point(srv[o].curve, 1, k, srv[o].shift) /\ NewVersion(o) = 1
      BY <1>2, <1>5, <2>1 DEF NewShare, KeygenShare, NewVersion
    <2>5. InStep(Point(srv[o].curve, 1, k, srv[o].shift), Point(srv[o].curve, 2, k, srv[o].shift))
      BY <1>3, NewKeyFits
    <2> QED
      BY <2>3, <2>4, <2>5
  <1>6. CASE op[o].kind = "recover"
    <2>1. Halfway(o, k) /\ HalfwayOK(o, k)
      BY <1>1, <1>3, <1>4, <1>6 DEF Halfway, Half, KeyOK, RecoverOK
    <2>2. /\ op[o].ver = refreshes[k] /\ store[k] = Refresh(srv[o].base, srv[o].shift)
          /\ InStep(eng[o].base, srv[o].base)
      BY <2>1 DEF HalfwayOK
    <2>3. eng[o].base \in Material /\ srv[o].base \in Material
      BY <1>1, <1>2, <1>3, <1>6, ThisOp DEF OpOK, EngineOK, ServerOK, Holds, Stored
    <2>4. PICK m \in Material, n \in Material, d \in Shifts \cup {1} :
             m = eng[o].base /\ n = srv[o].base /\ d = srv[o].shift
      BY <1>3, <2>3
    <2>5. InStep(m, n)
      BY <2>2, <2>4
    <2>6. d \in Int
      BY WalletAssumption
    <2>7. Refresh(m, d) \in Material /\ Refresh(n, d) \in Material
      BY RefreshType
    <2>8. InStep(Refresh(m, d), Refresh(n, d))
      BY <2>5, <2>6, <2>7, RefreshFits
    <2>9. NewShare(o) = Refresh(m, d) /\ NewVersion(o) = refreshes[k] + 1
      BY <1>6, <2>2, <2>4 DEF NewShare, RefreshedShare, NewVersion
    <2>10. refreshes[k] \in Nat
      BY DEF IInv, TypeOK
    <2> QED
      BY <2>2, <2>4, <2>8, <2>9, <2>10
  <1> QED
    BY <1>1, <1>5, <1>6

LEMMA CompletesKeeps ==
    ASSUME IInv, Rotations, NEW o \in Ops, EngineCompletes(o)
    PROVE  Rotations'
  <1>1. PICK r, k : r = Completed(o) /\ k = op[o].key
    OBVIOUS
  <1>2. /\ r \in Result /\ r.id = k /\ k \in Keys /\ store[k] # None
        /\ srv[o] \in ServerSession /\ srv[o].persisted
        /\ r.backup # None => r.backup.share = r.share
    BY <1>1, ResultOfKey
  <1>3. /\ op[o].at = "await" /\ op[o].kind \in {"keygen", "recover"} /\ op[o].round > 1
        /\ Return(o, r) /\ Keep(o, r) /\ eng' = [eng EXCEPT ![o] = None]
        /\ UNCHANGED <<srv, store, exported, torn, refreshes>>
    BY <1>1 DEF EngineCompletes, Got
  <1>4. Stored(srv[o]) /\ (op[o].kind = "keygen" => k = o)
    BY <1>1, <1>2, <1>3, RecordAssumption, ThisOp DEF Stored, OpOK, ArgsOK
  <1>5. PICK p, w, e, s : p = Returned(op[o], r) /\ w = NoWire /\ e = None /\ s = srv[o]
    OBVIOUS
  <1>6. /\ p.at = "returned" /\ p.kind = op[o].kind /\ p.key = k
        /\ p.round = op[o].round /\ p.ver = op[o].ver /\ p.seen = op[o].seen
    BY <1>1, <1>2, <1>5, SetReturned, ThisOp
  <1>7. Moves(o, p, w, e, s)
    <2>1. op' = [op EXCEPT ![o] = p]
      BY <1>3, <1>5 DEF Return, Returned, IInv, TypeOK
    <2> QED
      BY <1>3, <1>5, <2>1, SameFun DEF Return, Moves, IInv, TypeOK
  <1>8. op'[o] = p /\ srv'[o] = srv[o] /\ Only(o)
    BY <1>5, <1>7, MovesTo DEF IInv, Only
  <1>9. StagesOK'
    <2>1. StageOK(p, w, s)
      BY <1>3, <1>5, <1>6, NoWireIs DEF StageOK
    <2> QED
      BY <1>7, <2>1, StagesOn DEF IInv, Rotations
  <1>10. PICK m : m = NewShare(o)
    OBVIOUS
  <1>11. /\ r.share = Emit(m) /\ r.ver = NewVersion(o) /\ r.share.bytes = m
    <2>1. r.share = Emit(m) /\ r.ver = NewVersion(o)
      BY <1>1, <1>10 DEF Completed
    <2>2. Emit(m).bytes = m
      BY DEF Emit, V2, Raw
    <2> QED
      BY <2>1, <2>2
  <1>12. PICK v : v = [share |-> r.share, ver |-> r.ver, stale |-> r.backup = None,
                       backup |-> IF r.backup = None /\ wallet[k] # None
                                  THEN wallet[k].backup ELSE r.backup]
    OBVIOUS
  <1>13. /\ wallet'[k] = v
         /\ \A j \in Keys : j # k => wallet'[j] = wallet[j]
    BY <1>2, <1>3, <1>12 DEF Keep, IInv, TypeOK
  <1>14. /\ v \in Wallet /\ v # None /\ v.share = r.share /\ v.ver = r.ver
         /\ ~v.stale => v.backup.share = v.share
    <2>1. wallet[k] # None => wallet[k] \in Wallet
      BY <1>2 DEF IInv, TypeOK
    <2>2. v \in Wallet /\ v.share = r.share /\ v.ver = r.ver /\ (v.stale <=> r.backup = None)
      BY <1>2, <1>12, <2>1 DEF Wallet, Result
    <2>3. r.backup # None => v.backup = r.backup
      BY <1>12
    <2> QED
      BY <1>2, <2>2, <2>3, RecordAssumption
  <1>15. KeyOK(k)'
    <2>1. KeyOK(k)
      BY <1>2 DEF Rotations
    <2>2. ~Half(p, srv[o])
      BY <1>6 DEF Half
    <2>3. \A q \in Ops : Halfway(q, k)' <=> q # o /\ Halfway(q, k)
      BY <1>8, <2>2 DEF Only, Halfway
    <2>4. ASSUME NEW q \in Ops
          PROVE  RecoverOK(q, k)'
      <3> SUFFICES ASSUME op'[q].kind = "recover", op'[q].key = k
                   PROVE  /\ op'[q].seen # None => op'[q].seen <= refreshes[k]
                          /\ FreshOK(q, k)' /\ HalfwayOK(q, k)'
        BY <1>3, <1>13, <1>14 DEF RecoverOK
      <3>1. RecoverOK(q, k) /\ op[q].kind = "recover" /\ op[q].key = k
            /\ op'[q].seen = op[q].seen /\ op'[q].ver = op[q].ver /\ srv'[q] = srv[q]
            /\ (q # o => eng'[q] = eng[q])
        BY <1>1, <1>6, <1>8, <2>1 DEF Only, KeyOK
      <3>2. FreshOK(q, k)'
        BY <1>3, <2>3, <3>1 DEF RecoverOK, FreshOK
      <3>3. HalfwayOK(q, k)'
        <4> SUFFICES ASSUME k \notin torn, q # o, Halfway(q, k)
                     PROVE  /\ op[q].ver = refreshes[k]
                            /\ store[k] = Refresh(srv[q].base, srv[q].shift)
                            /\ InStep(eng[q].base, srv[q].base)
                            /\ \A z \in Ops : Halfway(z, k)' => z = q
          BY <1>3, <2>3, <3>1 DEF HalfwayOK
        <4> QED
          BY <2>3, <3>1 DEF RecoverOK, HalfwayOK
      <3> QED
        BY <3>1, <3>2, <3>3 DEF RecoverOK
    <2>5. DealtOK(k)'
      <3>1. CASE op[o].kind = "keygen"
        BY <1>4, <1>6, <1>8, <1>13, <1>14, <3>1 DEF DealtOK
      <3>2. CASE op[o].kind = "recover"
        <4>1. wallet[k] # None
          BY <1>1, <2>1, <3>2 DEF KeyOK, RecoverOK
        <4>2. k \in Ops => /\ k # o /\ op'[k] = op[k] /\ srv'[k] = srv[k]
          BY <1>8, <2>1, <3>2, <4>1 DEF KeyOK, DealtOK, Only
        <4> QED
          BY <1>3, <1>13, <1>14, <2>1, <4>1, <4>2 DEF KeyOK, DealtOK
      <3> QED
        BY <1>3, <3>1, <3>2
    <2>6. KeptOK(k)'
      BY <1>11, <1>13, <1>14 DEF KeptOK
    <2>7. SettledOK(k)'
      <3> SUFFICES ASSUME k \notin torn
                   PROVE  InStep(v.share.bytes, store[k]) /\ v.ver = 1 + refreshes[k]
        BY <1>3, <1>13 DEF SettledOK, Settled
      <3> QED
        BY <1>1, <1>2, <1>10, <1>11, <1>14, NewShareFits
    <2> QED
      BY <2>4, <2>5, <2>6, <2>7 DEF KeyOK
  <1>16. ASSUME NEW j \in Keys, j # k
         PROVE  KeyOK(j)'
    <2>1. Same(j) /\ KeyOK(j)
      BY <1>3, <1>13, <1>16 DEF Same, Rotations
    <2> QED
      BY <1>1, <1>3, <1>6, <1>8, <1>16, <2>1, OtherKey
  <1> QED
    BY <1>9, <1>15, <1>16 DEF Rotations

-----------------------------------------------------------------------------
(* The theorems.                                                           *)

LEMMA StartRotations == Init => Rotations
  <1> SUFFICES ASSUME NEW c \in Curves,
          op = [o \in Ops |-> NewOp], srv = [o \in Ops |-> None],
          store = [k \in Keys |-> IF k = Old THEN Point(c, 2, Old, 1) ELSE None],
          wallet = [k \in Keys |-> IF k = Old
             THEN [share |-> Emit(Point(c, 1, Old, 1)), ver |-> 1, stale |-> FALSE,
                   backup |-> DeriveBackupEnvelope(Emit(Point(c, 1, Old, 1)),
                                 CHOOSE pin \in Secrets : TRUE)]
             ELSE None],
          refreshes = [k \in Keys |-> 0]
        PROVE Rotations
    BY DEF Init
  <1>1. Old \in Keys /\ Old \notin Ops /\ \A k \in Keys : k \in Ops <=> k # Old
    BY WalletAssumption DEF Keys, Old
  <1>2. PICK m \in Material : m = Point(c, 1, Old, 1)
    BY <1>1, PointType
  <1>3. Emit(m) \in ShareString /\ Emit(m).bytes = m
    BY EmitType
  <1>4. DeriveBackupEnvelope(Emit(m), CHOOSE pin \in Secrets : TRUE).share = Emit(m)
    BY DEF DeriveBackupEnvelope, EncryptShare
  <1>5. InStep(m, Point(c, 2, Old, 1))
    BY <1>1, <1>2, NewKeyFits
  <1>6. \A o \in Ops : op[o].kind = "none" /\ ~Stored(srv[o])
    BY DEF NewOp, Stored
  <1>7. ASSUME NEW k \in Keys
        PROVE  KeyOK(k)
    <2>1. \A o \in Ops : RecoverOK(o, k)
      BY <1>6 DEF RecoverOK
    <2>2. DealtOK(k)
      BY <1>1 DEF DealtOK
    <2>3. KeptOK(k)
      BY <1>2, <1>3, <1>4 DEF KeptOK
    <2>4. SettledOK(k)
      BY <1>2, <1>3, <1>5 DEF SettledOK, Settled
    <2> QED
      BY <2>1, <2>2, <2>3, <2>4 DEF KeyOK
  <1> QED
    BY <1>6, <1>7 DEF Rotations, StagesOK, StageOK

LEMMA StepRotations == IInv /\ Rotations /\ [Next]_vars => Rotations'
  <1> SUFFICES ASSUME IInv, Rotations, [Next]_vars
               PROVE  Rotations'
    OBVIOUS
  <1>1. ASSUME NEW o \in Ops, Client(o)
        PROVE  Rotations'
    BY <1>1, SendKeeps, TransportFailsKeeps, RpcErrorKeeps, Round1Keeps, EngineFailsKeeps,
       EngineContinuesKeeps, SignedKeeps, CompletesKeeps, ExportsKeeps DEF Client, Engine
  <1>2. ASSUME NEW o \in Ops, Server(o)
        PROVE  Rotations'
    BY <1>2, RefusesKeeps, BeginsKeeps, ContinuesKeeps, FinishesKeeps, ServerExportsKeeps
       DEF Server
  <1>3. CASE UNCHANGED vars
    BY <1>3 DEF vars, Rotations, StagesOK, KeyOK, RecoverOK, FreshOK, HalfwayOK, Halfway,
                DealtOK, KeptOK, SettledOK, Settled, Refreshing
  <1> QED
    BY <1>1, <1>2, <1>3, HostKeeps, BackUpKeeps DEF Next

THEOREM RotationsHold == Spec => []Rotations
  <1> QED
    BY Start, Step, StartRotations, StepRotations, PTL DEF Spec

\* Whatever operations on a key failed, were late or overlapped, the share the
\* host keeps (Keep) and the one the server has stored (Persist) combine to the
\* key, unless a refresh was torn.
THEOREM StaysUsable == Spec => []WalletStaysUsable
  <1>1. Rotations => WalletStaysUsable
    BY DEF Rotations, KeyOK, SettledOK, WalletStaysUsable
  <1> QED
    BY <1>1, RotationsHold, PTL

\* The version of recover's result (NewVersion) counts the refreshes that the
\* server has stored.
THEOREM VersionsCount == Spec => []VersionCountsRefreshes
  <1>1. Rotations => VersionCountsRefreshes
    BY DEF Rotations, KeyOK, SettledOK, VersionCountsRefreshes
  <1> QED
    BY <1>1, RotationsHold, PTL

\* What an engine hands out its recovery reads.
LEMMA EmitReads ==
    ASSUME NEW m \in Material
    PROVE  ShareToRefresh(Emit(m)) = m
  <1>1. m.curve \in {Secp, Ed} /\ m # None /\ Secp # Ed /\ None \notin {Secp, Ed}
    BY NoneAssumption DEF Material, Curves, Secp, Ed
  <1>2. CASE m.curve = Ed
    <2>1. Emit(m) = V2(Ed, m) /\ ParseCurve(Ed) = Ed
      BY <1>2 DEF Emit, ParseCurve, Secp, Ed
    <2>2. PICK d : d = [curve |-> Ed, bytes |-> m]
      OBVIOUS
    <2>3. Decode(V2(Ed, m)) = d
      BY <1>1, <2>1, <2>2 DEF Decode, V2
    <2>4. d # None
      BY <1>1, <2>2, NoneAssumption DEF Curves
    <2>5. IsEd(V2(Ed, m))
      BY <2>2, <2>3, <2>4 DEF IsEd
    <2> QED
      BY <1>1, <1>2, <2>1, <2>2, <2>3, <2>5 DEF ShareToRefresh, ExtractShareMaterial, FromBytes
  <1>3. CASE m.curve = Secp
    <2>1. Emit(m) = Raw(m) /\ Decode(Raw(m)).curve = Secp
      BY <1>1, <1>3 DEF Emit, Raw, Decode
    <2> QED
      BY <1>1, <1>3, <2>1 DEF ShareToRefresh, IsEd, RawShare, FromBytes, Raw
  <1> QED
    BY <1>1, <1>2, <1>3

\* A backup that was made of the newest share (NewBackup, BackUp) opens to one
\* the engine reads and that fits the server's share.
THEOREM FreshBackupsRecover == Spec => []FreshBackupRecovers
  <1>1. IInv /\ Rotations => FreshBackupRecovers
    <2> SUFFICES ASSUME IInv, Rotations, NEW k \in Keys, Settled(k), ~wallet[k].stale
                 PROVE  /\ ShareToRefresh(wallet[k].backup.share) # None
                        /\ InStep(ShareToRefresh(wallet[k].backup.share), store[k])
      BY DEF FreshBackupRecovers
    <2>1. KeyOK(k) /\ wallet[k] # None
      BY DEF Rotations, Settled
    <2>2. PICK m \in Material : m = wallet[k].share.bytes
      BY <2>1 DEF IInv, WalletOK, Holds
    <2>3. wallet[k].backup.share = Emit(m)
      BY <2>1, <2>2 DEF KeyOK, KeptOK
    <2>4. ShareToRefresh(wallet[k].backup.share) = m
      BY <2>3, EmitReads
    <2> QED
      BY <2>1, <2>2, <2>4, NoneAssumption DEF KeyOK, SettledOK
  <1> QED
    BY <1>1, Invariance, RotationsHold, PTL
=============================================================================
