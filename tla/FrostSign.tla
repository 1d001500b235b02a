------------------------------ MODULE FrostSign ------------------------------
(***************************************************************************)
(* FROST (ed25519) signing and private-key export in the Rust engine, with *)
(* FFI calls on several threads at once: sign, sign_round1, sign_round2    *)
(* and export_private_key of src/rust/src/api/engine_ed25519.rs, the       *)
(* routing of sign in mpc_engine.rs, and the maps FROST_SIGN_SESSIONS and  *)
(* EXPORTED_KEYS of session.rs.                                            *)
(*                                                                         *)
(* A call is split where it takes a lock, so that other calls interleave   *)
(* there.  Every round-1 call is numbered; the number stands for the       *)
(* signing nonces that call commits to.                                    *)
(***************************************************************************)
EXTENDS Naturals

CONSTANTS
    Threads,    \* worker threads running FFI calls
    Ids,        \* session ids
    Keys,       \* verifying keys of the shares on this device
    Msgs,       \* messages to sign
    MaxOpen,    \* bound: round-1 calls made in a behaviour
    None        \* an empty map entry, an Option that is None

VARIABLES
    sessions,   \* FROST_SIGN_SESSIONS
    exported,   \* EXPORTED_KEYS
    pc, arg,    \* per thread: next statement and arguments of its call
    held,       \* per thread: the session it removed from the map
    opened,     \* history: number of round-1 calls made so far
    asked,      \* history: id, key and message of each round-1 call
    late,       \* history: round-1 calls made with their key in exported
    overdue,    \* history: round-1 calls made after an export of their key,
                \* also one before a restart of the process
    leaked,     \* history: keys ever exported
    spent,      \* history: how often each call's nonces made a share
    signatures  \* history: the signatures handed to the host

openVars == <<opened, asked, late, overdue>>
signVars == <<spent, signatures>>
histVars == <<openVars, signVars, leaked>>
vars == <<sessions, exported, pc, arg, held, histVars>>

Insts == 1..MaxOpen
Session == [inst : Insts, key : Keys, msg : Msgs, consumed : BOOLEAN]
Ask == [id : Ids, key : Keys, msg : Msgs]
Arg == [id : Ids \cup {None}, key : Keys \cup {None}, msg : Msgs \cup {None},
        inst : Insts \cup {None},
        known : SUBSET Keys]    \* history: exported when the call was made

ASSUME FrostSignAssumption ==
    /\ MaxOpen \in Nat
    /\ None \notin Ids \cup Keys \cup Msgs \cup Insts \cup Session \cup Ask

NoArg == [id |-> None, key |-> None, msg |-> None, inst |-> None, known |-> {}]

TypeOK ==
    /\ sessions \in [Ids -> Session \cup {None}]
    /\ exported \subseteq Keys /\ leaked \subseteq Keys
    /\ pc \in [Threads -> {"idle", "check", "commit", "dispatch", "take",
                           "finish", "export"}]
    /\ arg \in [Threads -> Arg]
    /\ held \in [Threads -> Session \cup {None}]
    /\ \A t \in Threads : pc[t] = "finish" <=> held[t] # None
    /\ opened \in 0..MaxOpen
    /\ asked \in [Insts -> Ask \cup {None}]
    /\ late \subseteq Insts /\ overdue \subseteq Insts
    /\ spent \in [Insts -> Nat]
    /\ signatures \subseteq [inst : Insts, key : Keys, msg : Msgs]

Init ==
    /\ sessions = [s \in Ids |-> None]
    /\ exported = {} /\ leaked = {}
    /\ pc = [t \in Threads |-> "idle"]
    /\ arg = [t \in Threads |-> NoArg]
    /\ held = [t \in Threads |-> None]
    /\ opened = 0
    /\ asked = [i \in Insts |-> None]
    /\ late = {} /\ overdue = {}
    /\ spent = [i \in Insts |-> 0]
    /\ signatures = {}

Goto(t, label) == pc' = [pc EXCEPT ![t] = label]

\* The call returns to the host, with a result or an error.
Return(t) ==
    /\ Goto(t, "idle")
    /\ arg' = [arg EXCEPT ![t] = NoArg]

\* An FFI call arrives on an idle thread.
Enter(t, label, s, k, m, i) ==
    /\ pc[t] = "idle"
    /\ Goto(t, label)
    /\ arg' = [arg EXCEPT ![t] = [id |-> s, key |-> k, msg |-> m, inst |-> i,
                                 known |-> exported]]
    /\ UNCHANGED <<sessions, exported, held, signVars, leaked>>

-----------------------------------------------------------------------------
(* sign, round 1.                                                          *)

CallRound1(t, s, k, m) ==
    /\ opened < MaxOpen
    /\ opened' = opened + 1
    /\ asked' = [asked EXCEPT ![opened'] = [id |-> s, key |-> k, msg |-> m]]
    /\ late' = IF k \in exported THEN late \cup {opened'} ELSE late
    /\ overdue' = IF k \in leaked THEN overdue \cup {opened'} ELSE overdue
    /\ Enter(t, "check", s, k, m, opened')

\* Fault: no guard.
CheckExported_Skipped(t) ==
    /\ pc[t] = "check"
    /\ Goto(t, "commit")
    /\ UNCHANGED <<sessions, exported, arg, held, histVars>>

\* The EXPORTED_KEYS guard.
CheckExported(t) ==
    /\ pc[t] = "check"
    /\ IF arg[t].key \in exported THEN Return(t)
       ELSE Goto(t, "commit") /\ UNCHANGED arg
    /\ UNCHANGED <<sessions, exported, held, histVars>>

\* Nonces are drawn and the session inserted, over one of the same id if any.
Commit(t) ==
    /\ pc[t] = "commit"
    /\ sessions' = [sessions EXCEPT ![arg[t].id] =
          [inst |-> arg[t].inst, key |-> arg[t].key, msg |-> arg[t].msg,
           consumed |-> FALSE]]
    /\ Return(t)
    /\ UNCHANGED <<exported, held, histVars>>

-----------------------------------------------------------------------------
(* sign, round 2: the message is the server's, from its signing package.   *)

CallRound2(t, s, m) ==
    /\ Enter(t, "dispatch", s, None, m, None)
    /\ UNCHANGED openVars

\* mpc_engine::sign routes by membership; without a FROST session the call
\* ends in the secp256k1 path with "sign session not found".
Dispatch(t) ==
    /\ pc[t] = "dispatch"
    /\ IF sessions[arg[t].id] = None THEN Return(t)
       ELSE Goto(t, "take") /\ UNCHANGED arg
    /\ UNCHANGED <<sessions, exported, held, histVars>>

\* A payload that does not parse is refused before any session is touched.
BadPayload(t) ==
    /\ pc[t] \in {"check", "take"}
    /\ Return(t)
    /\ UNCHANGED <<sessions, exported, held, histVars>>

\* Fault: the session is copied and stays in the map.
Take_Copies(t) ==
    /\ pc[t] = "take"
    /\ IF sessions[arg[t].id] = None
       THEN Return(t) /\ UNCHANGED held
       ELSE /\ held' = [held EXCEPT ![t] = sessions[arg[t].id]]
            /\ Goto(t, "finish")
            /\ UNCHANGED arg
    /\ UNCHANGED <<sessions, exported, histVars>>

\* The session is removed from the map under its lock.
Take(t) ==
    /\ pc[t] = "take"
    /\ IF sessions[arg[t].id] = None
       THEN Return(t) /\ UNCHANGED <<sessions, held>>
       ELSE /\ held' = [held EXCEPT ![t] = sessions[arg[t].id]]
            /\ sessions' = [sessions EXCEPT ![arg[t].id] = None]
            /\ Goto(t, "finish")
            /\ UNCHANGED arg
    /\ UNCHANGED <<exported, histVars>>

\* Fault: the session outlives the call.
Drop_Keeps(t) ==
    /\ Return(t)
    /\ UNCHANGED <<held, sessions, exported, openVars, leaked>>

\* The call ends and drops the session it holds.
Drop(t) ==
    /\ Return(t)
    /\ held' = [held EXCEPT ![t] = None]
    /\ UNCHANGED <<sessions, exported, openVars, leaked>>

\* consumed is set, the signing package is over another message, or
\* round2::sign refuses it because our commitments are not in it.
Refuse(t) ==
    /\ pc[t] = "finish"
    /\ Drop(t)
    /\ UNCHANGED signVars

\* Fault: the message is the server's, not compared with the session's.
Sign_AnyMessage(t) ==
    /\ pc[t] = "finish"
    /\ ~held[t].consumed
    /\ spent' = [spent EXCEPT ![held[t].inst] = @ + 1]
    /\ \/ signatures' = signatures \cup
             {[inst |-> held[t].inst, key |-> held[t].key, msg |-> arg[t].msg]}
       \/ UNCHANGED signatures
    /\ Drop(t)

\* The nonces make our signature share over the package; aggregation gives
\* the signature, or fails for the server's share.
Sign(t) ==
    /\ pc[t] = "finish"
    /\ ~held[t].consumed /\ arg[t].msg = held[t].msg
    /\ spent' = [spent EXCEPT ![held[t].inst] = @ + 1]
    /\ \/ signatures' = signatures \cup
             {[inst |-> held[t].inst, key |-> held[t].key, msg |-> arg[t].msg]}
       \/ UNCHANGED signatures
    /\ Drop(t)

-----------------------------------------------------------------------------
(* export_private_key, and the process.                                    *)

CallExport(t, k) ==
    /\ Enter(t, "export", None, k, None, None)
    /\ UNCHANGED openVars

\* The shares agree and combine to the key: it is marked, then returned.
Export(t) ==
    /\ pc[t] = "export"
    /\ exported' = exported \cup {arg[t].key}
    /\ leaked' = leaked \cup {arg[t].key}
    /\ Return(t)
    /\ UNCHANGED <<sessions, held, openVars, signVars>>

ExportFails(t) ==
    /\ pc[t] = "export"
    /\ Return(t)
    /\ UNCHANGED <<sessions, exported, held, histVars>>

\* The host process dies and starts again: the static maps are empty.
Restart ==
    /\ sessions' = [s \in Ids |-> None]
    /\ exported' = {}
    /\ pc' = [t \in Threads |-> "idle"]
    /\ arg' = [t \in Threads |-> NoArg]
    /\ held' = [t \in Threads |-> None]
    /\ UNCHANGED histVars

Call(t) ==
    \/ \E s \in Ids, k \in Keys, m \in Msgs : CallRound1(t, s, k, m)
    \/ \E s \in Ids, m \in Msgs : CallRound2(t, s, m)
    \/ \E k \in Keys : CallExport(t, k)

Step(t) ==
    \/ CheckExported(t) \/ Commit(t)
    \/ Dispatch(t) \/ BadPayload(t) \/ Take(t) \/ Refuse(t) \/ Sign(t)
    \/ Export(t) \/ ExportFails(t)

Next == (\E t \in Threads : Call(t) \/ Step(t)) \/ Restart

Spec == Init /\ [][Next]_vars

-----------------------------------------------------------------------------
(* Safety.                                                                 *)

\* The nonces of round 1 are in one place only: in the map under one id, with
\* the one thread that removed them, or gone; and once they made a share they
\* are gone (SEC-01, FrostSignSession.nonces).
NoncesHaveOneOwner ==
    \A i \in Insts :
        /\ \A s1, s2 \in {s \in Ids : sessions[s] # None} :
              sessions[s1].inst = i /\ sessions[s2].inst = i => s1 = s2
        /\ \A t1, t2 \in {t \in Threads : held[t] # None} :
              held[t1].inst = i /\ held[t2].inst = i => t1 = t2
        /\ \A s \in Ids, t \in Threads :
              sessions[s] # None /\ held[t] # None
                => ~(sessions[s].inst = i /\ held[t].inst = i)
        /\ spent[i] <= 1
        /\ spent[i] = 1 =>
              /\ \A s \in Ids : sessions[s] # None => sessions[s].inst # i
              /\ \A t \in Threads : held[t] # None => held[t].inst # i

\* A signature is over the key and the message of the round-1 call that drew
\* its nonces, whatever the server's signing package says, and whatever other
\* calls did to the map in between.
SignsWhatWasAsked ==
    \A g \in signatures :
        asked[g.inst] # None
        /\ asked[g.inst].key = g.key /\ asked[g.inst].msg = g.msg

\* Sessions opened: those in the map, removed from it, or that made a share.
Open(i) ==
    \/ \E s \in Ids : sessions[s] # None /\ sessions[s].inst = i
    \/ \E t \in Threads : held[t] # None /\ held[t].inst = i
    \/ spent[i] > 0

\* A round-1 call made while its key is marked exported opens no session.
ExportedKeyOpensNoSession == \A i \in late : ~Open(i)

\* README.md:155: after export, sign calls on the same share are rejected.
AfterExportSignIsRejected == \A i \in overdue : ~Open(i)

\* session.rs:42 and :110: a session keeps its key for the EXPORTED_KEYS
\* guard.  A sign call made after the export of a key signs nothing with it.
NoSignatureAfterExport ==
    [][\A t \in Threads :
          pc[t] = "finish" /\ signatures' # signatures /\ held'[t] = None
            => held[t].key \notin arg[t].known]_vars
=============================================================================
