------------------------------- MODULE FrostDkg -------------------------------
(***************************************************************************)
(* FROST (ed25519) key generation and share refresh in the Rust engine,    *)
(* with FFI calls on several threads at once: keygen and recover of        *)
(* src/rust/src/api/engine_ed25519.rs, their routing in mpc_engine.rs, and *)
(* the maps FROST_KEYGEN_SESSIONS and FROST_RECOVERY_SESSIONS.             *)
(*                                                                         *)
(* Both protocols have the same three calls: round 1 inserts a session,    *)
(* round 2 removes it, runs part 2 on it and puts it back, round 0 removes *)
(* it and runs part 3.  A call is split where it takes a lock.  A run is   *)
(* numbered when its session is inserted, so that numbers are in the order *)
(* of created_at; the number stands for the secrets of that run.           *)
(***************************************************************************)
EXTENDS Integers

CONSTANTS
    Threads,            \* worker threads running FFI calls
    Ids,                \* session ids
    MinVer, MaxVer,     \* the range of a rotation version (an i32)
    MaxRuns,            \* bound: sessions inserted in a behaviour
    None

VARIABLES
    sessions,   \* per protocol and id: the map entry
    pc, arg,    \* per thread: next statement and arguments of its call
    held,       \* per thread: the session it removed
    runs,       \* number of sessions inserted so far
    aged,       \* sessions 1..aged are older than SESSION_TTL
    asked,      \* history: protocol, id and version each run was started with
    completed,  \* history: how often each run handed a share to the host
    results,    \* history: the results handed to the host
    overdue,    \* history: runs completed by a call made after they expired
    overlapped  \* history: two calls of one protocol and id have overlapped

histVars == <<asked, completed, results, overdue, overlapped>>
vars == <<sessions, pc, arg, held, runs, aged, histVars>>

Kinds == {"keygen", "recover"}
Runs == 1..MaxRuns
Versions == MinVer..MaxVer

\* lib_state holds r1_secret at stage 1, r2_secret at stage 2.  pending is the
\* run whose server made pending_server_inner.
Session == [run : Runs, stage : {1, 2}, ver : Versions, pending : Runs]
Ask == [kind : Kinds, id : Ids, ver : Versions]
Done == [run : Runs, kind : Kinds, id : Ids, ver : Versions]

ASSUME FrostDkgAssumption ==
    /\ MaxRuns \in Nat
    /\ MinVer \in Int /\ MaxVer \in Int /\ MinVer <= 1 /\ 1 <= MaxVer
    /\ None \notin Session \cup Ask \cup Ids \cup Kinds \cup Versions \cup Runs

Arg == [kind : Kinds \cup {None}, id : Ids \cup {None},
        round : {0, 1, 2, 3, None}, ver : Versions \cup {None},
        from : Runs \cup {None},    \* the run the server's payload belongs to
        aged : 0..MaxRuns]          \* history: aged when the call began

NoArg == [kind |-> None, id |-> None, round |-> None, ver |-> None,
          from |-> None, aged |-> 0]

TypeOK ==
    /\ sessions \in [Kinds -> [Ids -> Session \cup {None}]]
    /\ pc \in [Threads -> {"idle", "insert", "dispatch", "ttl", "take", "work"}]
    /\ arg \in [Threads -> Arg]
    /\ held \in [Threads -> Session \cup {None}]
    /\ \A t \in Threads : pc[t] = "work" <=> held[t] # None
    /\ runs \in 0..MaxRuns /\ aged \in 0..runs
    /\ asked \in [Runs -> Ask \cup {None}]
    /\ completed \in [Runs -> Nat]
    /\ results \subseteq Done /\ overdue \subseteq Runs
    /\ overlapped \in BOOLEAN

Init ==
    /\ sessions = [k \in Kinds |-> [s \in Ids |-> None]]
    /\ pc = [t \in Threads |-> "idle"]
    /\ arg = [t \in Threads |-> NoArg]
    /\ held = [t \in Threads |-> None]
    /\ runs = 0 /\ aged = 0
    /\ asked = [i \in Runs |-> None]
    /\ completed = [i \in Runs |-> 0]
    /\ results = {} /\ overdue = {} /\ overlapped = FALSE

Goto(t, label) == pc' = [pc EXCEPT ![t] = label]
Return(t) == Goto(t, "idle") /\ arg' = [arg EXCEPT ![t] = NoArg]
Entry(t) == sessions[arg[t].kind][arg[t].id]
SetEntry(t, e) == sessions' = [sessions EXCEPT ![arg[t].kind][arg[t].id] = e]

\* rotation_version + 1 in i32 arithmetic of a release build.
Bump(v) == IF v = MaxVer THEN MinVer ELSE v + 1

Enter(t, label, k, s, round, v, from) ==
    /\ pc[t] = "idle"
    /\ Goto(t, label)
    /\ arg' = [arg EXCEPT ![t] = [kind |-> k, id |-> s, round |-> round,
                                  ver |-> v, from |-> from, aged |-> aged]]
    /\ overlapped' = (overlapped \/ \E u \in Threads : arg[u].kind = k /\ arg[u].id = s)
    /\ UNCHANGED <<sessions, held, runs, aged, asked, completed, results, overdue>>

-----------------------------------------------------------------------------
(* Round 1.                                                                *)

CallRound1(t, k, s, v) ==
    /\ runs < MaxRuns
    /\ Enter(t, "insert", k, s, 1, v, None)

\* Fault: a session already there is kept.
Insert_KeepsOld(t) ==
    /\ pc[t] = "insert" /\ runs < MaxRuns
    /\ runs' = runs + 1
    /\ asked' = [asked EXCEPT ![runs'] =
          [kind |-> arg[t].kind, id |-> arg[t].id, ver |-> arg[t].ver]]
    /\ IF Entry(t) # None THEN UNCHANGED sessions
       ELSE SetEntry(t, [run |-> runs', stage |-> 1, ver |-> arg[t].ver,
                         pending |-> runs'])
    /\ Return(t)
    /\ UNCHANGED <<held, aged, completed, results, overdue, overlapped>>

\* Part 1 makes this run's secret; the session is inserted, over one of the
\* same id if any, with created_at now and the server's package pending.
Insert(t) ==
    /\ pc[t] = "insert" /\ runs < MaxRuns
    /\ runs' = runs + 1
    /\ asked' = [asked EXCEPT ![runs'] =
          [kind |-> arg[t].kind, id |-> arg[t].id, ver |-> arg[t].ver]]
    /\ SetEntry(t, [run |-> runs', stage |-> 1, ver |-> arg[t].ver,
                    pending |-> runs'])
    /\ Return(t)
    /\ UNCHANGED <<held, aged, completed, results, overdue, overlapped>>

-----------------------------------------------------------------------------
(* Rounds 2 and 0.                                                         *)

\* The server's round-2 package is from some run that got a round-1 reply.
CallRound2(t, k, s, from) ==
    /\ from <= runs
    /\ Enter(t, "dispatch", k, s, 2, None, from)

\* Finalize; or a round the engine does not know.
CallOther(t, k, s, round) == Enter(t, "dispatch", k, s, round, None, None)

\* mpc_engine.rs routes by membership; without a FROST session the call ends
\* in the secp256k1 path with "session not found".
Dispatch(t) ==
    /\ pc[t] = "dispatch"
    /\ IF Entry(t) = None \/ arg[t].round \notin {0, 2} THEN Return(t)
       ELSE /\ Goto(t, IF arg[t].kind = "recover" /\ arg[t].round = 2
                       THEN "ttl" ELSE "take")
            /\ UNCHANGED arg
    /\ UNCHANGED <<sessions, held, runs, aged, histVars>>

\* Fault: no check.
CheckTtl_Skipped(t) ==
    /\ pc[t] = "ttl"
    /\ Goto(t, "take")
    /\ UNCHANGED <<arg, sessions, held, runs, aged, histVars>>

\* recover, round 2: an expired session is evicted, none is an error.
CheckTtl(t) ==
    /\ pc[t] = "ttl"
    /\ IF Entry(t) = None THEN Return(t) /\ UNCHANGED sessions
       ELSE IF Entry(t).run <= aged THEN SetEntry(t, None) /\ Return(t)
       ELSE Goto(t, "take") /\ UNCHANGED <<arg, sessions>>
    /\ UNCHANGED <<held, runs, aged, histVars>>

\* A payload or backup share that does not parse; finalize reads none.
BadPayload(t) ==
    /\ pc[t] = "insert" \/ (pc[t] = "take" /\ arg[t].round = 2)
    /\ Return(t)
    /\ UNCHANGED <<sessions, held, runs, aged, histVars>>

\* The session is removed from its map under the lock.
Take(t) ==
    /\ pc[t] = "take"
    /\ IF Entry(t) = None THEN Return(t) /\ UNCHANGED <<sessions, held>>
       ELSE /\ held' = [held EXCEPT ![t] = Entry(t)]
            /\ SetEntry(t, None)
            /\ Goto(t, "work")
            /\ UNCHANGED arg
    /\ UNCHANGED <<runs, aged, histVars>>

\* Fault: the session outlives the call.
Drop_Keeps(t) == UNCHANGED held /\ Return(t)

\* The call ends without the session it holds.
Drop(t) == held' = [held EXCEPT ![t] = None] /\ Return(t)

\* Fault: the version is raised when the session goes back, too.
PutBack_Bumps(t) ==
    /\ pc[t] = "work" /\ arg[t].round = 2
    /\ held[t].stage = 1
    /\ SetEntry(t, [held[t] EXCEPT !.stage = 2, !.pending = arg[t].from,
                                   !.ver = Bump(@)])
    /\ Drop(t)
    /\ UNCHANGED <<runs, aged, histVars>>

\* Part 2 uses up r1_secret; the session goes back, with its created_at, over
\* any inserted meanwhile, and the server's new package pending.
PutBack(t) ==
    /\ pc[t] = "work" /\ arg[t].round = 2
    /\ held[t].stage = 1
    /\ SetEntry(t, [held[t] EXCEPT !.stage = 2, !.pending = arg[t].from])
    /\ Drop(t)
    /\ UNCHANGED <<runs, aged, histVars>>

\* The new share goes to the host: version 1 for a new key, one more than at
\* round 1 for a refreshed share.
HandOver(t) ==
    /\ completed' = [completed EXCEPT ![held[t].run] = @ + 1]
    /\ results' = results \cup
          {[run |-> held[t].run, kind |-> arg[t].kind, id |-> arg[t].id,
            ver |-> IF arg[t].kind = "keygen" THEN 1 ELSE Bump(held[t].ver)]}
    /\ overdue' = IF held[t].run <= arg[t].aged
                  THEN overdue \cup {held[t].run} ELSE overdue

\* Fault: the session is put back for another finalize.
Complete_PutsBack(t) ==
    /\ pc[t] = "work" /\ arg[t].round = 0
    /\ held[t].stage = 2 /\ held[t].pending = held[t].run
    /\ HandOver(t)
    /\ SetEntry(t, held[t])
    /\ Drop(t)
    /\ UNCHANGED <<runs, aged, asked, overlapped>>

\* Part 3 needs r2_secret and accepts only its own run's package.
Complete(t) ==
    /\ pc[t] = "work" /\ arg[t].round = 0
    /\ held[t].stage = 2 /\ held[t].pending = held[t].run
    /\ HandOver(t)
    /\ Drop(t)
    /\ UNCHANGED <<sessions, runs, aged, asked, overlapped>>

\* Part 2 or part 3 fails: the session is gone.
PartFails(t) ==
    /\ pc[t] = "work"
    /\ Drop(t)
    /\ UNCHANGED <<sessions, runs, aged, histVars>>

-----------------------------------------------------------------------------
(* Time, and the process.                                                  *)

\* The oldest session not yet past SESSION_TTL gets past it.
Age ==
    /\ aged < runs
    /\ aged' = aged + 1
    /\ UNCHANGED <<sessions, pc, arg, held, runs, histVars>>

\* The host process dies and starts again: the static maps are empty.
Restart ==
    /\ sessions' = [k \in Kinds |-> [s \in Ids |-> None]]
    /\ pc' = [t \in Threads |-> "idle"]
    /\ arg' = [t \in Threads |-> NoArg]
    /\ held' = [t \in Threads |-> None]
    /\ UNCHANGED <<runs, aged, histVars>>

Call(t) ==
    \E k \in Kinds, s \in Ids :
        \/ \E v \in Versions : (k = "keygen" => v = 1) /\ CallRound1(t, k, s, v)
        \/ \E from \in Runs : CallRound2(t, k, s, from)
        \/ \E round \in {0, 3} : CallOther(t, k, s, round)

Step(t) ==
    \/ Insert(t) \/ Dispatch(t) \/ CheckTtl(t) \/ BadPayload(t) \/ Take(t)
    \/ PutBack(t) \/ Complete(t) \/ PartFails(t)

Next == (\E t \in Threads : Call(t) \/ Step(t)) \/ Age \/ Restart

Spec == Init /\ [][Next]_vars

-----------------------------------------------------------------------------
(* Safety.                                                                 *)

\* The secrets of a run are in one map entry, or with the one thread that
\* removed them, or gone; and a run hands out one share, after which its
\* secrets are gone.
SecretsHaveOneOwner ==
    LET Entries(i) == {p \in Kinds \X Ids : sessions[p[1]][p[2]] # None
                                           /\ sessions[p[1]][p[2]].run = i}
        Hands(i) == {t \in Threads : held[t] # None /\ held[t].run = i}
    IN  \A i \in Runs :
            /\ \A p, q \in Entries(i) : p = q
            /\ \A t, u \in Hands(i) : t = u
            /\ Entries(i) = {} \/ Hands(i) = {}
            /\ completed[i] > 0 => completed[i] = 1 /\ Entries(i) = {} /\ Hands(i) = {}

\* A result is for the protocol and session id its run was started with, and
\* the version is one more than the host gave at round 1, whatever calls came
\* in between and however often the session went in and out of the map.
ResultIsOfItsRun ==
    \A r \in results :
        /\ asked[r.run] # None
        /\ asked[r.run].kind = r.kind /\ asked[r.run].id = r.id
        /\ r.ver = IF r.kind = "keygen" THEN 1 ELSE Bump(asked[r.run].ver)

\* No round-2 call that begins after a refresh run expired moves it on, though
\* the lock is released between the check and the removal.
StaleRefreshNotAdvanced ==
    [][\A t \in Threads :
          pc[t] = "work" /\ pc'[t] = "idle" /\ arg[t].kind = "recover"
          /\ sessions'["recover"][arg[t].id] # None
          /\ sessions'["recover"][arg[t].id].run = held[t].run
            => held[t].run > arg[t].aged]_vars

\* As long as no two calls of one id have overlapped, the share handed to the
\* host is that of the newest run with its id: a retry from round 1 replaces
\* what was there.
NewestRunCompletes ==
    [][\A t \in Threads :
          ~overlapped /\ pc[t] = "work" /\ pc'[t] = "idle" /\ results' # results
            => \A i \in (held[t].run + 1)..runs :
                  asked[i].kind # arg[t].kind \/ asked[i].id # arg[t].id]_vars

\* session.rs:15 and engine_ed25519.rs:498: sessions live for five minutes,
\* expired ones are evicted before any work.
ExpiredRunNeverCompletes == overdue = {}
=============================================================================
