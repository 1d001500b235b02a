----------------------------- MODULE DklsSessions -----------------------------
(***************************************************************************)
(* The session map of one secp256k1 (DKLs23) protocol, with several        *)
(* sessions and FFI calls on several threads: keygen, recover and sign of  *)
(* src/rust/src/api/mpc_engine.rs, and KEYGEN_SESSIONS, RECOVERY_SESSIONS  *)
(* and SIGN_SESSIONS of session.rs, each behind one mutex.                 *)
(*                                                                         *)
(* What happens inside one session is in ChannelRelay; of RoundPipe this   *)
(* module keeps that a collection takes everything produced, at least one  *)
(* message, or reports the end.  The task sends a message, then takes      *)
(* Inputs messages of the server, answering each but perhaps the last.     *)
(***************************************************************************)
EXTENDS Integers, Sequences

CONSTANTS
    Kind,           \* which of the three maps: "keygen", "recover", "sign"
    Threads,        \* worker threads running FFI calls
    Ids,            \* session ids
    MinVer, MaxVer, \* the range of a rotation version (an i32)
    Inputs,         \* messages the protocol takes from the server
    FinalAnswer,    \* it answers its last message before it ends
    Payload,        \* numbers of messages an envelope may carry
    InCap,          \* capacity of the channel into a task (16 in the code)
    MaxRuns,        \* bound: round-1 calls in a behaviour
    MaxCalls,       \* bound: calls in a behaviour
    OneCallPerId,   \* the host never overlaps calls of one session id
    None

VARIABLES
    sessions,   \* the map
    lock,       \* the thread in collect_batch with the map locked
    tasks,      \* per run: the protocol task and its two channels
    pc, call,   \* per thread: next statement and locals of its call
    runs, calls,
    births,     \* the runs in order of created_at
    aged,       \* the first `aged` of them are older than SESSION_TTL
    asked,      \* history: id and version each run was started with
    completed,  \* history: how often each run completed
    results,    \* history: the results handed to the host
    reply       \* history: what the last call of each id returned

callVars == <<pc, call>>
histVars == <<asked, completed, results>>
vars == <<sessions, lock, tasks, callVars, runs, calls, births, aged, histVars,
          reply>>

Runs == 1..MaxRuns
Versions == IF Kind = "recover" THEN MinVer..MaxVer ELSE {None}
Session == [run : Runs, ver : Versions, consumed : BOOLEAN]
Task == [status : {"none", "running", "done", "failed"},
         stage : 0..(Inputs + 1), inp : 0..InCap, out : Nat]
Call == [id : Ids \cup {None}, round : {0, 1, 2}, ver : Versions \cup {None},
         msgs : 0..1,               \* messages of its envelope to inject
         run : Runs \cup {None},    \* whose tx_in and Notify the call has
         other : Runs \cup {None}]  \* whose rx_out or task_handle it waits on

ASSUME DklsAssumption ==
    /\ Kind \in {"keygen", "recover", "sign"}
    /\ Inputs \in Nat \ {0} /\ InCap \in Nat \ {0}
    /\ MinVer \in Int /\ MaxVer \in Int /\ MinVer <= MaxVer
    /\ Payload \subseteq 0..1 /\ FinalAnswer \in BOOLEAN
    /\ MaxRuns \in Nat /\ MaxCalls \in Nat
    /\ OneCallPerId \in BOOLEAN
    /\ None \notin Ids \cup (MinVer..MaxVer) \cup Runs \cup Session \cup Threads
    /\ None \notin [id : Ids, ver : Versions]

NoCall == [id |-> None, round |-> 0, ver |-> None, msgs |-> 0,
           run |-> None, other |-> None]
NoTask == [status |-> "none", stage |-> 0, inp |-> 0, out |-> 0]

Ended(i) == tasks[i].status \in {"done", "failed"}

\* Fault: round 0 keeps its session's tx_in while it joins the task.
TxOpen_Round0(i) ==
    \/ \E s \in Ids : sessions[s] # None /\ sessions[s].run = i
    \/ \E t \in Threads :
          \/ call[t].run = i
          \/ call[t].round = 0 /\ call[t].other = i

\* Some sender of the run's input channel is alive: in the map, or cloned or
\* created by a call that has not returned.
TxOpen(i) ==
    \/ \E s \in Ids : sessions[s] # None /\ sessions[s].run = i
    \/ \E t \in Threads : call[t].run = i

\* The receiver of the run's output channel is alive: in the map, with the
\* round-1 call that made it, or with a round-0 call that joins the task.
RxOpen(i) ==
    \/ \E s \in Ids : sessions[s] # None /\ sessions[s].run = i
    \/ \E t \in Threads :
          \/ call[t].round = 1 /\ call[t].run = i
          \/ call[t].round = 0 /\ call[t].other = i

TypeOK ==
    /\ sessions \in [Ids -> Session \cup {None}]
    /\ lock \in Threads \cup {None}
    /\ \A t \in Threads : pc[t] = "collect" <=> lock = t
    /\ tasks \in [Runs -> Task]
    /\ pc \in [Threads -> {"idle", "inject1", "collect1", "insert", "lookup",
                           "inject", "enter", "collect", "reset", "remove",
                           "join"}]
    /\ call \in [Threads -> Call]
    /\ runs \in 0..MaxRuns /\ calls \in 0..MaxCalls
    /\ births \in Seq(Runs) /\ aged \in 0..Len(births)
    /\ asked \in [Runs -> [id : Ids, ver : Versions] \cup {None}]
    /\ completed \in [Runs -> Nat]
    /\ results \subseteq [run : Runs, id : Ids, ver : Versions \cup {1}]
    /\ reply \in [Ids -> {"none", "continue", "completed", "error", "ended"}]

Init ==
    /\ sessions = [s \in Ids |-> None]
    /\ lock = None
    /\ tasks = [i \in Runs |-> NoTask]
    /\ pc = [t \in Threads |-> "idle"]
    /\ call = [t \in Threads |-> NoCall]
    /\ runs = 0 /\ calls = 0 /\ births = <<>> /\ aged = 0
    /\ asked = [i \in Runs |-> None]
    /\ completed = [i \in Runs |-> 0]
    /\ results = {}
    /\ reply = [s \in Ids |-> "none"]

-----------------------------------------------------------------------------
(* The protocol tasks.                                                     *)

TaskVarsOnly == UNCHANGED <<sessions, lock, callVars, runs, calls, births, aged,
                            histVars, reply>>

\* A send fails, and with it the protocol, when the receiver is gone.
SendsOn(i, task) ==
    IF RxOpen(i) THEN [task EXCEPT !.out = @ + 1]
                 ELSE [task EXCEPT !.status = "failed"]

TaskStart(i) ==
    /\ tasks[i].status = "running" /\ tasks[i].stage = 0
    /\ tasks' = [tasks EXCEPT ![i] = SendsOn(i, [@ EXCEPT !.stage = 1])]
    /\ TaskVarsOnly

\* The task takes a message and answers it, or is done with it.
TaskRecv(i) ==
    /\ tasks[i].status = "running" /\ tasks[i].stage \in 1..Inputs
    /\ tasks[i].inp > 0
    /\ LET took == [tasks[i] EXCEPT !.inp = @ - 1, !.stage = @ + 1]
           last == took.stage > Inputs
           next == IF last /\ ~FinalAnswer THEN took ELSE SendsOn(i, took)
       IN  tasks' = [tasks EXCEPT ![i] =
              IF last /\ next.status = "running"
              THEN [next EXCEPT !.status = "done"] ELSE next]
    /\ TaskVarsOnly

\* A message is refused by the protocol.
TaskReject(i) ==
    /\ tasks[i].status = "running" /\ tasks[i].inp > 0
    /\ tasks' = [tasks EXCEPT ![i].status = "failed"]
    /\ TaskVarsOnly

\* Fault: poll_next returns Pending for a closed channel.
TaskClosed_Pending(i) == tasks[i].status = "unpolled" /\ UNCHANGED vars

\* The input channel is closed and empty.
TaskClosed(i) ==
    /\ tasks[i].status = "running" /\ tasks[i].stage > 0
    /\ tasks[i].inp = 0 /\ ~TxOpen(i)
    /\ tasks' = [tasks EXCEPT ![i].status = "failed"]
    /\ TaskVarsOnly

TaskStep(i) == TaskStart(i) \/ TaskRecv(i) \/ TaskReject(i) \/ TaskClosed(i)

-----------------------------------------------------------------------------
(* Calls.                                                                  *)

Goto(t, label) == pc' = [pc EXCEPT ![t] = label]

\* The call returns and drops its locals.
Return(t, r) ==
    /\ Goto(t, "idle")
    /\ call' = [call EXCEPT ![t] = NoCall]
    /\ reply' = [reply EXCEPT ![call[t].id] = r]

Locked == lock # None

Enter(t, label, c) ==
    /\ pc[t] = "idle" /\ calls < MaxCalls
    /\ OneCallPerId => \A u \in Threads : call[u].id # c.id
    /\ calls' = calls + 1
    /\ call' = [call EXCEPT ![t] = c]
    /\ Goto(t, label)
    /\ UNCHANGED <<sessions, lock, births, aged, completed, results, reply>>

\* round == 1: channels, relay and task are created before anything is stored.
CallRound1(t, s, v, n) ==
    /\ runs < MaxRuns
    /\ runs' = runs + 1
    /\ asked' = [asked EXCEPT ![runs'] = [id |-> s, ver |-> v]]
    /\ tasks' = [tasks EXCEPT ![runs'].status = "running"]
    /\ Enter(t, "inject1", [id |-> s, round |-> 1, ver |-> v, msgs |-> n,
                            run |-> runs', other |-> None])

CallAdvance(t, s) ==
    /\ Enter(t, "lookup", [NoCall EXCEPT !.id = s, !.round = 2])
    /\ UNCHANGED <<tasks, runs, asked>>

\* round == 0 of keygen and recover; sign has none.
CallCollect(t, s) ==
    /\ Kind # "sign"
    /\ Enter(t, "remove", [NoCall EXCEPT !.id = s])
    /\ UNCHANGED <<tasks, runs, asked>>

\* Fault: a later round whose injection fails forgets the session.
Inject_Forgets(t) ==
    /\ pc[t] \in {"inject1", "inject"}
    /\ IF call[t].msgs > 0 /\ Ended(call[t].run)
       THEN /\ Return(t, "ended")
            /\ sessions' = [sessions EXCEPT ![call[t].id] = None]
            /\ UNCHANGED tasks
       ELSE /\ tasks[call[t].run].inp + call[t].msgs <= InCap
            /\ tasks' = [tasks EXCEPT ![call[t].run].inp = @ + call[t].msgs]
            /\ Goto(t, IF pc[t] = "inject1" THEN "collect1" ELSE "enter")
            /\ UNCHANGED <<sessions, call, reply>>
    /\ UNCHANGED <<lock, runs, calls, births, aged, histVars>>

\* inject_all, in round 1 and later.  A send waits while the channel is full
\* and fails when the task has ended: round 1 then aborts the task, a later
\* round leaves the session in the map.
Inject(t) ==
    LET i == call[t].run IN
    /\ pc[t] \in {"inject1", "inject"}
    /\ \/ /\ call[t].msgs > 0 /\ Ended(i)
          /\ Return(t, "ended")
          /\ UNCHANGED tasks
       \/ /\ call[t].msgs > 0 => ~Ended(i)
          /\ tasks[i].inp + call[t].msgs <= InCap
          /\ tasks' = [tasks EXCEPT ![i].inp = @ + call[t].msgs]
          /\ Goto(t, IF pc[t] = "inject1" THEN "collect1" ELSE "enter")
          /\ UNCHANGED <<call, reply>>
    /\ UNCHANGED <<sessions, lock, runs, calls, births, aged, histVars>>

\* Round 1 collects from its own receiver, with no lock.
Collect1(t) ==
    /\ pc[t] = "collect1"
    /\ \/ /\ tasks[call[t].run].out > 0
          /\ tasks' = [tasks EXCEPT ![call[t].run].out = 0]
          /\ Goto(t, "insert")
          /\ UNCHANGED <<call, reply>>
       \/ /\ tasks[call[t].run].out = 0 /\ Ended(call[t].run)
          /\ Return(t, "error")
          /\ UNCHANGED tasks
    /\ UNCHANGED <<sessions, lock, runs, calls, births, aged, histVars>>

\* Fault: the version of a session of the same id is kept.
Insert_KeepsVersion(t) ==
    LET old == sessions[call[t].id] IN
    /\ pc[t] = "insert" /\ ~Locked
    /\ sessions' = [sessions EXCEPT ![call[t].id] =
          [run |-> call[t].run, consumed |-> FALSE,
           ver |-> IF old = None THEN call[t].ver ELSE old.ver]]
    /\ births' = Append(births, call[t].run)
    /\ Return(t, "continue")
    /\ UNCHANGED <<lock, tasks, runs, calls, aged, histVars>>

\* The session is inserted, over one of the same id if any.
Insert(t) ==
    /\ pc[t] = "insert" /\ ~Locked
    /\ sessions' = [sessions EXCEPT ![call[t].id] =
          [run |-> call[t].run, ver |-> call[t].ver, consumed |-> FALSE]]
    /\ births' = Append(births, call[t].run)
    /\ Return(t, "continue")
    /\ UNCHANGED <<lock, tasks, runs, calls, aged, histVars>>

\* created_at.elapsed() > SESSION_TTL, asked of recovery sessions only.
Expired(s) ==
    /\ Kind = "recover" /\ sessions[s] # None
    /\ \E k \in 1..aged : births[k] = sessions[s].run

\* A later round clones tx_in and Notify, reads the version and unlocks; then
\* it parses the payload.  An expired session is removed, its task aborted.
Lookup(t) ==
    LET s == call[t].id IN
    /\ pc[t] = "lookup" /\ ~Locked
    /\ \/ /\ ~Expired(s)     \* absent, consumed, or the payload does not parse
          /\ Return(t, "error")
          /\ UNCHANGED <<sessions, tasks>>
       \/ /\ Expired(s)
          /\ sessions' = [sessions EXCEPT ![s] = None]
          /\ tasks' = [tasks EXCEPT ![sessions[s].run].status =
                          IF @ = "running" THEN "failed" ELSE @]
          /\ Return(t, "error")
       \/ /\ sessions[s] # None /\ ~Expired(s) /\ ~sessions[s].consumed
          /\ \E n \in Payload :
                call' = [call EXCEPT ![t] =
                    [@ EXCEPT !.run = sessions[s].run, !.ver = sessions[s].ver,
                              !.msgs = n]]
          /\ Goto(t, "inject")
          /\ UNCHANGED <<sessions, tasks, reply>>
    /\ UNCHANGED <<lock, runs, calls, births, aged, histVars>>

\* The map is locked again, up to the end of the collection from whatever
\* session it now holds.  (If that is another run, the call waits for the
\* Notify of its own: then CollectSome may come late or never.)
EnterLock(t) ==
    LET s == call[t].id IN
    /\ pc[t] = "enter" /\ ~Locked
    /\ \/ /\ sessions[s] = None
          /\ Return(t, "error")
          /\ UNCHANGED <<sessions, lock>>
       \/ /\ sessions[s] # None
          /\ lock' = t
          /\ call' = [call EXCEPT ![t].other = sessions[s].run]
          /\ sessions' = [sessions EXCEPT ![s].consumed = (Kind = "sign")]
          /\ Goto(t, "collect")
          /\ UNCHANGED reply
    /\ UNCHANGED <<tasks, runs, calls, births, aged, histVars>>

\* Fault: the guard of the map outlives the collection.
CollectSome_KeepsLock(t) ==
    /\ pc[t] = "collect" /\ tasks[call[t].other].out > 0
    /\ tasks' = [tasks EXCEPT ![call[t].other].out = 0]
    /\ IF Kind = "sign" THEN Goto(t, "reset") /\ UNCHANGED <<call, reply>>
                        ELSE Return(t, "continue")
    /\ UNCHANGED <<sessions, lock, runs, calls, births, aged, histVars>>

CollectSome(t) ==
    /\ pc[t] = "collect" /\ tasks[call[t].other].out > 0
    /\ tasks' = [tasks EXCEPT ![call[t].other].out = 0]
    /\ lock' = None
    /\ IF Kind = "sign" THEN Goto(t, "reset") /\ UNCHANGED <<call, reply>>
                        ELSE Return(t, "continue")
    /\ UNCHANGED <<sessions, runs, calls, births, aged, histVars>>

CollectNone(t) ==
    /\ pc[t] = "collect"
    /\ tasks[call[t].other].out = 0 /\ Ended(call[t].other)
    /\ lock' = None
    /\ Goto(t, "remove")
    /\ UNCHANGED <<sessions, tasks, call, runs, calls, births, aged, histVars, reply>>

\* Fault: consumed is not reset.
Reset_Forgets(t) ==
    /\ pc[t] = "reset" /\ ~Locked
    /\ Return(t, "continue")
    /\ UNCHANGED <<sessions, lock, tasks, runs, calls, births, aged, histVars>>

\* sign resets consumed on whatever session the map now holds.
Reset(t) ==
    LET s == call[t].id IN
    /\ pc[t] = "reset" /\ ~Locked
    /\ sessions' = IF sessions[s] = None THEN sessions
                   ELSE [sessions EXCEPT ![s].consumed = FALSE]
    /\ Return(t, "continue")
    /\ UNCHANGED <<lock, tasks, runs, calls, births, aged, histVars>>

\* Fault: the session is read, not removed.
Remove_Keeps(t) ==
    LET s == call[t].id IN
    /\ pc[t] = "remove" /\ ~Locked
    /\ IF sessions[s] = None
       THEN Return(t, "error")
       ELSE /\ call' = [call EXCEPT ![t].other = sessions[s].run,
                                   ![t].ver = sessions[s].ver]
            /\ Goto(t, "join")
            /\ UNCHANGED reply
    /\ UNCHANGED <<sessions, lock, tasks, runs, calls, births, aged, histVars>>

\* The session is removed and dropped but for its task; round 0 also keeps
\* rx_out, and takes the version from it.
Remove(t) ==
    LET s == call[t].id IN
    /\ pc[t] = "remove" /\ ~Locked
    /\ \/ /\ sessions[s] = None
          /\ Return(t, "error")
          /\ UNCHANGED sessions
       \/ /\ sessions[s] # None
          /\ sessions' = [sessions EXCEPT ![s] = None]
          /\ call' = [call EXCEPT ![t] =
                [@ EXCEPT !.other = sessions[s].run,
                          !.ver = IF call[t].round = 0 THEN sessions[s].ver
                                                       ELSE call[t].ver]]
          /\ Goto(t, "join")
          /\ UNCHANGED reply
    /\ UNCHANGED <<lock, tasks, runs, calls, births, aged, histVars>>

\* rotation_version of a result: + 1 wraps; a key is created with version 1;
\* a signature has none.
NextVer(v) == CASE Kind = "recover" -> IF v = MaxVer THEN MinVer ELSE v + 1
                [] Kind = "keygen" -> 1
                [] OTHER -> None

\* block_on(task_handle).
Join(t) ==
    LET i == call[t].other IN
    /\ pc[t] = "join" /\ Ended(i)
    /\ IF tasks[i].status = "done"
       THEN /\ completed' = [completed EXCEPT ![i] = @ + 1]
            /\ results' = results \cup
                  {[run |-> i, id |-> call[t].id, ver |-> NextVer(call[t].ver)]}
            /\ Return(t, "completed")
       ELSE Return(t, "error") /\ UNCHANGED <<completed, results>>
    /\ UNCHANGED <<sessions, lock, tasks, runs, calls, births, aged, asked>>

\* The oldest unexpired session passes SESSION_TTL.
Age ==
    /\ Kind = "recover" /\ aged < Len(births)
    /\ aged' = aged + 1
    /\ UNCHANGED <<sessions, lock, tasks, callVars, runs, calls, births, histVars,
                   reply>>

Step(t) ==
    \/ Inject(t) \/ Collect1(t) \/ Insert(t) \/ Lookup(t)
    \/ EnterLock(t) \/ CollectSome(t) \/ CollectNone(t) \/ Reset(t)
    \/ Remove(t) \/ Join(t)

Next ==
    \/ \E i \in Runs : TaskStep(i)
    \/ \E t \in Threads :
          \/ \E s \in Ids : \/ \E v \in Versions, n \in Payload : CallRound1(t, s, v, n)
                           \/ CallAdvance(t, s)
                           \/ CallCollect(t, s)
          \/ Step(t)
    \/ Age

\* Tokio runs every task that can run, and every thread runs on: with calls
\* bounded a mutex is not taken away from a waiting thread for ever.  The host
\* need not call.
Fairness ==
    /\ \A i \in Runs : WF_vars(TaskStep(i))
    /\ \A t \in Threads : WF_vars(Step(t))

Spec == Init /\ [][Next]_vars /\ Fairness

-----------------------------------------------------------------------------
(* Properties.                                                             *)

Busy(s) == \E t \in Threads : call[t].id = s

\* The task_handle of a run is joined by one call only, whichever calls of
\* its session overlap: no run hands out its share or signature twice.
CompletesOnce == \A i \in Runs : completed[i] <= 1

\* The rotation version in a result is one more than that of the share the
\* refresh was started from (session.rs, RecoverySession), if the host does
\* not overlap calls of one id: else a later round may take the version from
\* one run and the result from the run that replaced it.
VersionFollowsRun ==
    \A r \in results : /\ r.id = asked[r.run].id
                       /\ r.ver = NextVer(asked[r.run].ver)

\* The flag consumed of a sign session is set only while a call that set it
\* is under way: no order of calls leaves a session that refuses every round.
ConsumedNeverSticks ==
    \A s \in Ids : sessions[s] # None /\ sessions[s].consumed =>
        \E t \in Threads : call[t].id = s /\ pc[t] \in {"collect", "reset", "remove"}

\* What a finished task produced can still be had: from the latest run of an
\* id, once its session was stored, until one call hands the result over or
\* the session expires.  The host does not overlap calls of one id.
ResultNotLost ==
    \A k \in (aged + 1)..Len(births) :
        LET i == births[k] IN
        /\ tasks[i].status = "done" /\ completed[i] = 0
        /\ \A j \in (i + 1)..MaxRuns : asked[j] # None => asked[j].id # asked[i].id
        => \/ \E s \in Ids : sessions[s] # None /\ sessions[s].run = i
           \/ \E t \in Threads : call[t].other = i

\* A task whose session was completed, replaced, expired or never stored ends:
\* its input closes when the last clone of tx_in is dropped (relay.rs,
\* poll_next), so tasks do not pile up in the runtime.
NoOrphanTask ==
    \A i \in Runs : (tasks[i].status = "running" /\ ~TxOpen(i)) ~> Ended(i)

\* The call that has the map locked brought no message, and waits for a task
\* that waits for one.
Starved ==
    \E t \in Threads :
        LET task == tasks[call[t].other] IN
        /\ pc[t] = "collect" /\ call[t].msgs = 0 /\ task.status = "running"
        /\ task.stage > 0 /\ task.inp = 0 /\ task.out = 0

\* Nothing but such a call can keep a call of any session from returning:
\* neither the lock that is held while collect_batch waits, nor a full
\* channel, nor a join.  The host does not overlap calls of one id.
ReturnsUnlessStarved ==
    \A t \in Threads : (pc[t] # "idle") ~> (pc[t] = "idle" \/ Starved)

\* README.md:69, "cleaned up after each protocol run": once a call has reported
\* its run completed, the map has no session of that id, whatever happened to
\* the sessions of other ids meanwhile.  The host does not overlap calls of one
\* id.
CompletedIsCleanedUp ==
    \A s \in Ids : reply[s] = "completed" /\ ~Busy(s) => sessions[s] = None
=============================================================================
