-------------------------- MODULE DklsSessionsProofs --------------------------
(***************************************************************************)
(* Proofs about DklsSessions, for each of the three maps and every number  *)
(* of threads, session ids and calls.  The calls may overlap, except in    *)
(* the last two parts (Serial, Lossless), which are for a host that does   *)
(* not make two calls of one session id at once.                           *)
(***************************************************************************)
EXTENDS DklsSessions, TLAPS

-----------------------------------------------------------------------------
(* Types, with the locals a call has at each of its statements.            *)

Opening == {"inject1", "collect1", "insert"}
Advancing == {"inject", "enter", "collect", "reset"}

LocalsOK ==
    \A t \in Threads :
        /\ pc[t] # "idle" => call[t].id \in Ids
        /\ pc[t] \in Opening \cup Advancing =>
              call[t].run \in Runs /\ call[t].ver \in Versions
        /\ pc[t] = "remove" => call[t].round = 0 \/ call[t].ver \in Versions
        /\ pc[t] \in {"collect", "join"} => call[t].other \in Runs
        /\ pc[t] = "join" => call[t].ver \in Versions

TypeInv == TypeOK /\ LocalsOK

(* The handle of a run's task is in the map under one id, or with the one  *)
(* call that opens the session or joins the task, or used up.              *)

Stored(s, i) == sessions[s] # None /\ sessions[s].run = i
Holds(t, i) == \/ pc[t] \in Opening /\ call[t].run = i
               \/ pc[t] = "join" /\ call[t].other = i

OneEntry == \A i \in Runs : \A r, s \in Ids : Stored(r, i) /\ Stored(s, i) => r = s
OneHolder == \A i \in Runs : \A t, u \in Threads : Holds(t, i) /\ Holds(u, i) => t = u
EntryOrHolder == \A i \in Runs, s \in Ids, t \in Threads : ~(Stored(s, i) /\ Holds(t, i))

Unused(i) == i <= runs /\ completed[i] = 0
HandlesUnused ==
    \A i \in Runs :
        /\ \A s \in Ids : Stored(s, i) => Unused(i)
        /\ \A t \in Threads : Holds(t, i) => Unused(i)

LaterRunsNew == \A i \in Runs : i > runs => completed[i] = 0

Handles == /\ OneEntry /\ OneHolder /\ EntryOrHolder /\ HandlesUnused
           /\ LaterRunsNew /\ CompletesOnce

Inv == TypeInv /\ Handles

-----------------------------------------------------------------------------
LEMMA NoCallType == NoCall \in Call
  BY DEF NoCall, Call

LEMMA SessionNotNone == \A x \in Session : x # None
  BY DklsAssumption

LEMMA TypeInit == Init => TypeInv
  BY NoCallType, DklsAssumption
     DEF Init, TypeInv, TypeOK, LocalsOK, Opening, Advancing, Task, NoTask, NoCall

LEMMA Parameters ==
    /\ Inputs \in Nat /\ Inputs >= 1 /\ InCap \in Nat
    /\ MaxRuns \in Nat /\ MaxCalls \in Nat
  BY DklsAssumption

LEMMA BeginsType ==
    ASSUME NEW task \in Task
    PROVE  [task EXCEPT !.stage = 1] \in Task
  BY Parameters DEF Task

LEMMA TakesType ==
    ASSUME NEW task \in Task, task.stage \in 1..Inputs, task.inp > 0
    PROVE  [task EXCEPT !.inp = @ - 1, !.stage = @ + 1] \in Task
  <1>1. task.inp \in 0..InCap /\ task.stage \in 0..(Inputs + 1)
    BY DEF Task
  <1>2. task.inp - 1 \in 0..InCap /\ task.stage + 1 \in 0..(Inputs + 1)
    BY <1>1, Parameters
  <1> QED
    BY <1>2 DEF Task

LEMMA StatusType ==
    ASSUME NEW f \in [Runs -> Task], NEW i \in Runs,
           NEW status \in {"running", "done", "failed"}
    PROVE  [f EXCEPT ![i].status = status] \in [Runs -> Task]
  <1>1. f[i] \in Task
    OBVIOUS
  <1>2. [f[i] EXCEPT !.status = status] \in Task
    BY <1>1 DEF Task
  <1> QED
    BY <1>2

LEMMA SendsType ==
    ASSUME NEW i, NEW task \in Task
    PROVE  SendsOn(i, task) \in Task
  BY DEF SendsOn, Task

LEMMA TypeTask ==
    ASSUME TypeInv, NEW i \in Runs, TaskStep(i)
    PROVE  TypeInv'
  <1>1. tasks[i] \in Task
    BY DEF TypeInv, TypeOK
  <1>2. TaskVarsOnly
    BY DEF TaskStep, TaskStart, TaskRecv, TaskReject, TaskClosed
  <1>3. tasks' \in [Runs -> Task]
    <2> USE DEF TypeInv, TypeOK
    <2>1. CASE TaskStart(i)
      <3>1. [tasks[i] EXCEPT !.stage = 1] \in Task
        BY <1>1, BeginsType
      <3> QED
        BY <2>1, <3>1, SendsType DEF TaskStart
    <2>2. CASE TaskRecv(i)
      <3> DEFINE took == [tasks[i] EXCEPT !.inp = @ - 1, !.stage = @ + 1]
                 last == took.stage > Inputs
                 next == IF last /\ ~FinalAnswer THEN took ELSE SendsOn(i, took)
      <3>1. took \in Task
        BY <1>1, <2>2, TakesType DEF TaskRecv
      <3>2. next \in Task
        BY <3>1, SendsType
      <3>3. [next EXCEPT !.status = "done"] \in Task
        BY <3>2 DEF Task
      <3>4. tasks' = [tasks EXCEPT ![i] =
                        IF last /\ next.status = "running"
                        THEN [next EXCEPT !.status = "done"] ELSE next]
        BY <2>2 DEF TaskRecv
      <3> HIDE DEF next, last
      <3> QED
        BY <3>2, <3>3, <3>4
    <2>3. CASE TaskReject(i)
      BY <2>3, StatusType DEF TaskReject
    <2>4. CASE TaskClosed(i)
      BY <2>4, StatusType DEF TaskClosed
    <2> QED
      BY <2>1, <2>2, <2>3, <2>4 DEF TaskStep
  <1> QED
    BY <1>2, <1>3 DEF TypeInv, TypeOK, LocalsOK, TaskVarsOnly, callVars, histVars

LEMMA TypeCall ==
    ASSUME TypeInv, NEW t \in Threads, NEW s \in Ids,
           \/ \E v \in Versions, n \in Payload : CallRound1(t, s, v, n)
           \/ CallAdvance(t, s)
           \/ CallCollect(t, s)
    PROVE  TypeInv'
  <1> USE DEF TypeInv, TypeOK, LocalsOK, Opening, Advancing, Enter, Goto, Call, NoCall
  <1>1. calls' \in 0..MaxCalls
    BY DklsAssumption DEF CallRound1, CallAdvance, CallCollect
  <1>2. CASE \E v \in Versions, n \in Payload : CallRound1(t, s, v, n)
    <2> PICK v \in Versions, n \in Payload : CallRound1(t, s, v, n)
      BY <1>2
    <2>1. runs' \in Runs /\ runs' \in 0..MaxRuns
      BY DklsAssumption, SMTT(40) DEF CallRound1, Runs
    <2>2. tasks' \in [Runs -> Task]
      <3>1. tasks' = [tasks EXCEPT ![runs'].status = "running"]
        BY DEF CallRound1
      <3> QED
        BY <2>1, <3>1, StatusType
    <2>3. asked' \in [Runs -> [id : Ids, ver : Versions] \cup {None}]
      BY <2>1 DEF CallRound1
    <2>4. /\ call' = [call EXCEPT ![t] = [id |-> s, round |-> 1, ver |-> v,
                             msgs |-> n, run |-> runs', other |-> None]]
          /\ pc' = [pc EXCEPT ![t] = "inject1"]
          /\ pc[t] = "idle"
      BY DEF CallRound1
    <2>5. call' \in [Threads -> Call]
      BY <2>1, <2>4, DklsAssumption
    <2>6. LocalsOK'
      BY <2>1, <2>4
    <2>7. \A u \in Threads : pc'[u] = "collect" <=> lock' = u
      BY <2>4 DEF CallRound1
    <2> QED
      BY <1>1, <2>1, <2>2, <2>3, <2>4, <2>5, <2>6, <2>7 DEF CallRound1
  <1>3. CASE CallAdvance(t, s)
    <2>1. /\ pc' = [pc EXCEPT ![t] = "lookup"] /\ pc[t] = "idle"
          /\ call' = [call EXCEPT ![t] = [NoCall EXCEPT !.id = s, !.round = 2]]
      BY <1>3 DEF CallAdvance
    <2>2. [NoCall EXCEPT !.id = s, !.round = 2] \in Call
      BY NoCallType
    <2>3. call' \in [Threads -> Call]
      BY <2>1, <2>2
    <2>5. LocalsOK'
      BY <2>1
    <2>4. \A u \in Threads : pc'[u] = "collect" <=> lock' = u
      BY <1>3, <2>1 DEF CallAdvance
    <2> QED
      BY <1>1, <1>3, <2>1, <2>3, <2>4, <2>5 DEF CallAdvance
  <1>4. CASE CallCollect(t, s)
    <2>1. /\ pc' = [pc EXCEPT ![t] = "remove"] /\ pc[t] = "idle"
          /\ call' = [call EXCEPT ![t] = [NoCall EXCEPT !.id = s]]
      BY <1>4 DEF CallCollect
    <2>2. call' \in [Threads -> Call]
      BY <2>1
    <2>3. LocalsOK'
      BY <2>1
    <2>4. \A u \in Threads : pc'[u] = "collect" <=> lock' = u
      BY <1>4, <2>1 DEF CallCollect
    <2> QED
      BY <1>1, <1>4, <2>1, <2>2, <2>3, <2>4 DEF CallCollect
  <1> QED
    BY <1>2, <1>3, <1>4

Labels == {"idle", "inject1", "collect1", "insert", "lookup", "inject", "enter",
           "collect", "reset", "remove", "join"}
Replies == {"none", "continue", "completed", "error", "ended"}

\* What every step of a call keeps of the types, but for the lock.
CallTypes ==
    /\ pc \in [Threads -> Labels] /\ call \in [Threads -> Call]
    /\ reply \in [Ids -> Replies] /\ LocalsOK

\* Thread t moves, and not to the statement that has the map locked.
Moved(t) == \A u \in Threads : pc'[u] = "collect" <=> pc[u] = "collect" /\ u # t

LEMMA ReturnTypes ==
    ASSUME TypeInv, NEW t \in Threads, NEW r \in Replies, Return(t, r)
    PROVE  /\ CallTypes'
           /\ Moved(t)
  BY NoCallType
     DEF TypeInv, TypeOK, LocalsOK, CallTypes, Return, Goto, Labels, Replies,
         Moved, Opening, Advancing

LEMMA GotoTypes ==
    ASSUME TypeInv, NEW t \in Threads, NEW label \in Labels \ {"collect"},
           Goto(t, label), UNCHANGED reply,
           NEW c \in Call, call' = [call EXCEPT ![t] = c], c.id \in Ids,
           label \in Opening \cup Advancing => c.run \in Runs /\ c.ver \in Versions,
           label = "remove" => c.round = 0 \/ c.ver \in Versions,
           label = "join" => c.other \in Runs /\ c.ver \in Versions
    PROVE  /\ CallTypes'
           /\ Moved(t)
  BY DEF TypeInv, TypeOK, LocalsOK, CallTypes, Goto, Labels, Replies,
         Moved, Opening, Advancing

LEMMA InjectType ==
    ASSUME NEW task \in Task, NEW n \in 0..1, task.inp + n <= InCap
    PROVE  [task EXCEPT !.inp = @ + n] \in Task
  <1>1. task.inp + n \in 0..InCap
    BY Parameters DEF Task
  <1> QED
    BY <1>1 DEF Task

LEMMA DrainType ==
    ASSUME TypeInv, NEW i \in Runs
    PROVE  [tasks EXCEPT ![i].out = 0] \in [Runs -> Task]
  <1>1. tasks[i] \in Task
    BY DEF TypeInv, TypeOK
  <1>2. [tasks[i] EXCEPT !.out = 0] \in Task
    BY <1>1 DEF Task
  <1> QED
    BY <1>2 DEF TypeInv, TypeOK

LEMMA TypeInject ==
    ASSUME TypeInv, NEW t \in Threads, Inject(t)
    PROVE  TypeInv'
  <1> DEFINE i == call[t].run
             n == call[t].msgs
  <1>1. i \in Runs /\ n \in 0..1 /\ call[t] \in Call /\ call[t].id \in Ids
    BY DEF TypeInv, TypeOK, LocalsOK, Opening, Advancing, Inject, Call
  <1>2. CASE Return(t, "ended") /\ UNCHANGED tasks
    <2>1. CallTypes' /\ Moved(t)
      BY <1>2, ReturnTypes DEF Replies
    <2> QED
      BY <1>2, <2>1 DEF Inject, TypeInv, TypeOK, CallTypes, Labels, Replies,
                    Moved, histVars
  <1>3. CASE /\ tasks[i].inp + n <= InCap
             /\ tasks' = [tasks EXCEPT ![i].inp = @ + n]
             /\ Goto(t, IF pc[t] = "inject1" THEN "collect1" ELSE "enter")
             /\ UNCHANGED <<call, reply>>
    <2>1. tasks[i] \in Task
      BY <1>1 DEF TypeInv, TypeOK
    <2>2. [tasks[i] EXCEPT !.inp = @ + n] \in Task
      BY <1>1, <1>3, <2>1, InjectType
    <2>3. tasks' \in [Runs -> Task]
      BY <1>3, <2>2 DEF TypeInv, TypeOK
    <2>4. call' = [call EXCEPT ![t] = call[t]] /\ call[t].ver \in Versions
      BY <1>3 DEF TypeInv, TypeOK, LocalsOK, Inject, Opening, Advancing
    <2>5. CallTypes' /\ Moved(t)
      <3> DEFINE label == IF pc[t] = "inject1" THEN "collect1" ELSE "enter"
      <3>1. label \in Labels \ {"collect", "remove", "join"}
        BY DEF Labels
      <3>2. Goto(t, label) /\ UNCHANGED reply
        BY <1>3
      <3> HIDE DEF label
      <3> QED
        BY <1>1, <2>4, <3>1, <3>2, GotoTypes
    <2> QED
      BY <2>3, <2>5 DEF Inject, TypeInv, TypeOK, CallTypes, Labels, Replies,
                    Moved, histVars
  <1> QED
    BY <1>2, <1>3 DEF Inject

LEMMA StayTypes ==
    ASSUME TypeInv, NEW t \in Threads, NEW label \in Labels \ {"collect", "join"},
           Goto(t, label), UNCHANGED <<call, reply>>, call[t].id \in Ids,
           label \in Opening \cup Advancing =>
               call[t].run \in Runs /\ call[t].ver \in Versions,
           label = "remove" => call[t].round = 0 \/ call[t].ver \in Versions
    PROVE  CallTypes' /\ Moved(t)
  <1>1. call' = [call EXCEPT ![t] = call[t]] /\ call[t] \in Call
    BY DEF TypeInv, TypeOK
  <1> QED
    BY <1>1, GotoTypes DEF Moved

LEMMA TypeCollect1 ==
    ASSUME TypeInv, NEW t \in Threads, Collect1(t)
    PROVE  TypeInv'
  <1> USE DEF histVars
  <1>1. /\ pc[t] = "collect1" /\ call[t].id \in Ids
        /\ call[t].run \in Runs /\ call[t].ver \in Versions
    BY DEF TypeInv, LocalsOK, Opening, Collect1
  <1>2. CASE /\ tasks' = [tasks EXCEPT ![call[t].run].out = 0]
             /\ Goto(t, "insert")
             /\ UNCHANGED <<call, reply>>
    <2>1. tasks' \in [Runs -> Task]
      BY <1>1, <1>2, DrainType
    <2>2. CallTypes' /\ Moved(t)
      BY <1>1, <1>2, StayTypes DEF Labels
    <2> QED
      BY <1>1, <2>1, <2>2
         DEF Collect1, TypeInv, TypeOK, CallTypes, Labels, Replies, Moved
  <1>3. CASE Return(t, "error") /\ UNCHANGED tasks
    <2>1. CallTypes' /\ Moved(t)
      BY <1>3, ReturnTypes DEF Replies, Moved
    <2> QED
      BY <1>1, <1>3, <2>1
         DEF Collect1, TypeInv, TypeOK, CallTypes, Labels, Replies, Moved
  <1> QED
    BY <1>2, <1>3 DEF Collect1

LEMMA TypeInsert ==
    ASSUME TypeInv, NEW t \in Threads, Insert(t)
    PROVE  TypeInv'
  <1>1. CallTypes' /\ Moved(t)
    BY ReturnTypes DEF Replies, Insert, Moved
  <1>2. call[t].run \in Runs /\ call[t].ver \in Versions
    BY DEF TypeInv, LocalsOK, Opening, Insert
  <1>3. sessions' \in [Ids -> Session \cup {None}]
    BY <1>2 DEF Insert, TypeInv, TypeOK, Session
  <1>4. births' \in Seq(Runs) /\ Len(births') = Len(births) + 1
    BY <1>2 DEF Insert, TypeInv, TypeOK
  <1>5. aged' \in 0..Len(births')
    BY <1>4 DEF Insert, TypeInv, TypeOK
  <1> QED
    BY <1>1, <1>3, <1>4, <1>5
       DEF Insert, TypeInv, TypeOK, CallTypes, Labels, Replies, Moved, histVars

LEMMA TypeLookup ==
    ASSUME TypeInv, NEW t \in Threads, Lookup(t)
    PROVE  TypeInv'
  <1> DEFINE s == call[t].id
  <1> USE DEF histVars
  <1>1. pc[t] = "lookup" /\ s \in Ids
    BY DEF TypeInv, LocalsOK, Lookup
  <1>2. CASE Return(t, "error") /\ UNCHANGED <<sessions, tasks>>
    <2>1. CallTypes' /\ Moved(t)
      BY <1>2, ReturnTypes DEF Replies, Moved
    <2> QED
      BY <1>1, <1>2, <2>1
         DEF Lookup, TypeInv, TypeOK, CallTypes, Labels, Replies, Moved
  <1>3. CASE /\ sessions[s] # None /\ Return(t, "error")
             /\ sessions' = [sessions EXCEPT ![s] = None]
             /\ tasks' = [tasks EXCEPT ![sessions[s].run].status =
                             IF @ = "running" THEN "failed" ELSE @]
    <2> DEFINE i == sessions[s].run
    <2>1. CallTypes' /\ Moved(t)
      BY <1>3, ReturnTypes DEF Replies, Moved
    <2>2. i \in Runs
      BY <1>1, <1>3 DEF TypeInv, TypeOK, Session
    <2>3. tasks' \in [Runs -> Task]
      <3>1. tasks[i] \in Task
        BY <2>2 DEF TypeInv, TypeOK
      <3>2. CASE tasks[i].status = "running"
        BY <1>3, <2>2, <3>2, StatusType DEF TypeInv, TypeOK
      <3>3. CASE tasks[i].status # "running"
        <4>1. tasks' = [tasks EXCEPT ![i].status = tasks[i].status]
          BY <1>3, <3>3
        <4>2. [tasks[i] EXCEPT !.status = tasks[i].status] \in Task
          BY <3>1 DEF Task
        <4> QED
          BY <2>2, <4>1, <4>2 DEF TypeInv, TypeOK
      <3> QED
        BY <3>2, <3>3
    <2>4. sessions' \in [Ids -> Session \cup {None}]
      BY <1>3 DEF TypeInv, TypeOK
    <2> QED
      BY <1>1, <2>1, <2>3, <2>4
         DEF Lookup, TypeInv, TypeOK, CallTypes, Labels, Replies, Moved
  <1>4. CASE /\ sessions[s] # None /\ Goto(t, "inject")
             /\ \E n \in Payload :
                   call' = [call EXCEPT ![t] =
                       [@ EXCEPT !.run = sessions[s].run, !.ver = sessions[s].ver,
                                 !.msgs = n]]
             /\ UNCHANGED <<sessions, tasks, reply>>
    <2> PICK n \in Payload :
               call' = [call EXCEPT ![t] =
                   [@ EXCEPT !.run = sessions[s].run, !.ver = sessions[s].ver,
                             !.msgs = n]]
      BY <1>4
    <2> DEFINE c == [call[t] EXCEPT !.run = sessions[s].run,
                                    !.ver = sessions[s].ver, !.msgs = n]
    <2>1. sessions[s].run \in Runs /\ sessions[s].ver \in Versions
      BY <1>1, <1>4 DEF TypeInv, TypeOK, Session
    <2>2. c \in Call /\ c.id \in Ids /\ c.run \in Runs /\ c.ver \in Versions
      <3>1. call[t] \in Call /\ n \in 0..1
        BY DklsAssumption DEF TypeInv, TypeOK
      <3> QED
        BY <1>1, <2>1, <3>1 DEF Call
    <2>3. call' = [call EXCEPT ![t] = c]
      OBVIOUS
    <2>4. Goto(t, "inject") /\ UNCHANGED reply
      BY <1>4
    <2> HIDE DEF c
    <2>5. "inject" \in Labels \ {"collect"}
      BY DEF Labels
    <2>6. CallTypes' /\ Moved(t)
      BY <2>2, <2>3, <2>4, <2>5, GotoTypes
    <2> QED
      BY <1>1, <1>4, <2>6
         DEF Lookup, TypeInv, TypeOK, CallTypes, Labels, Replies, Moved
  <1> QED
    BY <1>2, <1>3, <1>4 DEF Lookup, Expired

LEMMA TypeEnterLock ==
    ASSUME TypeInv, NEW t \in Threads, EnterLock(t)
    PROVE  TypeInv'
  <1> DEFINE s == call[t].id
  <1> USE DEF histVars
  <1>1. /\ pc[t] = "enter" /\ s \in Ids /\ lock = None
        /\ call[t].run \in Runs /\ call[t].ver \in Versions
    BY DEF TypeInv, LocalsOK, Advancing, EnterLock, Locked
  <1>2. CASE Return(t, "error") /\ UNCHANGED <<sessions, lock>>
    <2>1. CallTypes' /\ Moved(t)
      BY <1>2, ReturnTypes DEF Replies
    <2> QED
      BY <1>1, <1>2, <2>1
         DEF EnterLock, TypeInv, TypeOK, CallTypes, Labels, Replies, Moved
  <1>3. CASE /\ sessions[s] # None /\ lock' = t
             /\ call' = [call EXCEPT ![t].other = sessions[s].run]
             /\ sessions' = [sessions EXCEPT ![s].consumed = (Kind = "sign")]
             /\ Goto(t, "collect") /\ UNCHANGED reply
    <2>1. sessions[s] \in Session /\ call[t] \in Call
      BY <1>1, <1>3 DEF TypeInv, TypeOK
    <2>2. [sessions[s] EXCEPT !.consumed = (Kind = "sign")] \in Session
      BY <2>1 DEF Session
    <2>3. sessions' \in [Ids -> Session \cup {None}]
      BY <1>1, <1>3, <2>2 DEF TypeInv, TypeOK
    <2>4. sessions[s].run \in Runs
      BY <2>1 DEF Session
    <2>5. [call[t] EXCEPT !.other = sessions[s].run] \in Call
      BY <2>1, <2>4 DEF Call
    <2>6. call' \in [Threads -> Call]
      BY <1>3, <2>5 DEF TypeInv, TypeOK
    <2>7. pc' = [pc EXCEPT ![t] = "collect"]
      BY <1>3 DEF Goto
    <2>8. LocalsOK'
      BY <1>1, <1>3, <2>1, <2>4, <2>7
         DEF TypeInv, TypeOK, LocalsOK, Opening, Advancing, Call
    <2>9. \A u \in Threads : pc'[u] = "collect" <=> lock' = u
      BY <1>1, <1>3, <2>7, DklsAssumption DEF TypeInv, TypeOK
    <2> QED
      BY <1>1, <1>3, <2>3, <2>6, <2>7, <2>8, <2>9
         DEF EnterLock, TypeInv, TypeOK
  <1> QED
    BY <1>2, <1>3 DEF EnterLock

\* The map is unlocked by the thread that locked it.
LEMMA Unlocks ==
    ASSUME TypeInv, NEW t \in Threads, pc[t] = "collect", Moved(t), lock' = None
    PROVE  \A u \in Threads : pc'[u] = "collect" <=> lock' = u
  <1>1. lock = t /\ \A u \in Threads : u # t => pc[u] # "collect"
    BY DEF TypeInv, TypeOK
  <1>2. None \notin Threads
    BY DklsAssumption
  <1> QED
    BY <1>1, <1>2 DEF Moved

LEMMA TypeCollect ==
    ASSUME TypeInv, NEW t \in Threads, CollectSome(t) \/ CollectNone(t)
    PROVE  TypeInv'
  <1> USE DEF histVars
  <1>1. /\ pc[t] = "collect" /\ call[t].id \in Ids /\ call[t].other \in Runs
        /\ call[t].run \in Runs /\ call[t].ver \in Versions /\ lock' = None
    BY DEF TypeInv, LocalsOK, Advancing, CollectSome, CollectNone
  <1>2. tasks' \in [Runs -> Task]
    BY <1>1, DrainType DEF TypeInv, TypeOK, CollectSome, CollectNone
  <1>3. CallTypes' /\ Moved(t)
    <2>1. CASE CollectSome(t)
      <3>1. CASE Goto(t, "reset") /\ UNCHANGED <<call, reply>>
        BY <1>1, <3>1, StayTypes DEF Labels
      <3>2. CASE Return(t, "continue")
        BY <3>2, ReturnTypes DEF Replies
      <3> QED
        BY <2>1, <3>1, <3>2 DEF CollectSome
    <2>2. CASE CollectNone(t)
      BY <1>1, <2>2, StayTypes DEF CollectNone, Labels
    <2> QED
      BY <2>1, <2>2
  <1>4. \A u \in Threads : pc'[u] = "collect" <=> lock' = u
    BY <1>1, <1>3, Unlocks
  <1>5. UNCHANGED <<sessions, runs, calls, births, aged, histVars>>
    BY DEF CollectSome, CollectNone
  <1> QED
    BY <1>1, <1>2, <1>3, <1>4, <1>5
       DEF TypeInv, TypeOK, CallTypes, Labels, Replies

LEMMA TypeReset ==
    ASSUME TypeInv, NEW t \in Threads, Reset(t)
    PROVE  TypeInv'
  <1> DEFINE s == call[t].id
  <1> USE DEF histVars
  <1>1. pc[t] = "reset" /\ s \in Ids
    BY DEF TypeInv, LocalsOK, Advancing, Reset
  <1>2. CallTypes' /\ Moved(t)
    BY ReturnTypes DEF Reset, Replies
  <1>3. sessions' \in [Ids -> Session \cup {None}]
    <2>1. CASE sessions[s] = None
      BY <2>1 DEF Reset, TypeInv, TypeOK
    <2>2. CASE sessions[s] # None
      <3>1. sessions[s] \in Session
        BY <1>1, <2>2 DEF TypeInv, TypeOK
      <3>2. [sessions[s] EXCEPT !.consumed = FALSE] \in Session
        BY <3>1 DEF Session
      <3>3. sessions' = [sessions EXCEPT ![s].consumed = FALSE]
        BY <2>2 DEF Reset
      <3> QED
        BY <1>1, <3>2, <3>3 DEF TypeInv, TypeOK
    <2> QED
      BY <2>1, <2>2
  <1> QED
    BY <1>1, <1>2, <1>3
       DEF Reset, TypeInv, TypeOK, CallTypes, Labels, Replies, Moved

LEMMA TypeRemove ==
    ASSUME TypeInv, NEW t \in Threads, Remove(t)
    PROVE  TypeInv'
  <1> DEFINE s == call[t].id
  <1> USE DEF histVars
  <1>1. /\ pc[t] = "remove" /\ s \in Ids
        /\ call[t].round = 0 \/ call[t].ver \in Versions
    BY DEF TypeInv, LocalsOK, Remove
  <1>2. CASE Return(t, "error") /\ UNCHANGED sessions
    <2>1. CallTypes' /\ Moved(t)
      BY <1>2, ReturnTypes DEF Replies
    <2> QED
      BY <1>1, <1>2, <2>1
         DEF Remove, TypeInv, TypeOK, CallTypes, Labels, Replies, Moved
  <1> DEFINE c == [call[t] EXCEPT !.other = sessions[s].run,
                     !.ver = IF call[t].round = 0 THEN sessions[s].ver ELSE call[t].ver]
  <1>3. CASE /\ sessions[s] # None
             /\ sessions' = [sessions EXCEPT ![s] = None]
             /\ call' = [call EXCEPT ![t] = c]
             /\ Goto(t, "join") /\ UNCHANGED reply
    <2>1. /\ sessions[s].run \in Runs /\ sessions[s].ver \in Versions
          /\ call[t] \in Call
      BY <1>1, <1>3 DEF TypeInv, TypeOK, Session
    <2>2. c \in Call /\ c.id \in Ids /\ c.other \in Runs /\ c.ver \in Versions
      BY <1>1, <2>1 DEF Call
    <2>3. sessions' \in [Ids -> Session \cup {None}]
      BY <1>3 DEF TypeInv, TypeOK
    <2>4. "join" \in Labels \ {"collect"} /\ "join" \notin Opening \cup Advancing
      BY DEF Labels, Opening, Advancing
    <2> HIDE DEF c
    <2>5. CallTypes' /\ Moved(t)
      BY <1>3, <2>2, <2>4, GotoTypes
    <2> QED
      BY <1>1, <2>3, <2>5
         DEF Remove, TypeInv, TypeOK, CallTypes, Labels, Replies, Moved
  <1>4. \/ Return(t, "error") /\ UNCHANGED sessions
        \/ /\ sessions[s] # None
           /\ sessions' = [sessions EXCEPT ![s] = None]
           /\ call' = [call EXCEPT ![t] = c]
           /\ Goto(t, "join") /\ UNCHANGED reply
    BY DEF Remove
  <1> QED
    BY <1>2, <1>3, <1>4

LEMMA VersionType ==
    ASSUME NEW v \in Versions
    PROVE  NextVer(v) \in Versions \cup {1}
  BY DklsAssumption DEF NextVer, Versions

LEMMA TypeJoin ==
    ASSUME TypeInv, NEW t \in Threads, Join(t)
    PROVE  TypeInv'
  <1> DEFINE i == call[t].other
  <1> USE DEF histVars
  <1>1. /\ pc[t] = "join" /\ i \in Runs
        /\ call[t].id \in Ids /\ call[t].ver \in Versions
    BY DEF TypeInv, LocalsOK, Join
  <1>2. CallTypes' /\ Moved(t)
    BY ReturnTypes DEF Join, Replies
  <1>3. /\ completed' \in [Runs -> Nat]
        /\ results' \subseteq [run : Runs, id : Ids, ver : Versions \cup {1}]
    <2>1. CASE tasks[i].status = "done"
      <3>1. /\ completed' = [completed EXCEPT ![i] = @ + 1]
            /\ results' = results \cup
                  {[run |-> i, id |-> call[t].id, ver |-> NextVer(call[t].ver)]}
        BY <2>1 DEF Join
      <3>2. NextVer(call[t].ver) \in Versions \cup {1}
        BY <1>1, VersionType
      <3> QED
        BY <1>1, <3>1, <3>2 DEF TypeInv, TypeOK
    <2>2. CASE tasks[i].status # "done"
      BY <2>2 DEF Join, TypeInv, TypeOK
    <2> QED
      BY <2>1, <2>2
  <1> QED
    BY <1>1, <1>2, <1>3
       DEF Join, TypeInv, TypeOK, CallTypes, Labels, Replies, Moved

LEMMA TypeNext == TypeInv /\ [Next]_vars => TypeInv'
  <1> SUFFICES ASSUME TypeInv, [Next]_vars PROVE TypeInv'
    OBVIOUS
  <1>1. CASE \E i \in Runs : TaskStep(i)
    BY <1>1, TypeTask
  <1>2. ASSUME NEW t \in Threads, NEW s \in Ids,
               \/ \E v \in Versions, n \in Payload : CallRound1(t, s, v, n)
               \/ CallAdvance(t, s)
               \/ CallCollect(t, s)
        PROVE  TypeInv'
    BY <1>2, TypeCall
  <1>3. ASSUME NEW t \in Threads, Step(t) PROVE TypeInv'
    BY <1>3, TypeInject, TypeCollect1, TypeInsert, TypeLookup, TypeEnterLock,
       TypeCollect, TypeReset, TypeRemove, TypeJoin DEF Step
  <1>4. CASE Age
    <2>1. aged' \in 0..Len(births)
      BY <1>4 DEF Age, TypeInv, TypeOK
    <2> QED
      BY <1>4, <2>1 DEF Age, TypeInv, TypeOK, LocalsOK, callVars, histVars
  <1>5. CASE UNCHANGED vars
    BY <1>5 DEF vars, TypeInv, TypeOK, LocalsOK, callVars, histVars
  <1> QED
    BY <1>1, <1>2, <1>3, <1>4, <1>5 DEF Next

\* The variables of DklsSessions stay within their types (TypeOK), whatever
\* keygen, recover and sign do and however their calls overlap; the thread in
\* collect_batch is the one that has the map locked.
THEOREM TypeCorrect == Spec => []TypeOK
  <1>1. TypeInv => TypeOK
    BY DEF TypeInv
  <1> QED
    BY TypeInit, TypeNext, <1>1, PTL DEF Spec

-----------------------------------------------------------------------------
(* A task is joined once.                                                  *)

LEMMA HandlesInit == Init => Handles
  BY DEF Init, Handles, OneEntry, OneHolder, EntryOrHolder, HandlesUnused,
         LaterRunsNew, CompletesOnce, Stored, Holds, Opening

\* A step that puts no handle anywhere.
LEMMA HandlesStay ==
    ASSUME Handles, UNCHANGED <<runs, completed>>,
           \A i \in Runs : /\ \A s \in Ids : Stored(s, i)' => Stored(s, i)
                          /\ \A t \in Threads : Holds(t, i)' => Holds(t, i)
    PROVE  Handles'
  <1>1. OneEntry' /\ OneHolder' /\ EntryOrHolder'
    BY DEF Handles, OneEntry, OneHolder, EntryOrHolder
  <1>2. HandlesUnused'
    BY DEF Handles, HandlesUnused, Unused
  <1>3. LaterRunsNew' /\ CompletesOnce'
    BY DEF Handles, LaterRunsNew, CompletesOnce
  <1> QED
    BY <1>1, <1>2, <1>3 DEF Handles
\* What a step of thread t does with the handles: it holds none afterwards, or
\* none it did not hold, and the map has no new entry.
Empties(t) == \A u \in Threads, i \in Runs : Holds(u, i)' => u # t /\ Holds(u, i)
NoNewHolder == \A u \in Threads, i \in Runs : Holds(u, i)' => Holds(u, i)
NoNewEntry == \A s \in Ids, i \in Runs : Stored(s, i)' => Stored(s, i)

LEMMA Quiet ==
    ASSUME Handles, UNCHANGED <<runs, completed>>, NoNewHolder, NoNewEntry
    PROVE  Handles'
  BY HandlesStay DEF NoNewHolder, NoNewEntry

LEMMA GotoEmpties ==
    ASSUME TypeInv, NEW t \in Threads, NEW label, Goto(t, label),
           label \notin Opening \cup {"join"},
           \A u \in Threads : u # t => call'[u] = call[u]
    PROVE  Empties(t) /\ NoNewHolder
  <1>1. pc'[t] = label /\ \A u \in Threads : u # t => pc'[u] = pc[u]
    BY DEF TypeInv, TypeOK, Goto
  <1>2. Empties(t)
    BY <1>1 DEF Empties, Holds
  <1> QED
    BY <1>2 DEF Empties, NoNewHolder

LEMMA ReturnEmpties ==
    ASSUME TypeInv, NEW t \in Threads, NEW r, Return(t, r)
    PROVE  Empties(t) /\ NoNewHolder
  <1>1. Goto(t, "idle") /\ \A u \in Threads : u # t => call'[u] = call[u]
    BY DEF Return, TypeInv, TypeOK
  <1> QED
    BY <1>1, GotoEmpties DEF Opening

\* A session whose run is kept, or that is removed, is no new entry.
LEMMA SameEntries ==
    ASSUME TypeInv, NEW s, NEW new,
           sessions' = [sessions EXCEPT ![s] = new],
           new # None => sessions[s] # None /\ new.run = sessions[s].run
    PROVE  NoNewEntry
  BY DEF TypeInv, TypeOK, NoNewEntry, Stored

LEMMA HandlesTask ==
    ASSUME Inv, NEW i \in Runs, TaskStep(i)
    PROVE  Handles'
  <1>1. TaskVarsOnly
    BY DEF TaskStep, TaskStart, TaskRecv, TaskReject, TaskClosed
  <1>2. UNCHANGED <<sessions, pc, call, runs, completed>>
    BY <1>1 DEF TaskVarsOnly, callVars, histVars
  <1>3. NoNewHolder /\ NoNewEntry
    BY <1>2 DEF NoNewHolder, NoNewEntry, Holds, Stored
  <1> QED
    BY <1>2, <1>3, Quiet DEF Inv

\* Calls that open no session.
LEMMA HandlesCall ==
    ASSUME Inv, NEW t \in Threads, NEW s \in Ids,
           CallAdvance(t, s) \/ CallCollect(t, s)
    PROVE  Handles'
  <1>1. /\ \E label \in {"lookup", "remove"} : Goto(t, label)
        /\ \A u \in Threads : u # t => call'[u] = call[u]
        /\ UNCHANGED <<sessions, runs, completed>>
    BY DEF CallAdvance, CallCollect, Enter, Inv, TypeInv, TypeOK
  <1>2. NoNewHolder
    BY <1>1, GotoEmpties DEF Inv, Opening
  <1>3. NoNewEntry
    BY <1>1 DEF NoNewEntry, Stored
  <1> QED
    BY <1>1, <1>2, <1>3, Quiet DEF Inv

\* A new run is held by the call that opens it, and by nobody else.
LEMMA HandlesRound1 ==
    ASSUME Inv, NEW t \in Threads, NEW s \in Ids, NEW v \in Versions,
           NEW n \in Payload, CallRound1(t, s, v, n)
    PROVE  Handles'
  <1> runs + 1 \in Runs
    BY DklsAssumption DEF Inv, TypeInv, TypeOK, CallRound1, Runs
  <1> PICK new \in Runs : new = runs + 1
    OBVIOUS
  <1>1. /\ runs' = new /\ runs \in Nat
        /\ UNCHANGED <<sessions, completed>>
    BY DklsAssumption DEF Inv, TypeInv, TypeOK, CallRound1, Enter
  <1>2. /\ pc' = [pc EXCEPT ![t] = "inject1"]
        /\ call'[t].run = new
        /\ \A u \in Threads : u # t => call'[u] = call[u]
    BY DEF Inv, TypeInv, TypeOK, CallRound1, Enter, Goto
  <1>3. \A u \in Threads, i \in Runs :
           Holds(u, i)' => IF u = t THEN i = new ELSE Holds(u, i)
    BY <1>2 DEF Holds, Inv, TypeInv, TypeOK
  <1>4. \A i \in Runs, r \in Ids : Stored(r, i)' <=> Stored(r, i)
    BY <1>1 DEF Stored
  <1>5. /\ \A r \in Ids : ~Stored(r, new)
        /\ \A u \in Threads : ~Holds(u, new)
        /\ completed[new] = 0
    BY <1>1 DEF Inv, Handles, HandlesUnused, LaterRunsNew, Unused
  <1>6. OneEntry'
    BY <1>4 DEF Inv, Handles, OneEntry
  <1>7. OneHolder' /\ EntryOrHolder'
    BY <1>3, <1>4, <1>5 DEF Inv, Handles, OneHolder, EntryOrHolder
  <1>8. HandlesUnused'
    <2>1. \A i \in Runs : Unused(i) => Unused(i)'
      BY <1>1 DEF Unused, Runs
    <2>2. Unused(new)'
      BY <1>1, <1>5 DEF Unused
    <2> QED
      BY <1>3, <1>4, <2>1, <2>2 DEF Inv, Handles, HandlesUnused
  <1>9. LaterRunsNew' /\ CompletesOnce'
    BY <1>1 DEF Inv, Handles, LaterRunsNew, CompletesOnce, Runs
  <1> QED
    BY <1>6, <1>7, <1>8, <1>9 DEF Handles

\* The steps of a call that put no handle anywhere.
LEMMA HandlesOpening ==
    ASSUME Inv, NEW t \in Threads, Inject(t) \/ Collect1(t)
    PROVE  Handles'
  <1>1. UNCHANGED <<sessions, runs, completed>>
    BY DEF Inject, Collect1, histVars
  <1>2. NoNewHolder
    <2>1. CASE \E r \in Replies : Return(t, r)
      BY <2>1, ReturnEmpties DEF Inv
    <2>2. CASE /\ pc[t] \in Opening \/ pc[t] = "inject"
               /\ Goto(t, IF pc[t] \in Opening
                          THEN IF pc[t] = "inject1" THEN "collect1" ELSE "insert"
                          ELSE "enter")
               /\ UNCHANGED call
      BY <2>2 DEF NoNewHolder, Holds, Goto, Opening, Inv, TypeInv, TypeOK
    <2> QED
      BY <2>1, <2>2 DEF Inject, Collect1, Opening, Replies
  <1>3. NoNewEntry
    BY <1>1 DEF NoNewEntry, Stored
  <1> QED
    BY <1>1, <1>2, <1>3, Quiet DEF Inv

LEMMA HandlesAdvancing ==
    ASSUME Inv, NEW t \in Threads,
           \/ Lookup(t) \/ EnterLock(t) \/ CollectSome(t) \/ CollectNone(t)
           \/ Reset(t)
    PROVE  Handles'
  <1> DEFINE s == call[t].id
  <1>1. UNCHANGED <<runs, completed>>
    BY DEF Lookup, EnterLock, CollectSome, CollectNone, Reset, histVars
  <1>2. NoNewHolder
    <2>1. CASE \E r \in Replies : Return(t, r)
      BY <2>1, ReturnEmpties DEF Inv
    <2>2. CASE /\ \E label \in {"inject", "collect", "reset", "remove"} : Goto(t, label)
               /\ \A u \in Threads : u # t => call'[u] = call[u]
      BY <2>2, GotoEmpties DEF Inv, Opening
    <2>3. CASE Lookup(t)
      BY <2>1, <2>2, <2>3 DEF Lookup, Replies, Inv, TypeInv, TypeOK
    <2>4. CASE EnterLock(t)
      BY <2>1, <2>2, <2>4 DEF EnterLock, Replies, Inv, TypeInv, TypeOK
    <2>5. CASE CollectSome(t) \/ CollectNone(t) \/ Reset(t)
      BY <2>1, <2>2, <2>5 DEF CollectSome, CollectNone, Reset, Replies
    <2> QED
      BY <2>3, <2>4, <2>5
  <1>3. NoNewEntry
    <2>1. CASE UNCHANGED sessions
      BY <2>1 DEF NoNewEntry, Stored
    <2>2. CASE sessions' = [sessions EXCEPT ![s] = None]
      BY <2>2, SameEntries DEF Inv
    <2>3. CASE \E b : /\ sessions[s] # None
                      /\ sessions' = [sessions EXCEPT ![s].consumed = b]
      <3>1. PICK b : /\ sessions[s] # None
                     /\ sessions' = [sessions EXCEPT ![s].consumed = b]
        BY <2>3
      <3>2. s \in Ids => [sessions[s] EXCEPT !.consumed = b].run = sessions[s].run
        BY <3>1 DEF Inv, TypeInv, TypeOK, Session
      <3> QED
        BY <3>1, <3>2 DEF NoNewEntry, Stored, Inv, TypeInv, TypeOK
    <2> QED
      BY <2>1, <2>2, <2>3
         DEF Lookup, EnterLock, CollectSome, CollectNone, Reset
  <1> QED
    BY <1>1, <1>2, <1>3, Quiet DEF Inv

\* The call that opened a session puts its handle into the map.
LEMMA HandlesInsert ==
    ASSUME Inv, NEW t \in Threads, Insert(t)
    PROVE  Handles'
  <1>0. call[t].id \in Ids /\ call[t].run \in Runs
    BY DEF Inv, TypeInv, LocalsOK, Insert, Opening
  <1> PICK s \in Ids, i \in Runs : s = call[t].id /\ i = call[t].run
    BY <1>0
  <1>1. Holds(t, i) /\ UNCHANGED <<runs, completed>>
    BY DEF Insert, Opening, Holds, histVars
  <1>2. Empties(t)
    BY ReturnEmpties DEF Inv, Insert
  <1>3. \A r \in Ids, j \in Runs :
           Stored(r, j)' => IF r = s THEN j = i ELSE Stored(r, j)
    BY <1>1 DEF Insert, Stored, Inv, TypeInv, TypeOK
  <1>4. \A r \in Ids : ~Stored(r, i)
    BY <1>1 DEF Inv, Handles, EntryOrHolder
  <1>5. \A u \in Threads : ~Holds(u, i)'
    BY <1>1, <1>2 DEF Empties, Inv, Handles, OneHolder
  <1>6. OneEntry'
    BY <1>3, <1>4 DEF Inv, Handles, OneEntry
  <1>7. OneHolder'
    BY <1>2 DEF Empties, Inv, Handles, OneHolder
  <1>8. EntryOrHolder'
    BY <1>2, <1>3, <1>5 DEF Empties, Inv, Handles, EntryOrHolder
  <1>9. HandlesUnused'
    BY <1>1, <1>2, <1>3 DEF Empties, Inv, Handles, HandlesUnused, Unused
  <1>10. LaterRunsNew' /\ CompletesOnce'
    BY <1>1 DEF Inv, Handles, LaterRunsNew, CompletesOnce
  <1> QED
    BY <1>6, <1>7, <1>8, <1>9, <1>10 DEF Handles

\* A call takes the handle out of the map, to join it.
LEMMA HandlesRemove ==
    ASSUME Inv, NEW t \in Threads, Remove(t)
    PROVE  Handles'
  <1>0. call[t].id \in Ids
    BY DEF Inv, TypeInv, LocalsOK, Remove
  <1> PICK s \in Ids : s = call[t].id
    BY <1>0
  <1>1. UNCHANGED <<runs, completed>>
    BY DEF Remove, histVars
  <1>2. CASE Return(t, "error") /\ UNCHANGED sessions
    <2>1. NoNewHolder
      BY <1>2, ReturnEmpties DEF Inv
    <2>2. NoNewEntry
      BY <1>2 DEF NoNewEntry, Stored
    <2> QED
      BY <1>1, <2>1, <2>2, Quiet DEF Inv
  <1>3. CASE /\ sessions[s] # None
             /\ sessions' = [sessions EXCEPT ![s] = None]
             /\ call'[t].other = sessions[s].run
             /\ \A u \in Threads : u # t => call'[u] = call[u]
             /\ Goto(t, "join")
    <2>0. sessions[s].run \in Runs
      BY <1>3 DEF Inv, TypeInv, TypeOK, Session
    <2> PICK i \in Runs : i = sessions[s].run
      BY <2>0
    <2>1. Stored(s, i)
      BY <1>3 DEF Stored
    <2>3. pc' = [pc EXCEPT ![t] = "join"] /\ t \in DOMAIN pc
      BY <1>3 DEF Goto, Inv, TypeInv, TypeOK
    <2>4. \A u \in Threads, j \in Runs :
             Holds(u, j)' => IF u = t THEN j = i ELSE Holds(u, j)
      BY <1>3, <2>3 DEF Holds, Opening
    <2>5. \A r \in Ids, j \in Runs : Stored(r, j)' => r # s /\ Stored(r, j)
      BY <1>3, <2>1 DEF Stored, Inv, TypeInv, TypeOK
    <2>6. \A r \in Ids : ~Stored(r, i)'
      BY <2>1, <2>5 DEF Inv, Handles, OneEntry
    <2>7. \A u \in Threads : ~Holds(u, i)
      BY <2>1 DEF Inv, Handles, EntryOrHolder
    <2>8. OneEntry'
      BY <2>5 DEF Inv, Handles, OneEntry
    <2>9. OneHolder'
      BY <2>4, <2>7 DEF Inv, Handles, OneHolder
    <2>10. EntryOrHolder'
      BY <2>4, <2>5, <2>6 DEF Inv, Handles, EntryOrHolder
    <2>11. HandlesUnused'
      BY <1>1, <2>1, <2>4, <2>5 DEF Inv, Handles, HandlesUnused, Unused
    <2>12. LaterRunsNew' /\ CompletesOnce'
      BY <1>1 DEF Inv, Handles, LaterRunsNew, CompletesOnce
    <2> QED
      BY <2>8, <2>9, <2>10, <2>11, <2>12 DEF Handles
  <1>4. CASE sessions[s] # None /\ Goto(t, "join")
    <2>1. call[t] \in Call /\ t \in DOMAIN call
      BY DEF Inv, TypeInv, TypeOK
    <2>2. [call[t] EXCEPT !.other = sessions[s].run,
                          !.ver = IF call[t].round = 0 THEN sessions[s].ver
                                                       ELSE call[t].ver].other
             = sessions[s].run
      BY <2>1 DEF Call
    <2> QED
      BY <1>3, <1>4, <2>1, <2>2 DEF Remove, Goto, Return, Inv, TypeInv, TypeOK
  <1> QED
    BY <1>2, <1>4 DEF Remove

\* The join uses the handle up.
LEMMA HandlesJoin ==
    ASSUME Inv, NEW t \in Threads, Join(t)
    PROVE  Handles'
  <1>0. call[t].other \in Runs
    BY DEF Inv, TypeInv, LocalsOK, Join
  <1> PICK i \in Runs : i = call[t].other
    BY <1>0
  <1>1. Holds(t, i) /\ Unused(i) /\ UNCHANGED <<sessions, runs>>
    BY DEF Inv, Join, Holds, Handles, HandlesUnused
  <1>2. Empties(t) /\ NoNewHolder
    BY ReturnEmpties DEF Inv, Join
  <1>3. NoNewEntry
    BY <1>1 DEF NoNewEntry, Stored
  <1>4. CASE UNCHANGED completed
    BY <1>1, <1>2, <1>3, <1>4, Quiet DEF Inv
  <1>5. CASE completed' = [completed EXCEPT ![i] = @ + 1]
    <2>1. /\ \A r \in Ids : ~Stored(r, i)'
          /\ \A u \in Threads : ~Holds(u, i)'
      BY <1>1, <1>2, <1>3
         DEF Empties, NoNewEntry, Inv, Handles, OneHolder, EntryOrHolder
    <2>2. OneEntry' /\ OneHolder' /\ EntryOrHolder'
      BY <1>2, <1>3 DEF NoNewHolder, NoNewEntry, Inv, Handles, OneEntry,
                        OneHolder, EntryOrHolder
    <2>3. completed'[i] = 1 /\ \A j \in Runs : j # i => completed'[j] = completed[j]
      BY <1>1, <1>5 DEF Unused, Inv, TypeInv, TypeOK
    <2>4. HandlesUnused'
      BY <1>1, <1>2, <1>3, <2>1, <2>3
         DEF NoNewHolder, NoNewEntry, Inv, Handles, HandlesUnused, Unused
    <2>5. LaterRunsNew'
      <3>1. runs \in Nat
        BY DklsAssumption DEF Inv, TypeInv, TypeOK
      <3> QED
        BY <1>1, <2>3, <3>1 DEF Inv, Handles, LaterRunsNew, Unused, Runs
    <2>6. CompletesOnce'
      BY <2>3 DEF Inv, Handles, CompletesOnce
    <2> QED
      BY <2>2, <2>4, <2>5, <2>6 DEF Handles
  <1> QED
    BY <1>4, <1>5 DEF Join

LEMMA HandlesNext == Inv /\ [Next]_vars => Handles'
  <1> SUFFICES ASSUME Inv, [Next]_vars PROVE Handles'
    OBVIOUS
  <1>1. CASE \E i \in Runs : TaskStep(i)
    BY <1>1, HandlesTask
  <1>2. ASSUME NEW t \in Threads, NEW s \in Ids,
               \/ \E v \in Versions, n \in Payload : CallRound1(t, s, v, n)
               \/ CallAdvance(t, s)
               \/ CallCollect(t, s)
        PROVE  Handles'
    BY <1>2, HandlesRound1, HandlesCall
  <1>3. ASSUME NEW t \in Threads, Step(t) PROVE Handles'
    BY <1>3, HandlesOpening, HandlesAdvancing, HandlesInsert, HandlesRemove,
       HandlesJoin DEF Step
  <1>4. CASE Age \/ UNCHANGED vars
    <2>1. UNCHANGED <<sessions, pc, call, runs, completed>>
      BY <1>4 DEF Age, vars, callVars, histVars
    <2>2. NoNewHolder /\ NoNewEntry
      BY <2>1 DEF NoNewHolder, NoNewEntry, Holds, Stored
    <2> QED
      BY <2>1, <2>2, Quiet DEF Inv
  <1> QED
    BY <1>1, <1>2, <1>3, <1>4 DEF Next

\* The task_handle of a run is joined by at most one call (CompletesOnce),
\* though later rounds and round 0 of one session may overlap and each first
\* looks the session up: it is in the map, or with one call, or used up.
THEOREM RunCompletesOnce == Spec => []CompletesOnce
  <1>1. Init => Inv
    BY TypeInit, HandlesInit DEF Inv
  <1>2. Inv /\ [Next]_vars => Inv'
    BY TypeNext, HandlesNext DEF Inv
  <1>3. Inv => CompletesOnce
    BY DEF Inv, Handles
  <1> QED
    BY <1>1, <1>2, <1>3, PTL DEF Spec

-----------------------------------------------------------------------------
(* The flag consumed.                                                      *)

\* A step of a call changes its own thread and the entries of its own id.
Local(t) ==
    /\ \A u \in Threads : u # t => pc'[u] = pc[u] /\ call'[u] = call[u]
    /\ \A s \in Ids : s # call[t].id => sessions'[s] = sessions[s] /\ reply'[s] = reply[s]
    /\ pc[t] # "idle" /\ call[t].id \in Ids

LEMMA StepIsLocal ==
    ASSUME TypeInv, NEW t \in Threads, Step(t)
    PROVE  Local(t)
  <1> USE DEF TypeInv, TypeOK, LocalsOK, Local, Return, Goto
  <1>1. CASE Inject(t) \/ Collect1(t)
    BY <1>1 DEF Inject, Collect1
  <1>2. CASE Insert(t)
    BY <1>2 DEF Insert
  <1>3. CASE Lookup(t)
    BY <1>3 DEF Lookup
  <1>4. CASE EnterLock(t)
    BY <1>4 DEF EnterLock
  <1>5. CASE CollectSome(t) \/ CollectNone(t)
    BY <1>5 DEF CollectSome, CollectNone
  <1>6. CASE Reset(t)
    BY <1>6 DEF Reset
  <1>7. CASE Remove(t)
    BY <1>7 DEF Remove
  <1>8. CASE Join(t)
    BY <1>8 DEF Join
  <1> QED
    BY <1>1, <1>2, <1>3, <1>4, <1>5, <1>6, <1>7, <1>8 DEF Step

Flagging == {"collect", "reset", "remove"}

Flags ==
    \A s \in Ids : sessions[s] # None /\ sessions[s].consumed =>
        /\ Kind = "sign"
        /\ \E t \in Threads : call[t].id = s /\ pc[t] \in Flagging

\* A step that leaves no flag without its call.
LEMMA FlagsOn ==
    ASSUME Flags, NEW t \in Threads, Local(t), NEW s \in Ids, s = call[t].id,
           \/ sessions'[s] = None
           \/ ~sessions'[s].consumed
           \/ Kind = "sign" /\ pc'[t] \in Flagging /\ call'[t].id = s
           \/ sessions'[s] = sessions[s] /\ (pc[t] \notin Flagging \/ Kind # "sign")
    PROVE  Flags'
  <1> SUFFICES ASSUME NEW r \in Ids, sessions'[r] # None, sessions'[r].consumed
               PROVE  /\ Kind = "sign"
                      /\ \E u \in Threads : call'[u].id = r /\ pc'[u] \in Flagging
    BY DEF Flags
  <1>1. CASE r # s
    <2>1. sessions'[r] = sessions[r]
      BY <1>1 DEF Local
    <2>2. PICK u \in Threads : call[u].id = r /\ pc[u] \in Flagging
      BY <2>1 DEF Flags
    <2> QED
      BY <1>1, <2>1, <2>2 DEF Flags, Local
  <1>2. CASE r = s
    <2>1. CASE Kind = "sign" /\ pc'[t] \in Flagging /\ call'[t].id = s
      BY <1>2, <2>1
    <2>2. CASE sessions'[s] = sessions[s] /\ (pc[t] \notin Flagging \/ Kind # "sign")
      <3>1. PICK u \in Threads : call[u].id = r /\ pc[u] \in Flagging
        BY <1>2, <2>2 DEF Flags
      <3> QED
        BY <1>2, <2>2, <3>1 DEF Flags, Local
    <2> QED
      BY <1>2, <2>1, <2>2
  <1> QED
    BY <1>1, <1>2

LEMMA FlagsStep ==
    ASSUME TypeInv, Flags, NEW t \in Threads, Step(t)
    PROVE  Flags'
  <1>1. Local(t)
    BY StepIsLocal
  <1>2. PICK s \in Ids : s = call[t].id
    BY <1>1 DEF Local
  <1> USE DEF TypeInv, TypeOK
  <1>3. CASE Inject(t) \/ Collect1(t) \/ Join(t)
    BY <1>1, <1>2, <1>3, FlagsOn DEF Inject, Collect1, Join, Flagging
  <1>4. CASE Insert(t)
    <2>1. ~sessions'[s].consumed
      BY <1>2, <1>4 DEF Insert
    <2> QED
      BY <1>1, <1>2, <2>1, FlagsOn
  <1>5. CASE Lookup(t)
    <2>1. pc[t] \notin Flagging /\ (sessions'[s] = sessions[s] \/ sessions'[s] = None)
      BY <1>2, <1>5 DEF Lookup, Flagging
    <2> QED
      BY <1>1, <1>2, <2>1, FlagsOn
  <1>6. CASE EnterLock(t)
    <2>1. CASE sessions' = sessions
      BY <1>1, <1>2, <1>6, <2>1, FlagsOn DEF EnterLock, Flagging
    <2>2. CASE /\ sessions[s] # None
               /\ call' = [call EXCEPT ![t].other = sessions[s].run]
               /\ sessions' = [sessions EXCEPT ![s].consumed = (Kind = "sign")]
               /\ Goto(t, "collect")
      <3>1. pc'[t] \in Flagging /\ call'[t].id = s
        BY <1>2, <2>2 DEF Goto, Flagging, Call
      <3>2. sessions[s] \in Session
        BY <2>2
      <3>3. sessions'[s] = [sessions[s] EXCEPT !.consumed = (Kind = "sign")]
        BY <2>2
      <3>4. sessions'[s].consumed => Kind = "sign"
        BY <3>2, <3>3 DEF Session
      <3> QED
        BY <1>1, <1>2, <3>1, <3>4, FlagsOn
    <2> QED
      BY <1>2, <1>6, <2>1, <2>2 DEF EnterLock
  <1>7. CASE CollectSome(t)
    <2>1. sessions' = sessions
      BY <1>7 DEF CollectSome
    <2>2. Kind = "sign" => pc'[t] \in Flagging /\ call'[t].id = s
      BY <1>2, <1>7 DEF CollectSome, Goto, Flagging
    <2> QED
      BY <1>1, <1>2, <2>1, <2>2, FlagsOn
  <1>8. CASE CollectNone(t)
    <2>1. sessions' = sessions /\ pc'[t] \in Flagging /\ call'[t].id = s
      BY <1>2, <1>8 DEF CollectNone, Goto, Flagging
    <2> QED
      BY <1>1, <1>2, <2>1, FlagsOn
  <1>9. CASE Reset(t)
    <2>1. sessions'[s] = None \/ ~sessions'[s].consumed
      BY <1>2, <1>9 DEF Reset, Session
    <2> QED
      BY <1>1, <1>2, <2>1, FlagsOn
  <1>10. CASE Remove(t)
    <2>1. sessions'[s] = None
      BY <1>2, <1>10 DEF Remove
    <2> QED
      BY <1>1, <1>2, <2>1, FlagsOn
  <1> QED
    BY <1>3, <1>4, <1>5, <1>6, <1>7, <1>8, <1>9, <1>10 DEF Step

LEMMA FlagsNext == TypeInv /\ Flags /\ [Next]_vars => Flags'
  <1> SUFFICES ASSUME TypeInv, Flags, [Next]_vars PROVE Flags'
    OBVIOUS
  <1>1. ASSUME NEW t \in Threads, NEW s \in Ids,
               \/ \E v \in Versions, n \in Payload : CallRound1(t, s, v, n)
               \/ CallAdvance(t, s)
               \/ CallCollect(t, s)
        PROVE  Flags'
    <2>1. /\ pc[t] = "idle" /\ UNCHANGED sessions
          /\ \A u \in Threads : u # t => pc'[u] = pc[u] /\ call'[u] = call[u]
      BY <1>1 DEF CallRound1, CallAdvance, CallCollect, Enter, Goto, TypeInv, TypeOK
    <2> QED
      BY <2>1 DEF Flags, Flagging
  <1>2. ASSUME NEW t \in Threads, Step(t) PROVE Flags'
    BY <1>2, FlagsStep
  <1>3. CASE (\E i \in Runs : TaskStep(i)) \/ Age \/ UNCHANGED vars
    <2>1. UNCHANGED <<sessions, pc, call>>
      BY <1>3 DEF TaskStep, TaskStart, TaskRecv, TaskReject, TaskClosed, TaskVarsOnly, Age,
                  vars, callVars
    <2> QED
      BY <2>1 DEF Flags
  <1> QED
    BY <1>1, <1>2, <1>3 DEF Next

\* The flag of a sign session is set only while the call that set it, or one
\* that overlaps it, still has to reset it or to remove the session
\* (ConsumedNeverSticks).
THEOREM FlagHasItsCall == Spec => []ConsumedNeverSticks
  <1>1. Init => TypeInv /\ Flags
    BY TypeInit DEF Init, Flags
  <1>2. TypeInv /\ Flags /\ [Next]_vars => (TypeInv /\ Flags)'
    BY TypeNext, FlagsNext
  <1>3. Flags => ConsumedNeverSticks
    BY DEF Flags, Flagging, ConsumedNeverSticks
  <1> QED
    BY <1>1, <1>2, <1>3, PTL DEF Spec

-----------------------------------------------------------------------------
(* A host that does not overlap calls of one id.                           *)

\* Run i was started for id s with version v.
Started(i, s, v) ==
    i \in Runs /\ asked[i] # None /\ asked[i].id = s /\ asked[i].ver = v

OneCall == \A t, u \in Threads : t # u /\ call[t].id = call[u].id => call[t].id = None

StoredOK == \A s \in Ids : sessions[s] # None =>
                Started(sessions[s].run, s, sessions[s].ver)

\* A later round has the version of the session it finds; a call that joins has
\* left no session behind.
CallOK(t) ==
    /\ pc[t] \in Opening => Started(call[t].run, call[t].id, call[t].ver)
    /\ /\ pc[t] \in Advancing \/ (pc[t] = "remove" /\ call[t].round # 0)
       /\ sessions[call[t].id] # None
       => sessions[call[t].id].ver = call[t].ver
    /\ pc[t] = "join" => /\ Started(call[t].other, call[t].id, call[t].ver)
                         /\ sessions[call[t].id] = None

ResultsOK == \A r \in results : /\ r.run \in Runs /\ asked[r.run] # None
                                /\ r.id = asked[r.run].id
                                /\ r.ver = NextVer(asked[r.run].ver)

DoneOK == \A s \in Ids : reply[s] = "completed" => sessions[s] = None

RunsAsked == \A i \in Runs : i > runs => asked[i] = None

Serial == /\ OneCall /\ StoredOK /\ (\A t \in Threads : CallOK(t))
          /\ ResultsOK /\ DoneOK /\ RunsAsked

LEMMA SerialInit == Init => Serial
  BY DEF Init, Serial, OneCall, StoredOK, CallOK, ResultsOK, DoneOK, RunsAsked,
         Opening, Advancing, NoCall

\* It is enough to look at the thread that steps and its id.
LEMMA SerialOn ==
    ASSUME TypeInv, Serial, NEW t \in Threads, Local(t), NEW s \in Ids, s = call[t].id,
           UNCHANGED <<asked, runs>>, call'[t].id \in {s, None},
           sessions'[s] # None => Started(sessions'[s].run, s, sessions'[s].ver),
           CallOK(t)', ResultsOK', reply'[s] = "completed" => sessions'[s] = None
    PROVE  Serial'
  <1>1. OneCall'
    BY DEF Serial, OneCall, Local
  <1>2. StoredOK'
    <2> SUFFICES ASSUME NEW r \in Ids, sessions'[r] # None
                 PROVE  Started(sessions[r].run, r, sessions[r].ver)'
      BY DEF StoredOK
    <2>1. CASE r = s
      BY <2>1 DEF Started
    <2>2. CASE r # s
      BY <2>2 DEF Started, Serial, StoredOK, Local
    <2> QED
      BY <2>1, <2>2
  <1>3. ASSUME NEW u \in Threads, u # t PROVE CallOK(u)'
    <2>1. pc'[u] = pc[u] /\ call'[u] = call[u] /\ CallOK(u)
      BY <1>3 DEF Local, Serial
    <2>2. CASE pc[u] = "idle"
      BY <2>1, <2>2 DEF CallOK, Opening, Advancing
    <2>3. CASE pc[u] # "idle"
      <3>1. call[u].id \in Ids /\ call[u].id # None
        BY <2>3, DklsAssumption DEF TypeInv, LocalsOK
      <3>2. call[u].id # s
        BY <1>3, <3>1 DEF Serial, OneCall
      <3>3. sessions'[call[u].id] = sessions[call[u].id]
        BY <3>1, <3>2 DEF Local
      <3> QED
        BY <2>1, <3>3 DEF CallOK, Started
    <2> QED
      BY <2>2, <2>3
  <1>4. DoneOK'
    BY DEF Serial, DoneOK, Local
  <1>5. RunsAsked'
    BY DEF Serial, RunsAsked
  <1> QED
    BY <1>1, <1>2, <1>3, <1>4, <1>5 DEF Serial

LEMMA Returns ==
    ASSUME TypeInv, NEW t \in Threads, NEW r, Return(t, r), NEW s \in Ids, s = call[t].id
    PROVE  CallOK(t)' /\ call'[t].id = None /\ reply'[s] = r
  BY DEF TypeInv, TypeOK, Return, Goto, CallOK, NoCall, Opening, Advancing

LEMMA ResultsStay ==
    ASSUME ResultsOK, UNCHANGED <<asked, results>>
    PROVE  ResultsOK'
  BY DEF ResultsOK

LEMMA SerialOpening ==
    ASSUME TypeInv, Serial, NEW t \in Threads, Inject(t) \/ Collect1(t) \/ Insert(t)
    PROVE  Serial'
  <1>1. Local(t)
    BY StepIsLocal DEF Step
  <1>2. PICK s \in Ids : s = call[t].id
    BY <1>1 DEF Local
  <1>3. UNCHANGED <<asked, runs>> /\ ResultsOK'
    BY ResultsStay DEF Inject, Collect1, Insert, histVars, Serial
  <1>4. sessions[s] # None => Started(sessions[s].run, s, sessions[s].ver)
    BY DEF Serial, StoredOK
  <1>5. CallOK(t) /\ (reply[s] = "completed" => sessions[s] = None)
    BY DEF Serial, DoneOK
  <1>6. CASE Inject(t) \/ Collect1(t)
    <2>1. UNCHANGED sessions
      BY <1>6 DEF Inject, Collect1
    <2>2. CASE \E r \in {"ended", "error"} : Return(t, r)
      BY <1>1, <1>2, <1>3, <1>4, <2>1, <2>2, Returns, SerialOn
    <2>3. CASE /\ \/ pc[t] = "inject1" /\ Goto(t, "collect1")
                  \/ pc[t] = "inject" /\ Goto(t, "enter")
                  \/ pc[t] = "collect1" /\ Goto(t, "insert")
               /\ UNCHANGED <<call, reply>>
      <3>1. CallOK(t)'
        BY <1>3, <1>5, <2>1, <2>3
           DEF CallOK, Goto, Opening, Advancing, Started, TypeInv, TypeOK
      <3> QED
        BY <1>1, <1>2, <1>3, <1>4, <1>5, <2>1, <2>3, <3>1, SerialOn
    <2> QED
      BY <1>6, <2>2, <2>3 DEF Inject, Collect1
  <1>7. CASE Insert(t)
    <2>1. Return(t, "continue") /\ Started(call[t].run, s, call[t].ver)
      BY <1>2, <1>5, <1>7 DEF Insert, CallOK, Opening
    <2>2. sessions'[s] = [run |-> call[t].run, ver |-> call[t].ver, consumed |-> FALSE]
      BY <1>2, <1>7 DEF Insert, TypeInv, TypeOK
    <2>3. Started(sessions'[s].run, s, sessions'[s].ver)
      BY <2>1, <2>2
    <2> QED
      BY <1>1, <1>2, <1>3, <2>1, <2>3, Returns, SerialOn
  <1> QED
    BY <1>6, <1>7

LEMMA SerialAdvancing ==
    ASSUME TypeInv, Serial, NEW t \in Threads,
           \/ Lookup(t) \/ EnterLock(t) \/ CollectSome(t) \/ CollectNone(t) \/ Reset(t)
    PROVE  Serial'
  <1>1. Local(t)
    BY StepIsLocal DEF Step
  <1>2. PICK s \in Ids : s = call[t].id
    BY <1>1 DEF Local
  <1>3. UNCHANGED <<asked, runs>> /\ ResultsOK'
    BY ResultsStay DEF Lookup, EnterLock, CollectSome, CollectNone, Reset, histVars, Serial
  <1>4. sessions[s] # None => Started(sessions[s].run, s, sessions[s].ver)
    BY DEF Serial, StoredOK
  <1>5. CallOK(t) /\ (reply[s] = "completed" => sessions[s] = None)
    BY DEF Serial, DoneOK
  \* The entry of the id is kept but for its flag, or removed.
  <1>6. /\ sessions'[s] # None => /\ sessions[s] # None /\ sessions'[s].run = sessions[s].run
                                  /\ sessions'[s].ver = sessions[s].ver
    <2>1. CASE UNCHANGED sessions
      BY <2>1
    <2>2. CASE sessions' = [sessions EXCEPT ![s] = None]
      BY <2>2 DEF TypeInv, TypeOK
    <2>3. CASE \E b : /\ sessions[s] # None
                      /\ sessions' = [sessions EXCEPT ![s].consumed = b]
      <3>1. PICK b : sessions' = [sessions EXCEPT ![s].consumed = b]
        BY <2>3
      <3>2. sessions[s] \in Session
        BY <2>3 DEF TypeInv, TypeOK
      <3>3. sessions'[s] = [sessions[s] EXCEPT !.consumed = b]
        BY <3>1 DEF TypeInv, TypeOK
      <3> QED
        BY <2>3, <3>2, <3>3 DEF Session
    <2> QED
      BY <1>2, <2>1, <2>2, <2>3
         DEF Lookup, EnterLock, CollectSome, CollectNone, Reset
  <1>7. sessions'[s] # None => Started(sessions'[s].run, s, sessions'[s].ver)
    BY <1>4, <1>6
  <1>8. CASE \E r \in {"error", "continue"} : Return(t, r)
    BY <1>1, <1>2, <1>3, <1>7, <1>8, Returns, SerialOn
  <1>9. CASE UNCHANGED reply /\ CallOK(t)' /\ call'[t].id = s
    BY <1>1, <1>2, <1>3, <1>5, <1>6, <1>7, <1>9, SerialOn
  <1>10. CASE Lookup(t)
    <2>1. CASE /\ sessions[s] # None
               /\ \E n \in Payload :
                     call' = [call EXCEPT ![t] =
                         [@ EXCEPT !.run = sessions[s].run, !.ver = sessions[s].ver,
                                   !.msgs = n]]
               /\ Goto(t, "inject") /\ UNCHANGED <<sessions, reply>>
      <3>1. PICK n \in Payload :
                     call' = [call EXCEPT ![t] =
                         [@ EXCEPT !.run = sessions[s].run, !.ver = sessions[s].ver,
                                   !.msgs = n]]
        BY <2>1
      <3>2. call'[t].ver = sessions[s].ver /\ call'[t].id = s /\ pc'[t] = "inject"
        BY <1>2, <2>1, <3>1 DEF Goto, TypeInv, TypeOK, Call
      <3>3. CallOK(t)'
        BY <2>1, <3>2 DEF CallOK, Opening, Advancing
      <3> QED
        BY <1>9, <2>1, <3>2, <3>3
    <2> QED
      BY <1>2, <1>8, <1>10, <2>1 DEF Lookup
  <1>11. CASE EnterLock(t)
    <2>1. CASE /\ sessions[s] # None
               /\ call' = [call EXCEPT ![t].other = sessions[s].run]
               /\ Goto(t, "collect") /\ UNCHANGED reply
      <3>1. /\ call'[t].ver = call[t].ver /\ call'[t].id = s /\ pc'[t] = "collect"
            /\ pc[t] = "enter"
        BY <1>2, <1>11, <2>1 DEF Goto, EnterLock, TypeInv, TypeOK, Call
      <3>2. CallOK(t)'
        BY <1>2, <1>5, <1>6, <3>1 DEF CallOK, Opening, Advancing
      <3> QED
        BY <1>9, <2>1, <3>1, <3>2
    <2> QED
      BY <1>2, <1>8, <1>11, <2>1 DEF EnterLock
  <1>12. CASE CollectSome(t) \/ CollectNone(t)
    <2>1. CASE /\ pc[t] = "collect"
               /\ Goto(t, "reset") \/ Goto(t, "remove")
               /\ UNCHANGED <<call, reply>>
      <3>1. CallOK(t)'
        BY <1>2, <1>5, <1>6, <1>12, <2>1
           DEF CallOK, Goto, Opening, Advancing, TypeInv, TypeOK, CollectSome, CollectNone
      <3> QED
        BY <1>2, <1>9, <2>1, <3>1
    <2> QED
      BY <1>8, <1>12, <2>1 DEF CollectSome, CollectNone
  <1>13. CASE Reset(t)
    BY <1>8, <1>13 DEF Reset
  <1> QED
    BY <1>10, <1>11, <1>12, <1>13

LEMMA SerialRemove ==
    ASSUME TypeInv, Serial, NEW t \in Threads, Remove(t)
    PROVE  Serial'
  <1>1. Local(t)
    BY StepIsLocal DEF Step
  <1>2. PICK s \in Ids : s = call[t].id
    BY <1>1 DEF Local
  <1>3. UNCHANGED <<asked, runs>> /\ ResultsOK'
    BY ResultsStay DEF Remove, histVars, Serial
  <1>4. pc[t] = "remove" /\ sessions'[s] = None
    BY <1>2 DEF Remove, TypeInv, TypeOK
  <1>5. CASE Return(t, "error")
    BY <1>1, <1>2, <1>3, <1>4, <1>5, Returns, SerialOn
  <1>6. CASE /\ sessions[s] # None
             /\ call' = [call EXCEPT ![t] =
                   [@ EXCEPT !.other = sessions[s].run,
                             !.ver = IF call[t].round = 0 THEN sessions[s].ver
                                                          ELSE call[t].ver]]
             /\ Goto(t, "join") /\ UNCHANGED reply
    <2>1. Started(sessions[s].run, s, sessions[s].ver)
      BY <1>6 DEF Serial, StoredOK
    <2>2. call[t].round # 0 => call[t].ver = sessions[s].ver
      BY <1>2, <1>4, <1>6 DEF Serial, CallOK
    <2>3. /\ call'[t].other = sessions[s].run /\ call'[t].ver = sessions[s].ver
          /\ call'[t].id = s /\ pc'[t] = "join"
      BY <1>2, <1>6, <2>2 DEF Goto, TypeInv, TypeOK, Call
    <2>4. CallOK(t)'
      BY <1>3, <1>4, <2>1, <2>3 DEF CallOK, Started, Opening, Advancing
    <2> QED
      BY <1>1, <1>2, <1>3, <1>4, <1>6, <2>3, <2>4, SerialOn
  <1> QED
    BY <1>2, <1>5, <1>6 DEF Remove

LEMMA SerialJoin ==
    ASSUME TypeInv, Serial, NEW t \in Threads, Join(t)
    PROVE  Serial'
  <1>1. Local(t)
    BY StepIsLocal DEF Step
  <1>2. PICK s \in Ids, i \in Runs, v \in Versions :
           s = call[t].id /\ i = call[t].other /\ v = call[t].ver
    BY <1>1 DEF Local, Join, TypeInv, LocalsOK
  <1>3. Started(i, s, v) /\ sessions[s] = None /\ UNCHANGED <<asked, runs, sessions>>
    BY <1>2 DEF Serial, CallOK, Join
  <1>4. \E r : Return(t, r)
    BY DEF Join
  <1>5. ResultsOK'
    <2>1. CASE UNCHANGED results
      BY <1>3, <2>1, ResultsStay DEF Serial
    <2>2. CASE results' = results \cup {[run |-> i, id |-> s, ver |-> NextVer(v)]}
      BY <1>3, <2>2 DEF Serial, ResultsOK, Started
    <2> QED
      BY <1>2, <2>1, <2>2 DEF Join
  <1> QED
    BY <1>1, <1>2, <1>3, <1>4, <1>5, Returns, SerialOn

\* Calls that begin; no other of their id is under way.
LEMMA SerialEnter ==
    ASSUME TypeInv, Serial, OneCallPerId, NEW t \in Threads, NEW s \in Ids,
           \/ \E v \in Versions, n \in Payload : CallRound1(t, s, v, n)
           \/ CallAdvance(t, s)
           \/ CallCollect(t, s)
    PROVE  Serial'
  <1>1. /\ UNCHANGED <<sessions, results, reply>> /\ call'[t].id = s
        /\ \A u \in Threads : u # t => pc'[u] = pc[u] /\ call'[u] = call[u]
        /\ \A u \in Threads : call[u].id # s
    <2> USE DEF Enter, Goto, NoCall, TypeInv, TypeOK
    <2>1. CASE \E v \in Versions, n \in Payload : CallRound1(t, s, v, n)
      BY <2>1 DEF CallRound1
    <2>2. CASE CallAdvance(t, s)
      BY <2>2 DEF CallAdvance
    <2>3. CASE CallCollect(t, s)
      BY <2>3 DEF CallCollect
    <2> QED
      BY <2>1, <2>2, <2>3
  <1>2. OneCall' /\ DoneOK'
    BY <1>1 DEF Serial, OneCall, DoneOK
  <1>3. CASE CallAdvance(t, s) \/ CallCollect(t, s)
    <2>1. UNCHANGED <<asked, runs>>
      BY <1>3 DEF CallAdvance, CallCollect
    <2>2. pc'[t] = "lookup" \/ (pc'[t] = "remove" /\ call'[t].round = 0)
      BY <1>3 DEF CallAdvance, CallCollect, Enter, Goto, NoCall, TypeInv, TypeOK
    <2>3. CallOK(t)'
      BY <2>2 DEF CallOK, Opening, Advancing
    <2>4. ASSUME NEW u \in Threads, u # t PROVE CallOK(u)'
      BY <1>1, <2>1, <2>4 DEF Serial, CallOK, Started
    <2>5. StoredOK' /\ ResultsOK' /\ RunsAsked'
      BY <1>1, <2>1 DEF Serial, StoredOK, ResultsOK, RunsAsked, Started
    <2> QED
      BY <1>2, <2>3, <2>4, <2>5 DEF Serial
  <1>4. ASSUME NEW v \in Versions, NEW n \in Payload, CallRound1(t, s, v, n)
        PROVE  Serial'
    <2>1. runs + 1 \in Runs /\ runs \in Nat
      BY <1>4, DklsAssumption DEF TypeInv, TypeOK, CallRound1, Runs
    <2>2. PICK new \in Runs : new = runs + 1
      BY <2>1
    <2>3. /\ runs' = new /\ asked' = [asked EXCEPT ![new] = [id |-> s, ver |-> v]]
          /\ call'[t] = [id |-> s, round |-> 1, ver |-> v, msgs |-> n, run |-> new,
                         other |-> None]
          /\ pc'[t] = "inject1"
      BY <1>4, <2>2 DEF CallRound1, Enter, Goto, TypeInv, TypeOK
    <2>4. asked[new] = None
      BY <2>1, <2>2 DEF Serial, RunsAsked
    <2>5. [id |-> s, ver |-> v] # None
      BY DklsAssumption
    <2>6. \A i \in Runs : asked[i] # None => asked'[i] = asked[i]
      BY <2>3, <2>4 DEF TypeInv, TypeOK
    <2>7. CallOK(t)'
      BY <2>2, <2>3, <2>5 DEF CallOK, Started, Opening, Advancing, TypeInv, TypeOK
    <2>8. ASSUME NEW u \in Threads, u # t PROVE CallOK(u)'
      BY <1>1, <2>6, <2>8 DEF Serial, CallOK, Started
    <2>9. StoredOK' /\ ResultsOK'
      BY <1>1, <2>6 DEF Serial, StoredOK, ResultsOK, Started
    <2>10. RunsAsked'
      BY <2>1, <2>2, <2>3 DEF Serial, RunsAsked, TypeInv, TypeOK, Runs
    <2> QED
      BY <1>2, <2>7, <2>8, <2>9, <2>10 DEF Serial
  <1> QED
    BY <1>3, <1>4

LEMMA SerialNext == TypeInv /\ Serial /\ OneCallPerId /\ [Next]_vars => Serial'
  <1> SUFFICES ASSUME TypeInv, Serial, OneCallPerId, [Next]_vars PROVE Serial'
    OBVIOUS
  <1>1. ASSUME NEW t \in Threads, NEW s \in Ids,
               \/ \E v \in Versions, n \in Payload : CallRound1(t, s, v, n)
               \/ CallAdvance(t, s)
               \/ CallCollect(t, s)
        PROVE  Serial'
    BY <1>1, SerialEnter
  <1>2. ASSUME NEW t \in Threads, Step(t) PROVE Serial'
    BY <1>2, SerialOpening, SerialAdvancing, SerialRemove, SerialJoin DEF Step
  <1>3. CASE (\E i \in Runs : TaskStep(i)) \/ Age \/ UNCHANGED vars
    <2>1. UNCHANGED <<sessions, pc, call, asked, results, reply, runs>>
      BY <1>3 DEF TaskStep, TaskStart, TaskRecv, TaskReject, TaskClosed, TaskVarsOnly, Age,
                  vars, callVars, histVars
    <2> QED
      BY <2>1 DEF Serial, OneCall, StoredOK, CallOK, ResultsOK, DoneOK, RunsAsked, Started
  <1> QED
    BY <1>1, <1>2, <1>3 DEF Next

LEMMA SerialAlways == OneCallPerId /\ Spec => [](TypeInv /\ Serial)
  <1>1. Init => TypeInv /\ Serial
    BY TypeInit, SerialInit
  <1>2. TypeInv /\ Serial /\ OneCallPerId /\ [Next]_vars => (TypeInv /\ Serial)'
    BY TypeNext, SerialNext
  <1>3. CASE OneCallPerId
    BY <1>1, <1>2, <1>3, PTL DEF Spec
  <1> QED
    BY <1>3

\* For a host that does not overlap calls of one id, a result has the version
\* after that of the share its run was started with (VersionFollowsRun),
\* though the version is cloned before the map is unlocked and the result is
\* joined after it was locked and unlocked twice more.
THEOREM VersionOfItsRun == OneCallPerId /\ Spec => []VersionFollowsRun
  <1>1. Serial => VersionFollowsRun
    BY DEF Serial, ResultsOK, VersionFollowsRun
  <1> QED
    BY <1>1, SerialAlways, PTL

\* For such a host the map has no session of an id from the call that reports
\* its run completed (Remove, Join) to the next round 1 (CompletedIsCleanedUp).
THEOREM CompletedLeavesNothing == OneCallPerId /\ Spec => []CompletedIsCleanedUp
  <1>1. Serial => CompletedIsCleanedUp
    BY DEF Serial, DoneOK, CompletedIsCleanedUp
  <1> QED
    BY <1>1, SerialAlways, PTL

-----------------------------------------------------------------------------
(* For such a host nothing a task has produced is lost.                    *)

\* No later run was started for the same id.
Newest(i) == \A j \in (i + 1)..MaxRuns : asked[j] # None => asked[j].id # asked[i].id

\* The handle of the run's task is in the map, or with a call that joins it.
InReach(i) == \/ \E s \in Ids : Stored(s, i)
              \/ \E t \in Threads : pc[t] = "join" /\ call[t].other = i

\* A run is stored once, by the call that opened it.
BornOK ==
    /\ \A k, l \in 1..Len(births) : births[k] = births[l] => k = l
    /\ \A k \in 1..Len(births) : asked[births[k]] # None
    /\ \A k \in 1..Len(births), t \in Threads :
          pc[t] \in Opening => births[k] # call[t].run

\* A call that opens a session is the last to have done so for its id.
OpensNewest == \A t \in Threads : pc[t] \in Opening => Newest(call[t].run)

\* A run that has not failed is in reach, whether it has ended yet or not.
KeptInReach ==
    \A k \in (aged + 1)..Len(births) :
        LET i == births[k] IN
        tasks[i].status # "failed" /\ completed[i] = 0 /\ Newest(i) => InReach(i)

Lossless == BornOK /\ OpensNewest /\ KeptInReach

LEMMA LosslessInit == Init => Lossless
  BY DEF Init, Lossless, BornOK, OpensNewest, KeptInReach, Opening

\* A step that starts and stores no run, and takes none out of reach but what
\* has failed, is handed over, or is too old.
LEMMA LosslessOn ==
    ASSUME TypeInv, Lossless, UNCHANGED <<asked, births>>, aged' \in aged..Len(births),
           \A t \in Threads : pc'[t] \in Opening => pc[t] \in Opening /\ call'[t].run = call[t].run,
           \A i \in Runs :
              /\ tasks'[i].status # "failed" => tasks[i].status # "failed"
              /\ completed'[i] = 0 => completed[i] = 0
              /\ InReach(i) => \/ InReach(i)' \/ tasks'[i].status = "failed" \/ completed'[i] # 0
                               \/ \E k \in 1..aged : births[k] = i
    PROVE  Lossless'
  <1>1. BornOK'
    BY DEF Lossless, BornOK
  <1>2. \A i : Newest(i)' <=> Newest(i)
    BY DEF Newest
  <1>3. OpensNewest'
    BY <1>2 DEF Lossless, OpensNewest
  <1>4. KeptInReach'
    <2> SUFFICES ASSUME NEW k \in (aged' + 1)..Len(births), NEW i, i = births[k],
                        tasks'[i].status # "failed", completed'[i] = 0, Newest(i)
                 PROVE  InReach(i)'
      BY <1>2 DEF KeptInReach
    <2>1. births \in Seq(Runs) /\ aged \in Nat /\ Len(births) \in Nat
      BY DEF TypeInv, TypeOK
    <2>2. k \in 1..Len(births) /\ k \in (aged + 1)..Len(births) /\ k \notin 1..aged
      BY <2>1
    <2>3. i \in Runs
      BY <2>1, <2>2
    <2>4. InReach(i)
      BY <2>2, <2>3 DEF Lossless, KeptInReach
    <2>5. ~\E l \in 1..aged : births[l] = i
      BY <2>1, <2>2 DEF Lossless, BornOK
    <2> QED
      BY <2>3, <2>4, <2>5
  <1> QED
    BY <1>1, <1>3, <1>4 DEF Lossless

\* A step of a call that keeps the map's runs, and joins nothing.
LEMMA LosslessCall ==
    ASSUME TypeInv, Lossless, NEW t \in Threads, UNCHANGED <<asked, births, aged, completed>>,
           \A u \in Threads : u # t => pc'[u] = pc[u] /\ call'[u] = call[u],
           pc'[t] \in Opening => pc[t] \in Opening /\ call'[t].run = call[t].run,
           pc[t] # "join",
           \A i \in Runs : /\ tasks'[i].status = tasks[i].status
                           /\ \A s \in Ids : Stored(s, i) => Stored(s, i)'
    PROVE  Lossless'
  <1>1. \A i \in Runs : InReach(i) => InReach(i)'
    BY DEF InReach
  <1>2. aged' \in aged..Len(births)
    BY DEF TypeInv, TypeOK
  <1>3. \A u \in Threads : pc'[u] \in Opening => pc[u] \in Opening /\ call'[u].run = call[u].run
    OBVIOUS
  <1> QED
    BY <1>1, <1>2, <1>3, LosslessOn

LEMMA LosslessTask ==
    ASSUME TypeInv, Lossless, NEW i \in Runs, TaskStep(i)
    PROVE  Lossless'
  <1>1. UNCHANGED <<sessions, pc, call, births, aged, asked, completed>>
    BY DEF TaskStep, TaskStart, TaskRecv, TaskReject, TaskClosed, TaskVarsOnly, callVars, histVars
  <1>2. /\ tasks[i].status = "running"
        /\ \A j \in Runs : j # i => tasks'[j] = tasks[j]
    BY DEF TaskStep, TaskStart, TaskRecv, TaskReject, TaskClosed, TypeInv, TypeOK
  <1>3. \A j \in Runs : tasks'[j].status # "failed" => tasks[j].status # "failed"
    BY <1>2
  <1>4. \A j \in Runs : InReach(j)' <=> InReach(j)
    BY <1>1 DEF InReach, Stored
  <1>5. aged' \in aged..Len(births)
    BY <1>1 DEF TypeInv, TypeOK
  <1> QED
    BY <1>1, <1>3, <1>4, <1>5, LosslessOn

LEMMA LosslessAge ==
    ASSUME TypeInv, Lossless, Age
    PROVE  Lossless'
  <1>1. UNCHANGED <<sessions, tasks, pc, call, births, asked, completed>>
    BY DEF Age, callVars, histVars
  <1>2. aged' \in aged..Len(births)
    BY DEF Age, TypeInv, TypeOK
  <1>3. \A j \in Runs : InReach(j)' <=> InReach(j)
    BY <1>1 DEF InReach, Stored
  <1> QED
    BY <1>1, <1>2, <1>3, LosslessOn

\* Calls that begin: a new run is the newest of its id, and no call of that id
\* is opening another.
LEMMA LosslessEnter ==
    ASSUME TypeInv, Serial, Lossless, OneCallPerId, NEW t \in Threads, NEW s \in Ids,
           \/ \E v \in Versions, n \in Payload : CallRound1(t, s, v, n)
           \/ CallAdvance(t, s)
           \/ CallCollect(t, s)
    PROVE  Lossless'
  <1>1. /\ UNCHANGED <<sessions, births, aged, completed>> /\ pc[t] = "idle"
        /\ \A u \in Threads : u # t => pc'[u] = pc[u] /\ call'[u] = call[u]
        /\ \A u \in Threads : call[u].id # s
    <2> USE DEF Enter, Goto, NoCall, TypeInv, TypeOK
    <2>1. CASE \E v \in Versions, n \in Payload : CallRound1(t, s, v, n)
      BY <2>1 DEF CallRound1
    <2>2. CASE CallAdvance(t, s)
      BY <2>2 DEF CallAdvance
    <2>3. CASE CallCollect(t, s)
      BY <2>3 DEF CallCollect
    <2> QED
      BY <2>1, <2>2, <2>3
  <1>2. CASE CallAdvance(t, s) \/ CallCollect(t, s)
    <2>1. UNCHANGED <<asked, tasks>> /\ pc'[t] \notin Opening
      BY <1>2 DEF CallAdvance, CallCollect, Enter, Goto, Opening, TypeInv, TypeOK
    <2>2. \A i \in Runs, r \in Ids : Stored(r, i) => Stored(r, i)'
      BY <1>1 DEF Stored
    <2> QED
      BY <1>1, <2>1, <2>2, LosslessCall
  <1>3. ASSUME NEW v \in Versions, NEW n \in Payload, CallRound1(t, s, v, n)
        PROVE  Lossless'
    <2>1. runs + 1 \in Runs /\ runs \in Nat /\ MaxRuns \in Nat
      BY <1>3, DklsAssumption DEF TypeInv, TypeOK, CallRound1, Runs
    <2>2. PICK new \in Runs : new = runs + 1
      BY <2>1
    <2>3. /\ asked' = [asked EXCEPT ![new] = [id |-> s, ver |-> v]]
          /\ tasks' = [tasks EXCEPT ![new].status = "running"]
          /\ call'[t].run = new /\ pc'[t] = "inject1"
      BY <1>3, <2>2 DEF CallRound1, Enter, Goto, TypeInv, TypeOK
    <2>4. \A j \in Runs : j >= new => asked[j] = None
      BY <2>1, <2>2 DEF Serial, RunsAsked, Runs
    <2>5. /\ asked'[new] # None /\ asked'[new].id = s
          /\ \A j \in Runs : j # new => asked'[j] = asked[j]
      BY <2>3, DklsAssumption DEF TypeInv, TypeOK
    <2>6. \A k \in 1..Len(births) : births[k] \in Runs /\ births[k] # new
      BY <2>2, <2>4 DEF Lossless, BornOK, TypeInv, TypeOK
    <2>7. BornOK'
      BY <1>1, <2>2, <2>3, <2>5, <2>6 DEF Lossless, BornOK
    <2>8. ASSUME NEW i \in Runs, i # new, Newest(i)'
          PROVE  Newest(i)
      <3> SUFFICES ASSUME NEW j \in (i + 1)..MaxRuns, asked[j] # None
                   PROVE  asked[j].id # asked[i].id
        BY DEF Newest
      <3>1. j \in Runs /\ j # new
        BY <2>1, <2>2, <2>4 DEF Runs
      <3> QED
        BY <2>5, <2>8, <3>1 DEF Newest
    <2>9. OpensNewest'
      <3> SUFFICES ASSUME NEW u \in Threads, pc'[u] \in Opening, NEW i, i = call'[u].run,
                          NEW j \in (i + 1)..MaxRuns, asked'[j] # None
                   PROVE  asked'[j].id # asked'[i].id
        BY DEF OpensNewest, Newest
      <3>1. CASE u = t
        <4>1. j \in Runs /\ j # new /\ asked[j] = None
          BY <2>1, <2>2, <2>3, <2>4, <3>1 DEF Runs
        <4> QED
          BY <2>5, <4>1
      <3>2. CASE u # t
        <4>1. pc[u] \in Opening /\ call[u].run = i
          BY <1>1, <3>2
        <4>2. Started(i, call[u].id, call[u].ver)
          BY <4>1 DEF Serial, CallOK
        <4>3. i \in Runs /\ asked[i] # None /\ asked[i].id # s
          BY <1>1, <4>2 DEF Started
        <4>4. i # new
          BY <2>2, <2>4, <4>3 DEF Runs
        <4>5. asked'[i] = asked[i]
          BY <2>5, <4>3, <4>4
        <4>6. j \in Runs
          BY <2>1, <4>3 DEF Runs
        <4>7. j # new => asked[j] # None /\ asked'[j] = asked[j]
          BY <2>5, <4>6
        <4>8. asked[j] # None => asked[j].id # asked[i].id
          BY <4>1 DEF Lossless, OpensNewest, Newest
        <4> QED
          BY <2>5, <4>3, <4>5, <4>7, <4>8
      <3> QED
        BY <3>1, <3>2
    <2>10. KeptInReach'
      <3> SUFFICES ASSUME NEW k \in (aged + 1)..Len(births), NEW i, i = births[k],
                          tasks'[i].status # "failed", completed[i] = 0, Newest(i)'
                   PROVE  InReach(i)'
        BY <1>1 DEF KeptInReach
      <3>1. k \in 1..Len(births)
        BY DEF TypeInv, TypeOK
      <3>2. i \in Runs /\ i # new
        BY <2>6, <3>1
      <3>3. tasks'[i] = tasks[i]
        BY <2>3, <3>2 DEF TypeInv, TypeOK
      <3>4. InReach(i)
        BY <2>8, <3>2, <3>3 DEF Lossless, KeptInReach
      <3> QED
        BY <1>1, <3>4 DEF InReach, Stored
    <2> QED
      BY <2>7, <2>9, <2>10 DEF Lossless
  <1> QED
    BY <1>2, <1>3

LEMMA LosslessOpening ==
    ASSUME TypeInv, Lossless, NEW t \in Threads, Inject(t) \/ Collect1(t)
    PROVE  Lossless'
  <1>1. /\ UNCHANGED <<sessions, births, aged, asked, completed>>
        /\ pc[t] \in {"inject1", "inject", "collect1"}
    BY DEF Inject, Collect1, histVars
  <1>2. \A u \in Threads : u # t => pc'[u] = pc[u] /\ call'[u] = call[u]
    BY StepIsLocal DEF Step, Local
  <1>3. \A i \in Runs : tasks'[i].status = tasks[i].status
    <2>1. CASE UNCHANGED tasks
      BY <2>1
    <2>2. CASE \E x : tasks' = [tasks EXCEPT ![call[t].run].inp = x]
                      \/ tasks' = [tasks EXCEPT ![call[t].run].out = x]
      <3>1. PICK x : \/ tasks' = [tasks EXCEPT ![call[t].run].inp = x]
                     \/ tasks' = [tasks EXCEPT ![call[t].run].out = x]
        BY <2>2
      <3>2. CASE tasks' = [tasks EXCEPT ![call[t].run].inp = x]
        BY <3>2 DEF TypeInv, TypeOK, Task
      <3>3. CASE tasks' = [tasks EXCEPT ![call[t].run].out = x]
        BY <3>3 DEF TypeInv, TypeOK, Task
      <3> QED
        BY <3>1, <3>2, <3>3
    <2> QED
      BY <2>1, <2>2 DEF Inject, Collect1
  <1>4. pc'[t] \in Opening => pc[t] \in Opening /\ call'[t] = call[t]
    BY DEF Inject, Collect1, Return, Goto, Opening, TypeInv, TypeOK
  <1>5. \A i \in Runs, s \in Ids : Stored(s, i) => Stored(s, i)'
    BY <1>1 DEF Stored
  <1> QED
    BY <1>1, <1>2, <1>3, <1>4, <1>5, LosslessCall

\* The steps of a later round; an expired session is of a run that is too old.
LEMMA LosslessAdvancing ==
    ASSUME TypeInv, Lossless, NEW t \in Threads,
           \/ Lookup(t) \/ EnterLock(t) \/ CollectSome(t) \/ CollectNone(t) \/ Reset(t)
    PROVE  Lossless'
  <1>1. /\ UNCHANGED <<births, aged, asked, completed>>
        /\ pc[t] \in {"lookup", "enter", "collect", "reset"}
    BY DEF Lookup, EnterLock, CollectSome, CollectNone, Reset, histVars
  <1>2. PICK s \in Ids : s = call[t].id
    BY StepIsLocal DEF Step, Local
  <1>3. \A u \in Threads : u # t => pc'[u] = pc[u] /\ call'[u] = call[u]
    BY StepIsLocal DEF Step, Local
  <1>4. pc'[t] \notin Opening
    <2>1. \A label : Goto(t, label) => pc'[t] = label
      BY DEF Goto, TypeInv, TypeOK
    <2> QED
      BY <2>1
         DEF Lookup, EnterLock, CollectSome, CollectNone, Reset, Return, Opening
  <1>5. CASE Expired(s) /\ sessions' = [sessions EXCEPT ![s] = None]
             /\ tasks' = [tasks EXCEPT ![sessions[s].run].status =
                             IF @ = "running" THEN "failed" ELSE @]
    <2>1. \A i \in Runs : tasks'[i].status # "failed" => tasks[i].status # "failed"
      BY <1>5 DEF TypeInv, TypeOK, Task
    <2>2. \A i \in Runs : InReach(i) => InReach(i)' \/ \E k \in 1..aged : births[k] = i
      <3> SUFFICES ASSUME NEW i \in Runs, InReach(i), ~\E k \in 1..aged : births[k] = i
                   PROVE  InReach(i)'
        OBVIOUS
      <3>1. ~Stored(s, i)
        BY <1>5 DEF Stored, Expired
      <3>2. \A r \in Ids : Stored(r, i) => Stored(r, i)'
        BY <1>5, <3>1 DEF Stored, TypeInv, TypeOK
      <3> QED
        BY <1>1, <1>3, <3>2 DEF InReach
    <2>3. aged' \in aged..Len(births)
      BY <1>1 DEF TypeInv, TypeOK
    <2> QED
      BY <1>1, <1>3, <1>4, <2>1, <2>2, <2>3, LosslessOn
  <1>6. CASE /\ UNCHANGED sessions \/ \E b \in BOOLEAN :
                                    /\ sessions[s] # None
                                    /\ sessions' = [sessions EXCEPT ![s].consumed = b]
             /\ UNCHANGED tasks \/ \E i : tasks' = [tasks EXCEPT ![i].out = 0]
    <2>1. \A i \in Runs : tasks'[i].status = tasks[i].status
      <3>1. CASE UNCHANGED tasks
        BY <3>1
      <3>2. CASE \E i : tasks' = [tasks EXCEPT ![i].out = 0]
        BY <3>2 DEF TypeInv, TypeOK, Task
      <3> QED
        BY <1>6, <3>1, <3>2
    <2>2. \A i \in Runs, r \in Ids : Stored(r, i) => Stored(r, i)'
      <3>1. CASE UNCHANGED sessions
        BY <3>1 DEF Stored
      <3>2. ASSUME NEW b \in BOOLEAN, sessions[s] # None,
                   sessions' = [sessions EXCEPT ![s].consumed = b]
            PROVE  \A i \in Runs, r \in Ids : Stored(r, i) => Stored(r, i)'
        <4>1. PICK x : x = [sessions[s] EXCEPT !.consumed = b]
          OBVIOUS
        <4>2. sessions[s] \in Session
          BY <3>2 DEF TypeInv, TypeOK
        <4>3. x.run = sessions[s].run /\ x \in Session
          BY <4>1, <4>2 DEF Session
        <4>4. sessions' = [sessions EXCEPT ![s] = x]
          BY <3>2, <4>1 DEF TypeInv, TypeOK
        <4>5. x # None
          BY <4>3, SessionNotNone
        <4> QED
          BY <4>3, <4>4, <4>5 DEF Stored, TypeInv, TypeOK
      <3> QED
        BY <1>6, <3>1, <3>2
    <2> QED
      BY <1>1, <1>3, <1>4, <2>1, <2>2, LosslessCall
  <1> QED
    BY <1>2, <1>5, <1>6 DEF Lookup, EnterLock, CollectSome, CollectNone, Reset

\* The session a new one replaces, if any, was not the newest of its id.
LEMMA LosslessInsert ==
    ASSUME Inv, Serial, Lossless, NEW t \in Threads, Insert(t)
    PROVE  Lossless'
  <1>1. Local(t) /\ TypeInv
    BY StepIsLocal DEF Step, Inv
  <1>2. call[t].id \in Ids /\ call[t].run \in Runs
    BY <1>1 DEF TypeInv, LocalsOK, Insert, Opening
  <1> PICK s \in Ids, i \in Runs : s = call[t].id /\ i = call[t].run
    BY <1>2
  <1>3. /\ births \in Seq(Runs) /\ aged \in 0..Len(births) /\ Len(births) \in Nat
        /\ births' = Append(births, i)
        /\ UNCHANGED <<tasks, aged, asked, completed>>
    BY <1>1 DEF Insert, histVars, TypeInv, TypeOK
  <1>4. /\ pc[t] = "insert" /\ pc[t] \in Opening /\ Holds(t, i)
        /\ pc'[t] = "idle" /\ pc'[t] \notin Opening
    BY <1>1 DEF Insert, Holds, Opening, Return, Goto, TypeInv, TypeOK
  <1>5. asked[i] # None /\ asked[i].id = s /\ Newest(i)
    BY <1>4 DEF Serial, CallOK, Started, Lossless, OpensNewest
  <1>6. /\ sessions'[s] # None /\ sessions'[s].run = i
        /\ \A r \in Ids : r # s => sessions'[r] = sessions[r]
    <2>1. PICK x : x = [run |-> call[t].run, ver |-> call[t].ver, consumed |-> FALSE]
      OBVIOUS
    <2>2. x \in Session /\ x.run = i
      BY <1>1, <1>4, <2>1 DEF Session, TypeInv, LocalsOK
    <2>3. sessions' = [sessions EXCEPT ![s] = x]
      BY <2>1 DEF Insert
    <2> QED
      BY <1>1, <2>2, <2>3, SessionNotNone DEF TypeInv, TypeOK
  <1>7. \A j : Newest(j)' <=> Newest(j)
    BY <1>3 DEF Newest
  <1>8. /\ Len(births') = Len(births) + 1 /\ births'[Len(births) + 1] = i
        /\ \A k \in 1..Len(births) : births'[k] = births[k] /\ births[k] # i
    BY <1>3, <1>4 DEF Lossless, BornOK
  <1>9. \A u \in Threads : pc'[u] \in Opening =>
            u # t /\ pc[u] \in Opening /\ call'[u].run = call[u].run /\ call[u].run # i
    <2> SUFFICES ASSUME NEW u \in Threads, pc'[u] \in Opening
                 PROVE  u # t /\ pc[u] \in Opening /\ call'[u].run = call[u].run
                        /\ call[u].run # i
      OBVIOUS
    <2>1. u # t /\ pc[u] \in Opening /\ call'[u].run = call[u].run
      BY <1>1, <1>4 DEF Local
    <2> QED
      BY <1>4, <2>1 DEF Inv, Handles, OneHolder, Holds
  <1>10. BornOK'
    <2>1. \A k \in 1..Len(births') : k = Len(births) + 1 \/ k \in 1..Len(births)
      BY <1>3, <1>8
    <2>2. \A k, l \in 1..Len(births') : births'[k] = births'[l] => k = l
      BY <1>8, <2>1 DEF Lossless, BornOK
    <2>3. \A k \in 1..Len(births') : asked'[births'[k]] # None
      BY <1>3, <1>5, <1>8, <2>1 DEF Lossless, BornOK
    <2>4. \A k \in 1..Len(births'), u \in Threads :
             pc'[u] \in Opening => births'[k] # call'[u].run
      BY <1>8, <1>9, <2>1 DEF Lossless, BornOK
    <2> QED
      BY <2>2, <2>3, <2>4 DEF BornOK
  <1>11. OpensNewest'
    <2> SUFFICES ASSUME NEW u \in Threads, pc'[u] \in Opening, NEW j, j = call'[u].run,
                        NEW l \in (j + 1)..MaxRuns, asked[l] # None
                 PROVE  asked[l].id # asked[j].id
      BY <1>3 DEF OpensNewest, Newest
    <2> QED
      BY <1>9 DEF Lossless, OpensNewest, Newest
  <1>12. KeptInReach'
    <2> SUFFICES ASSUME NEW k \in (aged + 1)..Len(births'), NEW j, j = births'[k],
                        tasks[j].status # "failed", completed[j] = 0, Newest(j)
                 PROVE  InReach(j)'
      BY <1>3, <1>7 DEF KeptInReach
    <2>1. CASE k = Len(births) + 1
      BY <1>6, <1>8, <2>1 DEF InReach, Stored
    <2>2. CASE k # Len(births) + 1
      <3>1. k \in (aged + 1)..Len(births) /\ k \in 1..Len(births)
        BY <1>3, <1>8, <2>2
      <3>2. j \in Runs /\ j = births[k] /\ j # i /\ asked[j] # None
        BY <1>3, <1>8, <3>1 DEF Lossless, BornOK
      <3>3. InReach(j)
        BY <3>1, <3>2 DEF Lossless, KeptInReach
      <3>4. asked[j].id # s
        BY <1>5, <3>2 DEF Newest, Runs
      <3>5. ~Stored(s, j)
        BY <3>4 DEF Serial, StoredOK, Stored, Started
      <3>6. CASE \E r \in Ids : Stored(r, j)
        BY <1>6, <3>5, <3>6 DEF InReach, Stored
      <3>7. CASE \E u \in Threads : pc[u] = "join" /\ call[u].other = j
        <4>1. PICK u \in Threads : pc[u] = "join" /\ call[u].other = j
          BY <3>7
        <4> QED
          BY <1>1, <1>4, <4>1 DEF InReach, Local
      <3> QED
        BY <3>3, <3>6, <3>7 DEF InReach
    <2> QED
      BY <2>1, <2>2
  <1> QED
    BY <1>10, <1>11, <1>12 DEF Lossless

\* What a call takes out of the map it joins.
LEMMA LosslessRemove ==
    ASSUME TypeInv, Lossless, NEW t \in Threads, Remove(t)
    PROVE  Lossless'
  <1>1. Local(t) /\ UNCHANGED <<tasks, births, aged, asked, completed>> /\ pc[t] = "remove"
    BY StepIsLocal DEF Step, Remove, histVars
  <1>2. PICK s \in Ids : s = call[t].id
    BY <1>1 DEF Local
  <1>3. \A u \in Threads : u # t => pc'[u] = pc[u] /\ call'[u] = call[u]
    BY <1>1 DEF Local
  <1>4. CASE Return(t, "error") /\ UNCHANGED sessions
    <2>1. pc'[t] \notin Opening
      BY <1>4 DEF Return, Goto, Opening, TypeInv, TypeOK
    <2>2. \A i \in Runs, r \in Ids : Stored(r, i) => Stored(r, i)'
      BY <1>4 DEF Stored
    <2> QED
      BY <1>1, <1>3, <2>1, <2>2, LosslessCall
  <1>5. CASE /\ sessions[s] # None /\ sessions' = [sessions EXCEPT ![s] = None]
             /\ call' = [call EXCEPT ![t] =
                   [@ EXCEPT !.other = sessions[s].run,
                             !.ver = IF call[t].round = 0 THEN sessions[s].ver
                                                          ELSE call[t].ver]]
             /\ Goto(t, "join")
    <2>1. pc'[t] = "join" /\ call'[t].other = sessions[s].run
      BY <1>5 DEF Goto, TypeInv, TypeOK, Call
    <2>2. \A r \in Ids : r # s => sessions'[r] = sessions[r]
      BY <1>5 DEF TypeInv, TypeOK
    <2>3. \A i \in Runs : InReach(i) => InReach(i)'
      <3> SUFFICES ASSUME NEW i \in Runs, InReach(i) PROVE InReach(i)'
        OBVIOUS
      <3>1. CASE \E r \in Ids : Stored(r, i)
        BY <2>1, <2>2, <3>1 DEF InReach, Stored
      <3>2. CASE \E u \in Threads : pc[u] = "join" /\ call[u].other = i
        <4>1. PICK u \in Threads : pc[u] = "join" /\ call[u].other = i
          BY <3>2
        <4> QED
          BY <1>1, <1>3, <4>1 DEF InReach
      <3> QED
        BY <3>1, <3>2 DEF InReach
    <2>4. pc'[t] \notin Opening /\ aged' \in aged..Len(births)
      BY <1>1, <2>1 DEF Opening, TypeInv, TypeOK
    <2>5. \A u \in Threads : pc'[u] \in Opening => pc[u] \in Opening /\ call'[u].run = call[u].run
      BY <1>3, <2>4
    <2> QED
      BY <1>1, <2>3, <2>4, <2>5, LosslessOn
  <1> QED
    BY <1>2, <1>4, <1>5 DEF Remove

\* A run that is joined has failed or is handed over.
LEMMA LosslessJoin ==
    ASSUME TypeInv, Lossless, NEW t \in Threads, Join(t)
    PROVE  Lossless'
  <1>1. Local(t) /\ UNCHANGED <<sessions, tasks, births, aged, asked>> /\ pc[t] = "join"
    BY StepIsLocal DEF Step, Join
  <1>2. PICK i \in Runs : i = call[t].other
    BY <1>1 DEF TypeInv, LocalsOK
  <1>3. \A u \in Threads : u # t => pc'[u] = pc[u] /\ call'[u] = call[u]
    BY <1>1 DEF Local
  <1>4. pc'[t] \notin Opening
    BY DEF Join, Return, Goto, Opening, TypeInv, TypeOK
  <1>5. /\ tasks[i].status = "failed" \/ completed'[i] # 0
        /\ \A j \in Runs : completed'[j] = 0 => completed[j] = 0
    BY <1>2 DEF Join, Ended, TypeInv, TypeOK
  <1>6. \A j \in Runs : j # i /\ InReach(j) => InReach(j)'
    <2> SUFFICES ASSUME NEW j \in Runs, j # i, InReach(j) PROVE InReach(j)'
      OBVIOUS
    <2>1. CASE \E r \in Ids : Stored(r, j)
      BY <1>1, <2>1 DEF InReach, Stored
    <2>2. CASE \E u \in Threads : pc[u] = "join" /\ call[u].other = j
      <3>1. PICK u \in Threads : pc[u] = "join" /\ call[u].other = j
        BY <2>2
      <3> QED
        BY <1>2, <1>3, <3>1 DEF InReach
    <2> QED
      BY <2>1, <2>2 DEF InReach
  <1>7. aged' \in aged..Len(births)
    BY <1>1 DEF TypeInv, TypeOK
  <1>8. \A u \in Threads : pc'[u] \in Opening => pc[u] \in Opening /\ call'[u].run = call[u].run
    BY <1>3, <1>4
  <1> QED
    BY <1>1, <1>5, <1>6, <1>7, <1>8, LosslessOn

LEMMA LosslessNext == Inv /\ Serial /\ Lossless /\ OneCallPerId /\ [Next]_vars => Lossless'
  <1> SUFFICES ASSUME Inv, TypeInv, Serial, Lossless, OneCallPerId, [Next]_vars
               PROVE  Lossless'
    BY DEF Inv
  <1>1. CASE \E i \in Runs : TaskStep(i)
    BY <1>1, LosslessTask
  <1>2. ASSUME NEW t \in Threads, NEW s \in Ids,
               \/ \E v \in Versions, n \in Payload : CallRound1(t, s, v, n)
               \/ CallAdvance(t, s)
               \/ CallCollect(t, s)
        PROVE  Lossless'
    BY <1>2, LosslessEnter
  <1>3. ASSUME NEW t \in Threads, Step(t) PROVE Lossless'
    BY <1>3, LosslessOpening, LosslessAdvancing, LosslessInsert, LosslessRemove,
       LosslessJoin DEF Step
  <1>4. CASE UNCHANGED vars
    <2>1. UNCHANGED <<sessions, tasks, pc, call, births, aged, asked, completed>>
      BY <1>4 DEF vars, callVars, histVars
    <2>2. aged' \in aged..Len(births)
      BY <2>1 DEF TypeInv, TypeOK
    <2>3. \A j \in Runs : InReach(j)' <=> InReach(j)
      BY <2>1 DEF InReach, Stored
    <2> QED
      BY <2>1, <2>2, <2>3, LosslessOn
  <1> QED
    BY <1>1, <1>2, <1>3, <1>4, LosslessAge DEF Next

\* For such a host the result of the latest run of an id can be had until it
\* is handed over or its session expires (ResultNotLost): the only step that
\* drops an unexpired session without joining its task is the insertion over
\* it (Insert), by a run that is later still.
THEOREM NothingLost == OneCallPerId /\ Spec => []ResultNotLost
  <1>1. Init => Inv /\ Serial /\ Lossless
    BY TypeInit, HandlesInit, SerialInit, LosslessInit DEF Inv
  <1>2. Inv /\ Serial /\ Lossless /\ OneCallPerId /\ [Next]_vars
           => (Inv /\ Serial /\ Lossless)'
    BY TypeNext, HandlesNext, SerialNext, LosslessNext DEF Inv
  <1>3. Lossless => ResultNotLost
    BY DEF Lossless, KeptInReach, Newest, InReach, Stored, ResultNotLost
  <1>4. CASE OneCallPerId
    BY <1>1, <1>2, <1>3, <1>4, PTL DEF Spec
  <1> QED
    BY <1>4
=============================================================================
