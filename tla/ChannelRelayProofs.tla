-------------------------- MODULE ChannelRelayProofs --------------------------
(***************************************************************************)
(* Proofs about ChannelRelay, for every protocol script, every capacity    *)
(* and every sequence of envelopes.                                        *)
(***************************************************************************)
EXTENDS ChannelRelay, SequenceTheorems, TLAPS

-----------------------------------------------------------------------------
(* Facts about sequences.                                                  *)

\* The first n + 1 messages are the first n and one more.
LEMMA IotaStep ==
    ASSUME NEW n \in Nat
    PROVE  Iota(n + 1) = Append(Iota(n), n + 1)
  BY DEF Iota

LEMMA IotaSeq ==
    ASSUME NEW n \in Nat
    PROVE  Iota(n) \in Seq(Nat) /\ Len(Iota(n)) = n
  BY DEF Iota

LEMMA EnvelopeSeq ==
    ASSUME NEW n \in Nat, offered \in Nat
    PROVE  Envelope(n) \in Seq(Nat)
  BY DEF Envelope

\* Head and tail of a non-empty sequence, typed and put together again.
LEMMA HeadTail ==
    ASSUME NEW S, NEW q \in Seq(S), q # <<>>
    PROVE  /\ Head(q) \in S
           /\ Tail(q) \in Seq(S)
           /\ Len(Tail(q)) = Len(q) - 1
           /\ <<Head(q)>> \o Tail(q) = q
  <1>1. Head(q) \in S /\ Tail(q) \in Seq(S)
    BY HeadTailProperties
  <1>2. Len(q) \in Nat \ {0}
    BY EmptySeq
  <1>3. Len(Tail(q)) = Len(q) - 1
    OBVIOUS
  <1>4. <<Head(q)>> \in Seq(S) /\ Len(<<Head(q)>>) = 1 /\ <<Head(q)>>[1] = q[1]
    BY <1>1
  <1>5. \A i \in 1..Len(Tail(q)) : Tail(q)[i] = q[i + 1]
    BY <1>2, <1>3
  <1>6. /\ <<Head(q)>> \o Tail(q) \in Seq(S)
        /\ Len(<<Head(q)>> \o Tail(q)) = Len(q)
    BY <1>1, <1>2, <1>3, <1>4, ConcatProperties
  <1>7. \A i \in 1..Len(q) : (<<Head(q)>> \o Tail(q))[i] = q[i]
    BY <1>1, <1>2, <1>3, <1>4, <1>5
  <1>8. <<Head(q)>> \o Tail(q) = q
    BY <1>6, <1>7, SeqEqual
  <1> QED
    BY <1>1, <1>3, <1>8

LEMMA ConcatAssoc ==
    \A s, t, u \in Seq(Nat) : (s \o t) \o u = s \o (t \o u)
  BY ConcatAssociative, SMTT(40)

LEMMA Reassociate ==
    ASSUME NEW d \in Seq(Nat), NEW m \in Seq(Nat), NEW h \in Seq(Nat),
           NEW t \in Seq(Nat)
    PROVE  d \o (m \o h) \o t = d \o m \o (h \o t)
  <1>1. d \o (m \o h) = (d \o m) \o h
    BY ConcatAssoc
  <1>2. d \o m \in Seq(Nat)
    BY ConcatProperties
  <1>3. ((d \o m) \o h) \o t = (d \o m) \o (h \o t)
    BY <1>2, ConcatAssoc
  <1> QED
    BY <1>1, <1>3

\* Moving the head of a channel to the end of a batch keeps the order.
LEMMA MoveHead ==
    ASSUME NEW d \in Seq(Nat), NEW m \in Seq(Nat), NEW q \in Seq(Nat),
           q # <<>>
    PROVE  d \o Append(m, Head(q)) \o Tail(q) = d \o m \o q
  <1>1. /\ <<Head(q)>> \in Seq(Nat) /\ Tail(q) \in Seq(Nat)
        /\ <<Head(q)>> \o Tail(q) = q
    BY HeadTail
  <1>2. Append(m, Head(q)) = m \o <<Head(q)>>
    BY HeadTail, AppendIsConcat
  <1>3. d \o (m \o <<Head(q)>>) \o Tail(q) = d \o m \o (<<Head(q)>> \o Tail(q))
    <2>1. \A h, t \in Seq(Nat) : d \o (m \o h) \o t = d \o m \o (h \o t)
      BY Reassociate
    <2>2. <<Head(q)>> \in Seq(Nat) /\ Tail(q) \in Seq(Nat)
      BY <1>1
    <2> QED
      BY <2>1, <2>2, Zenon
  <1> QED
    BY <1>1, <1>2, <1>3

\* The same when the batch is still empty.
LEMMA TakeFirst ==
    ASSUME NEW d \in Seq(Nat), NEW q \in Seq(Nat), q # <<>>
    PROVE  d \o <<Head(q)>> \o Tail(q) = d \o <<>> \o q
  <1>1. <<>> \in Seq(Nat)
    BY EmptySeq
  <1>2. Append(<<>>, Head(q)) = <<Head(q)>>
    OBVIOUS
  <1> QED
    BY <1>1, <1>2, MoveHead

\* A message entering the channel comes last.
LEMMA PushLast ==
    ASSUME NEW d \in Seq(Nat), NEW m \in Seq(Nat), NEW q \in Seq(Nat),
           NEW x \in Nat
    PROVE  d \o m \o Append(q, x) = Append(d \o m \o q, x)
  <1>1. /\ Append(q, x) = q \o <<x>>
        /\ d \o m \in Seq(Nat)
        /\ <<x>> \in Seq(Nat)
    BY AppendIsConcat, ConcatProperties
  <1>2. d \o m \o q \in Seq(Nat)
    BY <1>1, ConcatProperties
  <1>3. Append(d \o m \o q, x) = (d \o m \o q) \o <<x>>
    BY <1>2, AppendIsConcat
  <1>4. (d \o m) \o (q \o <<x>>) = ((d \o m) \o q) \o <<x>>
    BY <1>1, ConcatAssoc
  <1> QED
    BY <1>1, <1>3, <1>4

-----------------------------------------------------------------------------
(* Type correctness.                                                       *)

\* What the assumptions say of the script and of the envelopes.
LEMMA ScriptTypes ==
    /\ Len(Script) \in Nat \ {0}
    /\ \A p \in 1..Len(Script) : Script[p].send \in Nat /\ Script[p].need \in Nat
    /\ Len(Payloads) \in Nat
    /\ \A c \in 1..Len(Payloads) : Payloads[c] \subseteq Nat
  <1>1. Len(Script) \in Nat \ {0}
    BY RelayAssumption, EmptySeq
  <1>2. ASSUME NEW p \in 1..Len(Script)
        PROVE  Script[p].send \in Nat /\ Script[p].need \in Nat
    <2>1. Script[p] \in [send : Nat, need : Nat]
      BY RelayAssumption, ElementOfSeq
    <2> QED
      BY <2>1
  <1>3. Len(Payloads) \in Nat
    BY RelayAssumption, LenProperties
  <1>4. ASSUME NEW c \in 1..Len(Payloads)
        PROVE  Payloads[c] \subseteq Nat
    <2>1. Payloads[c] \in SUBSET Nat
      BY RelayAssumption, ElementOfSeq
    <2> QED
      BY <2>1
  <1> QED
    BY <1>1, <1>2, <1>3, <1>4

LEMMA TypeInit == Init => TypeOK
  <1> SUFFICES ASSUME Init PROVE TypeOK
    OBVIOUS
  <1>1. /\ <<>> \in Seq(Nat) /\ Len(<<>>) = 0
        /\ 0 <= InCap /\ 0 <= OutCap
    BY RelayAssumption, EmptySeq
  <1>2. 1 \in 1..Len(Script) /\ 0 \in 0..Len(Payloads)
    BY ScriptTypes
  <1>3. tx_in_open \in BOOLEAN /\ permit \in BOOLEAN /\ protocol_done \in BOOLEAN
    BY DEF Init
  <1> QED
    BY <1>1, <1>2, <1>3 DEF Init, TypeOK

\* Taking the head of a channel leaves it typed and within its capacity.
LEMMA Shrink ==
    ASSUME NEW q \in Seq(Nat), NEW cap \in Nat, q # <<>>, Len(q) <= cap
    PROVE  Head(q) \in Nat /\ Tail(q) \in Seq(Nat) /\ Len(Tail(q)) <= cap
  <1>1. Len(q) \in Nat
    BY LenProperties
  <1> QED
    BY <1>1, HeadTail

LEMMA AppendNotEmpty ==
    ASSUME NEW q \in Seq(Nat), NEW x \in Nat
    PROVE  Append(q, x) # <<>>
  BY AppendProperties

LEMMA TypeTask ==
    TypeOK /\ Task => TypeOK'
  <1> SUFFICES ASSUME TypeOK, Task PROVE TypeOK'
    OBVIOUS
  <1> USE DEF TypeOK, taskVars, chanVars, notifyVars, callVars, End
  <1>1. CASE TaskSend
    <2>1. rx_out' \in Seq(Nat) /\ Len(rx_out') = Len(rx_out) + 1
      BY <1>1, AppendProperties DEF TaskSend
    <2> QED
      BY <1>1, <2>1, RelayAssumption DEF TaskSend
  <1>2. CASE TaskSendFails
    BY <1>2, RelayAssumption DEF TaskSendFails
  <1>3. CASE TaskRecv
    <2>1. /\ Head(rx_in) \in Nat
          /\ Tail(rx_in) \in Seq(Nat) /\ Len(Tail(rx_in)) <= InCap
      BY <1>3, Shrink, RelayAssumption DEF TaskRecv
    <2>2. received' \in Seq(Nat)
      BY <1>3, <2>1, AppendProperties DEF TaskRecv
    <2> QED
      BY <1>3, <2>1, <2>2 DEF TaskRecv, WantsInput
  <1>4. CASE TaskReject
    <2>1. received' \in Seq(Nat)
      BY <1>4, HeadTail, AppendProperties DEF TaskReject, WantsInput
    <2> QED
      BY <1>4, <2>1, RelayAssumption DEF TaskReject, WantsInput
  <1>5. CASE TaskPollEmpty
    <2>1. permit' \in BOOLEAN /\ waiter' \in {"none", "waiting", "notified"}
      <3>1. CASE waiter = "waiting"
        BY <1>5, <3>1 DEF TaskPollEmpty, NotifyOne
      <3>2. CASE waiter # "waiting"
        BY <1>5, <3>2 DEF TaskPollEmpty, NotifyOne
      <3> QED
        BY <3>1, <3>2
    <2> QED
      BY <1>5, <2>1 DEF TaskPollEmpty
  <1>6. CASE TaskPollClosed
    BY <1>6, RelayAssumption DEF TaskPollClosed
  <1>7. CASE TaskNextPhase
    BY <1>7, ScriptTypes DEF TaskNextPhase
  <1>8. CASE TaskFinish
    BY <1>8, RelayAssumption DEF TaskFinish
  <1> QED
    BY <1>1, <1>2, <1>3, <1>4, <1>5, <1>6, <1>7, <1>8 DEF Task

LEMMA TypeTakesEnvelope ==
    ASSUME TypeOK, NEW r \in {1, 2}, TakesEnvelope(r)
    PROVE  /\ calls' \in 0..Len(Payloads)
           /\ inbox' \in Seq(Nat)
           /\ offered' \in Nat
           /\ round' = r /\ pc' = "inject"
  <1>1. PICK n \in Payloads[calls + 1] :
            inbox' = Envelope(n) /\ offered' = offered + n
    BY DEF TakesEnvelope
  <1>2. calls' = calls + 1 /\ calls + 1 \in 1..Len(Payloads)
    BY ScriptTypes DEF TakesEnvelope, TypeOK
  <1>3. n \in Nat
    BY <1>1, <1>2, ScriptTypes
  <1>4. inbox' \in Seq(Nat)
    BY <1>1, <1>3, EnvelopeSeq DEF TypeOK
  <1>5. offered' \in Nat
    BY <1>1, <1>3 DEF TypeOK
  <1>6. calls' \in 0..Len(Payloads)
    BY <1>2
  <1> QED
    BY <1>4, <1>5, <1>6 DEF TakesEnvelope

LEMMA TypeCall ==
    TypeOK /\ Call => TypeOK'
  <1> SUFFICES ASSUME TypeOK, Call PROVE TypeOK'
    OBVIOUS
  <1> USE DEF TypeOK, taskVars, chanVars, notifyVars
  <1>1. CASE CallRound1
    BY <1>1, TypeTakesEnvelope, ScriptTypes DEF CallRound1, TakesEnvelope
  <1>2. CASE CallAdvance
    BY <1>2, TypeTakesEnvelope DEF CallAdvance, TakesEnvelope
  <1>3. CASE CallCollect
    BY <1>3 DEF CallCollect
  <1> QED
    BY <1>1, <1>2, <1>3 DEF Call

LEMMA TypeCallStep ==
    TypeOK /\ CallStep => TypeOK'
  <1> SUFFICES ASSUME TypeOK, CallStep PROVE TypeOK'
    OBVIOUS
  <1> USE DEF TypeOK, taskVars, chanVars, notifyVars, callVars, Return
  <1>1. CASE Inject
    <2>1. /\ inbox' \in Seq(Nat)
          /\ rx_in' \in Seq(Nat) /\ Len(rx_in') = Len(rx_in) + 1
      BY <1>1, HeadTail, AppendProperties DEF Inject
    <2> QED
      BY <1>1, <2>1, RelayAssumption DEF Inject
  <1>2. CASE InjectFails
    <2>1. session' \in {"none", "open", "closed"} /\ tx_in_open' \in BOOLEAN
      <3>1. CASE round = 1
        BY <1>2, <3>1 DEF InjectFails
      <3>2. CASE round # 1
        BY <1>2, <3>2 DEF InjectFails
      <3> QED
        BY <3>1, <3>2
    <2> QED
      BY <1>2, <2>1 DEF InjectFails
  <1>3. CASE InjectDone
    BY <1>3 DEF InjectDone
  <1>4. CASE Enable
    <2>1. waiter' \in {"none", "waiting", "notified"}
      BY <1>4 DEF Enable
    <2>2. permit' \in BOOLEAN /\ protocol_done' \in BOOLEAN
      BY <1>4 DEF Enable
    <2> QED
      BY <1>4, <2>1, <2>2 DEF Enable
  <1>5. CASE RecvFirst
    <2>1. /\ Head(rx_out) \in Nat
          /\ Tail(rx_out) \in Seq(Nat) /\ Len(Tail(rx_out)) <= OutCap
      BY <1>5, Shrink, RelayAssumption DEF RecvFirst
    <2> QED
      BY <1>5, <2>1 DEF RecvFirst
  <1>6. CASE RecvNone
    BY <1>6 DEF RecvNone
  <1>7. CASE SelectNotified
    BY <1>7 DEF SelectNotified
  <1>8. CASE SelectRecv
    <2>1. /\ Head(rx_out) \in Nat
          /\ Tail(rx_out) \in Seq(Nat) /\ Len(Tail(rx_out)) <= OutCap
      BY <1>8, Shrink, RelayAssumption DEF SelectRecv
    <2>2. messages' \in Seq(Nat)
      BY <1>8, <2>1, AppendProperties DEF SelectRecv
    <2> QED
      BY <1>8, <2>1, <2>2 DEF SelectRecv
  <1>9. CASE SelectClosed
    BY <1>9 DEF SelectClosed
  <1>10. CASE Drain
    <2>1. /\ Head(rx_out) \in Nat
          /\ Tail(rx_out) \in Seq(Nat) /\ Len(Tail(rx_out)) <= OutCap
      BY <1>10, Shrink, RelayAssumption DEF Drain
    <2>2. messages' \in Seq(Nat)
      BY <1>10, <2>1, AppendProperties DEF Drain
    <2> QED
      BY <1>10, <2>1, <2>2 DEF Drain
  <1>11. CASE DrainDone
    <2>1. delivered' \in Seq(Nat)
      BY <1>11, ConcatProperties DEF DrainDone
    <2> QED
      BY <1>11, <2>1 DEF DrainDone
  <1>12. CASE Join
    BY <1>12 DEF Join
  <1> QED
    BY <1>1, <1>2, <1>3, <1>4, <1>5, <1>6, <1>7, <1>8, <1>9, <1>10, <1>11,
       <1>12 DEF CallStep

LEMMA TypeNext == TypeOK /\ [Next]_vars => TypeOK'
  <1> SUFFICES ASSUME TypeOK, [Next]_vars PROVE TypeOK'
    OBVIOUS
  <1>1. CASE UNCHANGED vars
    BY <1>1 DEF vars, taskVars, chanVars, notifyVars, callVars, TypeOK
  <1> QED
    BY <1>1, TypeTask, TypeCall, TypeCallStep DEF Next

\* Every variable keeps its type; in particular neither channel ever holds
\* more than its capacity (mpsc::channel(16) and mpsc::channel(64)).
THEOREM TypeCorrect == Spec => []TypeOK
  BY TypeInit, TypeNext, PTL DEF Spec

-----------------------------------------------------------------------------
(* The control invariant: how the statement a call is at, the session map, *)
(* the Notify and the task hang together.                                  *)

Control ==
    /\ waiter = "none" <=> pc \notin {"first", "select"}
    /\ pc \in {"select", "drain"} <=> messages # <<>>
    /\ pc # "inject" => inbox = <<>>
    /\ status = "none" <=> session = "none" /\ pc = "idle"
    /\ status = "none" => offered = 0 /\ received = <<>> /\ rx_in = <<>>
    /\ pc \notin {"idle", "join"} /\ round = 1 => session = "none"
    /\ pc \notin {"idle", "join"} /\ round # 1 => session = "open"
    /\ pc = "join" => session = "closed"
    /\ pc # "idle" /\ round = 0 => pc = "join"
    /\ session = "closed" /\ round = 1 => pc = "idle"
    /\ session = "closed" /\ pc = "idle" => Ended /\ reply # "continue"
    /\ pc = "join" /\ round # 0 => Ended /\ rx_out = <<>>
    /\ reply = "completed" =>
          /\ pc = "idle" /\ session = "closed" /\ status = "done"
          /\ round # 0 => rx_out = <<>>

\* The Notify half of the invariant: a task that waits has left its signal
\* where the collector will find it before it blocks for the task.
Signalled ==
    status = "pending" =>
        /\ pc = "select" => waiter = "notified"
        /\ pc = "first" /\ rx_out # <<>> => waiter = "notified"
        /\ pc \in {"idle", "inject", "enable"} /\ rx_out # <<>> => permit
LEMMA ControlInit == Init => Control /\ Signalled
  BY DEF Init, Control, Signalled

LEMMA ControlTask ==
    TypeOK /\ Control /\ Task => Control'
  <1> SUFFICES ASSUME TypeOK, Control, Task PROVE Control'
    OBVIOUS
  <1> USE DEF Control, TypeOK, taskVars, chanVars, notifyVars, callVars, End,
              Alive, Ended, WantsInput
  <1>1. CASE TaskSend
    BY <1>1 DEF TaskSend
  <1>2. CASE TaskSendFails
    BY <1>2 DEF TaskSendFails
  <1>3. CASE TaskRecv
    BY <1>3 DEF TaskRecv
  <1>4. CASE TaskReject
    BY <1>4 DEF TaskReject
  <1>5. CASE TaskPollEmpty
    <2>1. waiter' = "none" <=> waiter = "none"
      BY <1>5 DEF TaskPollEmpty, NotifyOne
    <2> QED
      BY <1>5, <2>1 DEF TaskPollEmpty
  <1>6. CASE TaskPollClosed
    BY <1>6 DEF TaskPollClosed
  <1>7. CASE TaskNextPhase
    BY <1>7 DEF TaskNextPhase
  <1>8. CASE TaskFinish
    BY <1>8 DEF TaskFinish
  <1> QED
    BY <1>1, <1>2, <1>3, <1>4, <1>5, <1>6, <1>7, <1>8 DEF Task

LEMMA ControlCall ==
    TypeOK /\ Control /\ (Call \/ CallStep) => Control'
  <1> SUFFICES ASSUME TypeOK, Control, Call \/ CallStep PROVE Control'
    OBVIOUS
  <1> USE DEF Control, taskVars, chanVars, notifyVars, callVars, Return,
              Alive, Ended
  <1>1. CASE CallRound1
    BY <1>1 DEF CallRound1, TakesEnvelope
  <1>2. CASE CallAdvance
    BY <1>2 DEF CallAdvance, TakesEnvelope
  <1>3. CASE CallCollect
    BY <1>3 DEF CallCollect
  <1>4. CASE Inject
    BY <1>4 DEF Inject
  <1>5. CASE InjectFails
    <2>1. CASE round = 1
      BY <1>5, <2>1 DEF InjectFails
    <2>2. CASE round # 1
      BY <1>5, <2>2 DEF InjectFails, TypeOK
    <2> QED
      BY <2>1, <2>2
  <1>6. CASE InjectDone
    BY <1>6 DEF InjectDone
  <1>7. CASE Enable
    BY <1>7 DEF Enable
  <1>8. CASE RecvFirst
    BY <1>8 DEF RecvFirst
  <1>9. CASE RecvNone
    <2>1. CASE round = 1
      BY <1>9, <2>1 DEF RecvNone
    <2>2. CASE round # 1
      BY <1>9, <2>2 DEF RecvNone
    <2> QED
      BY <2>1, <2>2
  <1>10. CASE SelectNotified
    BY <1>10 DEF SelectNotified
  <1>11. CASE SelectRecv
    <2>1. Head(rx_out) \in Nat
      BY <1>11, HeadTail DEF SelectRecv, TypeOK
    <2>2. Append(messages, Head(rx_out)) # <<>>
      BY <2>1, AppendNotEmpty DEF TypeOK
    <2> QED
      BY <1>11, <2>2 DEF SelectRecv
  <1>12. CASE SelectClosed
    BY <1>12 DEF SelectClosed
  <1>13. CASE Drain
    <2>1. Head(rx_out) \in Nat
      BY <1>13, HeadTail DEF Drain, TypeOK
    <2>2. Append(messages, Head(rx_out)) # <<>>
      BY <2>1, AppendNotEmpty DEF TypeOK
    <2> QED
      BY <1>13, <2>2 DEF Drain
  <1>14. CASE DrainDone
    BY <1>14 DEF DrainDone
  <1>15. CASE Join
    BY <1>15 DEF Join
  <1> QED
    BY <1>1, <1>2, <1>3, <1>4, <1>5, <1>6, <1>7, <1>8, <1>9, <1>10, <1>11,
       <1>12, <1>13, <1>14, <1>15 DEF Call, CallStep

\* No step of the task or of the call leaves a waiting task unannounced.
LEMMA SignalledNext ==
    TypeOK /\ Control /\ Signalled /\ Next => Signalled'
  <1> SUFFICES ASSUME TypeOK, Control, Signalled, Next PROVE Signalled'
    OBVIOUS
  <1> USE DEF Signalled, taskVars, chanVars, notifyVars, callVars
  <1>1. CASE Task
    <2>1. CASE TaskPollEmpty
      <3>1. CASE waiter = "waiting"
        BY <1>1, <2>1, <3>1 DEF TaskPollEmpty, NotifyOne, Control
      <3>2. CASE waiter = "notified"
        BY <1>1, <2>1, <3>2 DEF TaskPollEmpty, NotifyOne, Control
      <3>3. CASE waiter = "none"
        BY <1>1, <2>1, <3>3 DEF TaskPollEmpty, NotifyOne, Control
      <3> QED
        BY <3>1, <3>2, <3>3 DEF TypeOK
    <2>2. CASE Task /\ ~TaskPollEmpty
      <3>1. status' # "pending"
        BY <2>2 DEF Task, TaskSend, TaskSendFails, TaskRecv, TaskReject,
           TaskPollClosed, TaskNextPhase, TaskFinish, End
      <3> QED
        BY <3>1
    <2> QED
      BY <1>1, <2>1, <2>2
  <1>2. CASE Call
    BY <1>2 DEF Call, CallRound1, CallAdvance, CallCollect, TakesEnvelope
  <1>3. CASE CallStep
    <2>1. CASE Inject \/ InjectFails \/ InjectDone
      BY <2>1 DEF Inject, InjectFails, InjectDone, Return
    <2>2. CASE Enable
      BY <2>2 DEF Enable
    <2>3. CASE RecvFirst
      BY <2>3 DEF RecvFirst
    <2>4. CASE RecvNone
      BY <2>4 DEF RecvNone, Return
    <2>5. CASE SelectNotified \/ SelectRecv \/ SelectClosed
      BY <2>5 DEF SelectNotified, SelectRecv, SelectClosed
    <2>6. CASE Drain \/ DrainDone
      BY <2>6 DEF Drain, DrainDone, Return
    <2>7. CASE Join
      BY <2>7 DEF Join, Return, Ended
    <2> QED
      BY <1>3, <2>1, <2>2, <2>3, <2>4, <2>5, <2>6, <2>7 DEF CallStep
  <1> QED
    BY <1>1, <1>2, <1>3 DEF Next

\* A collector in select! is never left waiting for a task that waits itself
\* (T-16-09 of collect_batch).
THEOREM WakeupNeverLost == Spec => []NoLostWakeup
  <1> DEFINE Inv == TypeOK /\ Control /\ Signalled
  <1>1. Init => Inv
    BY TypeInit, ControlInit
  <1>2. Inv /\ [Next]_vars => Inv'
    <2>1. Inv /\ Next => Inv'
      BY TypeNext, ControlTask, ControlCall, SignalledNext DEF Next
    <2>2. Inv /\ UNCHANGED vars => Inv'
      BY TypeNext DEF vars, taskVars, chanVars, notifyVars, callVars, Control,
         Signalled, Alive, Ended
    <2> QED
      BY <2>1, <2>2
  <1>3. Inv => NoLostWakeup
    BY DEF Signalled, NoLostWakeup
  <1> QED
    BY <1>1, <1>2, <1>3, PTL DEF Spec
-----------------------------------------------------------------------------
(* Messages to the caller: nothing lost, duplicated or reordered.          *)

LEMMA FifoToCallerInit == Init => FifoToCaller
  <1> SUFFICES ASSUME Init PROVE FifoToCaller
    OBVIOUS
  <1>1. Iota(0) = <<>>
    BY DEF Iota
  <1>2. <<>> \o <<>> \o <<>> = <<>>
    BY EmptySeq, ConcatEmptySeq
  <1> QED
    BY <1>1, <1>2 DEF Init, FifoToCaller

LEMMA FifoToCallerNext ==
    TypeOK /\ Control /\ FifoToCaller /\ Next => FifoToCaller'
  <1> SUFFICES ASSUME TypeOK, Control, FifoToCaller, Next PROVE FifoToCaller'
    OBVIOUS
  <1>0. /\ delivered \in Seq(Nat) /\ messages \in Seq(Nat)
        /\ rx_out \in Seq(Nat) /\ sent \in Nat
        /\ delivered \o messages \o rx_out = Iota(sent)
    BY DEF TypeOK, FifoToCaller
  <1>1. CASE TaskSend
    <2>1. delivered \o messages \o Append(rx_out, sent + 1)
            = Append(Iota(sent), sent + 1)
      <3>1. sent + 1 \in Nat
        BY <1>0
      <3>2. delivered \o messages \o Append(rx_out, sent + 1)
              = Append(delivered \o messages \o rx_out, sent + 1)
        BY <1>0, <3>1, PushLast
      <3> QED
        BY <1>0, <3>2
    <2> QED
      BY <1>0, <1>1, <2>1, IotaStep DEF TaskSend, FifoToCaller, callVars
  <1>2. CASE RecvFirst
    <2>1. messages = <<>>
      BY <1>2 DEF RecvFirst, Control
    <2>2. delivered \o <<Head(rx_out)>> \o Tail(rx_out)
            = delivered \o <<>> \o rx_out
      BY <1>0, <1>2, TakeFirst DEF RecvFirst
    <2> QED
      BY <1>0, <1>2, <2>1, <2>2 DEF RecvFirst, FifoToCaller, taskVars
  <1>3. CASE SelectRecv
    <2>1. delivered \o Append(messages, Head(rx_out)) \o Tail(rx_out)
            = delivered \o messages \o rx_out
      <3>1. rx_out # <<>>
        BY <1>3 DEF SelectRecv
      <3> QED
        BY <1>0, <3>1, MoveHead
    <2> QED
      BY <1>0, <1>3, <2>1 DEF SelectRecv, FifoToCaller, taskVars
  <1>4. CASE Drain
    <2>1. delivered \o Append(messages, Head(rx_out)) \o Tail(rx_out)
            = delivered \o messages \o rx_out
      <3>1. rx_out # <<>>
        BY <1>4 DEF Drain
      <3> QED
        BY <1>0, <3>1, MoveHead
    <2> QED
      BY <1>0, <1>4, <2>1 DEF Drain, FifoToCaller, taskVars
  <1>5. CASE DrainDone
    <2>1. delivered \o messages \in Seq(Nat)
      BY <1>0, ConcatProperties
    <2>2. (delivered \o messages) \o <<>> = delivered \o messages
      BY <2>1, ConcatEmptySeq
    <2> QED
      BY <1>0, <1>5, <2>2 DEF DrainDone, FifoToCaller, taskVars, chanVars
  <1>6. CASE UNCHANGED <<delivered, messages, rx_out, sent>>
    BY <1>6 DEF FifoToCaller
  <1>7. \/ TaskSend \/ RecvFirst \/ SelectRecv \/ Drain \/ DrainDone
        \/ UNCHANGED <<delivered, messages, rx_out, sent>>
    BY DEF Next, Task, Call, CallStep, TaskSendFails, TaskRecv, TaskReject,
       TaskPollEmpty, TaskPollClosed, TaskNextPhase, TaskFinish, End,
       CallRound1, CallAdvance, CallCollect, TakesEnvelope, Inject,
       InjectFails, InjectDone, Enable, RecvNone, SelectNotified,
       SelectClosed, Join, Return, taskVars, chanVars, notifyVars, callVars
  <1> QED
    BY <1>1, <1>2, <1>3, <1>4, <1>5, <1>6, <1>7

\* Everything but the messages to the task, as one inductive invariant.
CallerInv == TypeOK /\ Control /\ FifoToCaller

LEMMA CallerInvInductive ==
    /\ Init => CallerInv
    /\ CallerInv /\ [Next]_vars => CallerInv'
  <1>1. Init => CallerInv
    BY TypeInit, ControlInit, FifoToCallerInit DEF CallerInv
  <1>2. CallerInv /\ Next => CallerInv'
    BY TypeNext, ControlTask, ControlCall, FifoToCallerNext DEF CallerInv, Next
  <1>3. CallerInv /\ UNCHANGED vars => CallerInv'
    BY TypeNext DEF CallerInv, vars, taskVars, chanVars, notifyVars, callVars,
       Control, FifoToCaller, Ended
  <1> QED
    BY <1>1, <1>2, <1>3

\* The caller gets the task's messages in order, each exactly once, whichever
\* branch of select! ends a batch.
THEOREM CallerGetsEveryMessage == Spec => []FifoToCaller
  <1>1. CallerInv => FifoToCaller
    BY DEF CallerInv
  <1> QED
    BY <1>1, CallerInvInductive, PTL DEF Spec

\* When collect_batch's None completes a session, no message is left behind.
THEOREM NothingLeftBehind == Spec => []CompletedMeansDelivered
  <1>1. CallerInv => CompletedMeansDelivered
    <2> SUFFICES ASSUME CallerInv, reply = "completed", round # 0
                 PROVE  delivered = Iota(sent)
      BY DEF CompletedMeansDelivered
    <2>1. messages = <<>> /\ rx_out = <<>>
      BY DEF CallerInv, Control
    <2>2. delivered \in Seq(Nat)
      BY DEF CallerInv, TypeOK
    <2>3. delivered \o <<>> \o <<>> = delivered
      BY <2>2, ConcatEmptySeq
    <2> QED
      BY <2>1, <2>3 DEF CallerInv, FifoToCaller
  <1> QED
    BY <1>1, CallerInvInductive, PTL DEF Spec
-----------------------------------------------------------------------------
(* The bridge implements the pipe.                                         *)

LEMMA PipeInit == Init => Pipe!Init
  <1>1. Iota(0) = <<>>
    BY DEF Iota
  <1> QED
    BY <1>1 DEF Init, Pipe!Init, PipeProtocol, PipeCut, PipeOutcome, Ended

\* A send is a Produce; the end of the task is an End; the rest is hidden.
LEMMA PipeTask ==
    CallerInv /\ Task => [Pipe!Next]_Pipe!pipeVars
  <1> SUFFICES ASSUME CallerInv, Task PROVE [Pipe!Next]_Pipe!pipeVars
    OBVIOUS
  <1> USE DEF PipeProtocol, PipeCut, PipeOutcome, Ended, End, callVars
  <1>1. CASE TaskSend
    <2>1. Iota(sent') = Append(Iota(sent), Len(Iota(sent)) + 1)
      BY <1>1, IotaStep, IotaSeq DEF TaskSend, CallerInv, TypeOK
    <2>2. Pipe!Produce
      BY <1>1, <2>1 DEF TaskSend, Pipe!Produce
    <2> QED
      BY <2>2 DEF Pipe!Next
  <1>2. CASE TaskSendFails \/ TaskReject \/ TaskPollClosed \/ TaskFinish
    <2>1. Pipe!End
      BY <1>2 DEF TaskSendFails, TaskReject, TaskPollClosed, TaskFinish,
         WantsInput, Alive, Pipe!End
    <2> QED
      BY <2>1 DEF Pipe!Next
  <1>3. CASE TaskRecv \/ TaskPollEmpty \/ TaskNextPhase
    <2>1. UNCHANGED Pipe!pipeVars
      BY <1>3 DEF TaskRecv, TaskPollEmpty, TaskNextPhase, WantsInput, Alive,
         Pipe!pipeVars
    <2> QED
      BY <2>1
  <1> QED
    BY <1>1, <1>2, <1>3 DEF Task

LEMMA PipeCall ==
    CallerInv /\ Call => [Pipe!Next]_Pipe!pipeVars
  <1> SUFFICES ASSUME CallerInv, Call PROVE [Pipe!Next]_Pipe!pipeVars
    OBVIOUS
  <1> USE DEF PipeProtocol, PipeCut, PipeOutcome, Ended, CallerInv, Control,
              taskVars
  <1>1. CASE CallRound1
    <2>1. UNCHANGED Pipe!pipeVars
      BY <1>1 DEF CallRound1, TakesEnvelope, Pipe!pipeVars
    <2> QED
      BY <2>1
  <1>2. CASE CallAdvance
    <2>1. UNCHANGED Pipe!pipeVars
      BY <1>2 DEF CallAdvance, TakesEnvelope, Pipe!pipeVars
    <2> QED
      BY <2>1
  <1>3. CASE CallCollect
    <2>1. Pipe!Cut
      BY <1>3 DEF CallCollect, Pipe!Cut
    <2> QED
      BY <2>1 DEF Pipe!Next
  <1> QED
    BY <1>1, <1>2, <1>3 DEF Call

\* The end of a batch is a Deliver, the end of a join or of a failed call is
\* a Complete or a Fail.
LEMMA PipeCallStep ==
    CallerInv /\ CallStep => [Pipe!Next]_Pipe!pipeVars
  <1> SUFFICES ASSUME CallerInv, CallStep PROVE [Pipe!Next]_Pipe!pipeVars
    OBVIOUS
  <1> USE DEF PipeProtocol, PipeCut, PipeOutcome, Ended, Control, Return,
              taskVars
  <1>1. CASE InjectFails \/ RecvNone
    <2>1. CASE round = 1
      <3>1. Pipe!Fail
        BY <1>1, <2>1 DEF InjectFails, RecvNone, Pipe!Fail, CallerInv
      <3> QED
        BY <3>1 DEF Pipe!Next
    <2>2. CASE round # 1
      <3>1. UNCHANGED Pipe!pipeVars
        BY <1>1, <2>2 DEF InjectFails, RecvNone, Pipe!pipeVars, CallerInv
      <3> QED
        BY <3>1
    <2> QED
      BY <2>1, <2>2
  <1>2. CASE DrainDone
    <2>1. delivered \in Seq(Nat) /\ messages \in Seq(Nat) /\ messages # <<>>
      BY <1>2 DEF DrainDone, CallerInv, TypeOK
    <2>2. delivered \o messages \in Seq(Nat)
      BY <2>1, ConcatProperties
    <2>3. (delivered \o messages) \o <<>> = delivered \o messages
      BY <2>2, ConcatEmptySeq
    <2>4. delivered' = Iota(sent)
      BY <1>2, <2>3 DEF DrainDone, CallerInv, FifoToCaller
    <2>5. delivered \o messages # delivered
      BY <2>1, ConcatEqualIffEmpty
    <2>6. delivered # Iota(sent)
      BY <1>2, <2>4, <2>5 DEF DrainDone
    <2>7. Pipe!Deliver
      BY <1>2, <2>4, <2>6 DEF DrainDone, Pipe!Deliver, CallerInv
    <2> QED
      BY <2>7 DEF Pipe!Next
  <1>3. CASE Join
    <2>1. CASE status = "done"
      <3>1. round # 0 => delivered = Iota(sent)
        <4> SUFFICES ASSUME round # 0 PROVE delivered = Iota(sent)
          OBVIOUS
        <4>1. messages = <<>> /\ rx_out = <<>>
          BY <1>3 DEF Join, CallerInv
        <4>2. delivered \o <<>> \o <<>> = delivered
          BY ConcatEmptySeq DEF CallerInv, TypeOK
        <4> QED
          BY <4>1, <4>2 DEF CallerInv, FifoToCaller
      <3>2. Pipe!Complete
        BY <1>3, <2>1, <3>1 DEF Join, Pipe!Complete, CallerInv
      <3> QED
        BY <3>2 DEF Pipe!Next
    <2>2. CASE status # "done"
      <3>1. Pipe!Fail
        BY <1>3, <2>2 DEF Join, Pipe!Fail, CallerInv
      <3> QED
        BY <3>1 DEF Pipe!Next
    <2> QED
      BY <2>1, <2>2
  <1>4. CASE \/ Inject \/ InjectDone \/ Enable \/ RecvFirst
             \/ SelectNotified \/ SelectRecv \/ SelectClosed \/ Drain
    <2>1. UNCHANGED Pipe!pipeVars
      BY <1>4 DEF Inject, InjectDone, Enable, RecvFirst, SelectNotified,
         SelectRecv, SelectClosed, Drain, Pipe!pipeVars, CallerInv
    <2> QED
      BY <2>1
  <1> QED
    BY <1>1, <1>2, <1>3, <1>4 DEF CallStep

\* Whatever the workers, the channels and the Notify do, a caller sees the
\* pipe: whole batches in order and a result only of a protocol that ended.
THEOREM BridgeImplementsPipe == Spec => ImplementsPipe
  <1>1. CallerInv /\ [Next]_vars => [Pipe!Next]_Pipe!pipeVars
    <2>1. CallerInv /\ UNCHANGED vars => UNCHANGED Pipe!pipeVars
      BY DEF vars, taskVars, callVars, Pipe!pipeVars, PipeProtocol, PipeCut,
         PipeOutcome, Ended
    <2> QED
      BY <2>1, PipeTask, PipeCall, PipeCallStep DEF Next
  <1> QED
    BY <1>1, PipeInit, CallerInvInductive, PTL
       DEF Spec, ImplementsPipe, Pipe!Spec
-----------------------------------------------------------------------------
(* Messages to the task.                                                   *)

\* Taking the head of the channel moves it behind what was taken before.
LEMMA HeadOver ==
    ASSUME NEW d \in Seq(Nat), NEW q \in Seq(Nat), NEW m \in Seq(Nat),
           q # <<>>
    PROVE  Append(d, Head(q)) \o Tail(q) \o m = d \o q \o m
  <1>1. /\ Head(q) \in Nat /\ <<Head(q)>> \in Seq(Nat) /\ Tail(q) \in Seq(Nat)
        /\ <<Head(q)>> \o Tail(q) = q
    BY HeadTail
  <1>2. Append(d, Head(q)) = d \o <<Head(q)>>
    BY <1>1, AppendIsConcat
  <1>3. (d \o <<Head(q)>>) \o Tail(q) = d \o (<<Head(q)>> \o Tail(q))
    BY <1>1, ConcatAssoc
  <1> QED
    BY <1>1, <1>2, <1>3

\* In a sequence numbered from 1 the next head is the next number.
LEMMA NextNumber ==
    ASSUME NEW d \in Seq(Nat), NEW q \in Seq(Nat), NEW m \in Seq(Nat),
           NEW n \in Nat, q # <<>>, d \o q \o m = Iota(n)
    PROVE  Head(q) = Len(d) + 1
  <1>1. /\ Len(d) \in Nat /\ Len(q) \in Nat \ {0} /\ Len(m) \in Nat
    BY EmptySeq, LenProperties
  <1>2. d \o q \in Seq(Nat) /\ Len(d \o q) = Len(d) + Len(q)
    BY ConcatProperties
  <1>3. Len(d \o q \o m) = Len(d) + Len(q) + Len(m)
    BY <1>2, ConcatProperties
  <1>4. Len(d) + 1 \in 1..n
    <2>1. Len(Iota(n)) = n
      BY IotaSeq
    <2>2. n = Len(d) + Len(q) + Len(m)
      BY <1>3, <2>1
    <2> QED
      BY <1>1, <2>2
  <1>5. Iota(n)[Len(d) + 1] = Len(d) + 1
    BY <1>4 DEF Iota
  <1>6. (d \o q)[Len(d) + 1] = q[1]
    BY <1>1, ConcatProperties
  <1>7. (d \o q \o m)[Len(d) + 1] = (d \o q)[Len(d) + 1]
    BY <1>1, <1>2, ConcatProperties
  <1> QED
    BY <1>5, <1>6, <1>7

\* An envelope continues the server's numbering.
LEMMA EnvelopeExtends ==
    ASSUME NEW n \in Nat, offered \in Nat
    PROVE  Iota(offered) \o Envelope(n) = Iota(offered + n)
  <1>1. /\ Iota(offered) \in Seq(Nat) /\ Len(Iota(offered)) = offered
        /\ Envelope(n) \in Seq(Nat) /\ Len(Envelope(n)) = n
    BY IotaSeq, EnvelopeSeq DEF Envelope
  <1>2. /\ Iota(offered) \o Envelope(n) \in Seq(Nat)
        /\ Len(Iota(offered) \o Envelope(n)) = offered + n
    BY <1>1, ConcatProperties
  <1>3. Iota(offered + n) \in Seq(Nat) /\ Len(Iota(offered + n)) = offered + n
    BY IotaSeq
  <1>4. \A i \in 1..offered + n :
            (Iota(offered) \o Envelope(n))[i] = Iota(offered + n)[i]
    BY <1>1 DEF Iota, Envelope
  <1> QED
    BY <1>2, <1>3, <1>4, SeqEqual

LEMMA FifoToTaskInit == Init => FifoToTask
  BY EmptySeq DEF Init, FifoToTask, Iota, Alive

\* The task takes a message.
LEMMA FifoToTaskTake ==
    ASSUME TypeOK, FifoToTask, Alive, rx_in # <<>>
    PROVE  /\ Append(received, Head(rx_in))
                = Iota(Len(Append(received, Head(rx_in))))
           /\ Append(received, Head(rx_in)) \o Tail(rx_in) \o inbox
                = Iota(offered)
  <1>1. /\ received \in Seq(Nat) /\ rx_in \in Seq(Nat) /\ inbox \in Seq(Nat)
        /\ offered \in Nat
        /\ received = Iota(Len(received))
        /\ received \o rx_in \o inbox = Iota(offered)
    BY DEF TypeOK, FifoToTask
  <1>2. Head(rx_in) = Len(received) + 1 /\ Len(received) \in Nat
    BY <1>1, NextNumber, LenProperties
  <1>3. Append(received, Head(rx_in)) = Iota(Len(received) + 1)
    BY <1>1, <1>2, IotaStep
  <1>4. Len(Iota(Len(received) + 1)) = Len(received) + 1
    BY <1>2, IotaSeq
  <1> QED
    BY <1>1, <1>3, <1>4, HeadOver

\* A call brings an envelope.
LEMMA FifoToTaskEnvelope ==
    ASSUME TypeOK, Control, NEW r \in {1, 2}, TakesEnvelope(r),
           received \o rx_in \o inbox = Iota(offered)
    PROVE  received' \o rx_in' \o inbox' = Iota(offered')
  <1>1. PICK n \in Payloads[calls + 1] :
            inbox' = Envelope(n) /\ offered' = offered + n
    BY DEF TakesEnvelope
  <1>2. n \in Nat /\ offered \in Nat /\ inbox = <<>>
    <2>1. calls + 1 \in 1..Len(Payloads)
      BY ScriptTypes DEF TakesEnvelope, TypeOK
    <2> QED
      BY <1>1, <2>1, ScriptTypes DEF TypeOK, Control, TakesEnvelope
  <1>3. received \o rx_in \in Seq(Nat)
    BY ConcatProperties DEF TypeOK
  <1>4. received \o rx_in = Iota(offered)
    BY <1>2, <1>3, ConcatEmptySeq
  <1> QED
    BY <1>1, <1>2, <1>4, EnvelopeExtends DEF TakesEnvelope

LEMMA FifoToTaskNext ==
    TypeOK /\ Control /\ FifoToTask /\ Next => FifoToTask'
  <1> SUFFICES ASSUME TypeOK, Control, FifoToTask, Next PROVE FifoToTask'
    OBVIOUS
  <1>1. CASE TaskRecv
    BY <1>1, FifoToTaskTake
       DEF TaskRecv, WantsInput, FifoToTask, callVars
  <1>2. CASE TaskReject
    BY <1>2, FifoToTaskTake
       DEF TaskReject, WantsInput, End, FifoToTask, Alive, callVars
  <1>3. CASE TaskSendFails \/ TaskPollClosed \/ TaskFinish
    BY <1>3 DEF TaskSendFails, TaskPollClosed, TaskFinish, End, FifoToTask,
       Alive
  <1>4. CASE CallRound1
    <2>1. status = "none"
      BY <1>4 DEF CallRound1, TakesEnvelope, Control
    <2>2. /\ received = <<>> /\ rx_in = <<>> /\ inbox = <<>> /\ offered = 0
      BY <1>4, <2>1 DEF CallRound1, TakesEnvelope, Control
    <2>3. received \o rx_in \o inbox = Iota(offered)
      BY <2>2, EmptySeq, ConcatEmptySeq DEF Iota
    <2>4. received' = received
      BY <1>4 DEF CallRound1, TakesEnvelope
    <2> QED
      BY <1>4, <2>3, <2>4, FifoToTaskEnvelope DEF CallRound1, FifoToTask
  <1>5. CASE CallAdvance
    <2>1. received' = received /\ status' = status
      BY <1>5 DEF CallAdvance, TakesEnvelope
    <2> QED
      BY <1>5, <2>1, FifoToTaskEnvelope DEF CallAdvance, FifoToTask, Alive
  <1>6. CASE Inject
    <2>1. received \o Append(rx_in, Head(inbox)) \o Tail(inbox)
            = received \o rx_in \o inbox
      <3>1. /\ received \in Seq(Nat) /\ rx_in \in Seq(Nat)
            /\ inbox \in Seq(Nat) /\ inbox # <<>>
        BY <1>6 DEF Inject, TypeOK
      <3> QED
        BY <3>1, MoveHead
    <2> QED
      BY <1>6, <2>1 DEF Inject, FifoToTask, Alive, taskVars
  <1>7. CASE InjectFails
    BY <1>7 DEF InjectFails, FifoToTask, Alive, Ended, taskVars
  <1>8. CASE /\ UNCHANGED <<received, rx_in, inbox, offered>>
             /\ Alive' => Alive
    BY <1>8 DEF FifoToTask
  <1>9. \/ TaskRecv \/ TaskReject
        \/ TaskSendFails \/ TaskPollClosed \/ TaskFinish
        \/ CallRound1 \/ CallAdvance \/ Inject \/ InjectFails
        \/ /\ UNCHANGED <<received, rx_in, inbox, offered>>
           /\ Alive' => Alive
    BY DEF Next, Task, Call, CallStep, TaskSend, TaskPollEmpty, TaskNextPhase,
       CallCollect, InjectDone, Enable, RecvFirst, RecvNone, SelectNotified,
       SelectRecv, SelectClosed, Drain, DrainDone, Join, Return, WantsInput,
       Alive, taskVars, chanVars, callVars
  <1> QED
    BY <1>1, <1>2, <1>3, <1>4, <1>5, <1>6, <1>7, <1>8, <1>9

\* The task takes the server's messages in order, and over all the calls of a
\* session none that was handed to inject_all is lost while it lives.
THEOREM TaskGetsEveryMessage == Spec => []FifoToTask
  <1> DEFINE Inv == CallerInv /\ FifoToTask
  <1>1. Init => Inv
    BY CallerInvInductive, FifoToTaskInit
  <1>2. Inv /\ [Next]_vars => Inv'
    <2>1. Inv /\ UNCHANGED vars => FifoToTask'
      BY DEF vars, taskVars, chanVars, callVars, FifoToTask, Alive
    <2> QED
      BY <2>1, CallerInvInductive, FifoToTaskNext DEF CallerInv
  <1>3. Inv => FifoToTask
    OBVIOUS
  <1> QED
    BY <1>1, <1>2, <1>3, PTL DEF Spec

-----------------------------------------------------------------------------
(* The capacity of tx_out.                                                 *)

\* The channel has room for every message of the script: total[p] counts those
\* of phase p and later.  (An envelope may carry all the task waits for; it can
\* then send everything before the call takes the first message.)
RoomForScript(total) ==
    /\ total \in [1..(Len(Script) + 1) -> Nat]
    /\ total[Len(Script) + 1] = 0
    /\ \A p \in 1..Len(Script) : total[p] = Script[p].send + total[p + 1]
    /\ total[1] <= OutCap

\* What the task may still send is left of the script.
Budget(total) ==
    /\ fault # "full"
    /\ Len(rx_out) <= sent
    /\ IF status = "none" THEN sent = 0 /\ phase = 1
                          ELSE sent + unsent + total[phase + 1] <= total[1]

LEMMA BudgetInit == ASSUME Init, NEW total PROVE Budget(total)
  <1>1. Len(<<>>) = 0
    BY EmptySeq
  <1> QED
    BY <1>1 DEF Init, Budget

LEMMA BudgetTask ==
    ASSUME TypeOK, NEW total, RoomForScript(total), Budget(total), Task
    PROVE  Budget(total)'
  <1>1. /\ total[phase + 1] \in Nat /\ total[1] \in Nat /\ total[1] <= OutCap
        /\ sent \in Nat /\ unsent \in Nat /\ Len(rx_out) \in Nat /\ OutCap \in Nat
        /\ phase \in Nat /\ Len(Script) \in Nat \ {0}
    <2>1. phase + 1 \in 1..(Len(Script) + 1) /\ 1 \in 1..(Len(Script) + 1)
      BY ScriptTypes DEF TypeOK
    <2>2. Len(rx_out) \in Nat
      BY LenProperties DEF TypeOK
    <2>3. total[phase + 1] \in Nat /\ total[1] \in Nat /\ total[1] <= OutCap
      BY <2>1 DEF RoomForScript
    <2>4. OutCap \in Nat /\ Len(Script) \in Nat \ {0}
      BY ScriptTypes, RelayAssumption
    <2>5. sent \in Nat /\ unsent \in Nat /\ phase \in Nat
      BY DEF TypeOK
    <2> QED
      BY <2>2, <2>3, <2>4, <2>5
  <1>2. status # "none" /\ status' # "none"
    BY DEF Task, TaskSend, TaskSendFails, TaskRecv, TaskReject, TaskPollEmpty,
       TaskPollClosed, TaskNextPhase, TaskFinish, WantsInput, Alive, End
  <1>3. CASE TaskSend
    <2>1. Len(rx_out') = Len(rx_out) + 1
      BY <1>1, <1>3, AppendProperties DEF TaskSend, TypeOK
    <2> QED
      BY <1>1, <1>2, <1>3, <2>1 DEF TaskSend, Budget
  <1>4. ~TaskSendFails
    BY <1>1, <1>2 DEF TaskSendFails, Budget
  <1>5. CASE TaskNextPhase
    <2>1. /\ phase + 1 \in 1..Len(Script)
          /\ total[phase + 1] = Script[phase + 1].send + total[phase + 1 + 1]
      BY <1>1, <1>5 DEF TaskNextPhase, RoomForScript
    <2>2. Script[phase + 1].send \in Nat /\ total[phase + 1 + 1] \in Nat
      BY <2>1, <1>1, ScriptTypes DEF RoomForScript
    <2>3. /\ phase' = phase + 1 /\ unsent' = Script[phase + 1].send /\ unsent = 0
          /\ UNCHANGED <<fault, sent, rx_out>>
      BY <1>5 DEF TaskNextPhase, chanVars
    <2>4. sent + total[phase + 1] <= total[1]
      BY <1>1, <1>2, <2>3 DEF Budget
    <2>5. sent' + unsent' + total[phase' + 1] <= total[1]
      BY <1>1, <2>1, <2>2, <2>3, <2>4
    <2> QED
      BY <1>2, <2>3, <2>5 DEF Budget
  <1>6. CASE TaskRecv \/ TaskReject \/ TaskPollEmpty \/ TaskPollClosed \/ TaskFinish
    <2>1. UNCHANGED <<phase, unsent, sent, rx_out>> /\ fault' # "full"
      BY <1>6 DEF TaskRecv, TaskReject, TaskPollEmpty, TaskPollClosed, TaskFinish,
         End, chanVars, Budget
    <2> QED
      BY <1>2, <2>1 DEF Budget
  <1> QED
    BY <1>3, <1>4, <1>5, <1>6 DEF Task

LEMMA BudgetCall ==
    ASSUME TypeOK, Control, NEW total, RoomForScript(total), Budget(total),
           Call \/ CallStep
    PROVE  Budget(total)'
  <1>1. sent \in Nat /\ Len(rx_out) \in Nat /\ UNCHANGED <<sent, fault, phase>>
    BY LenProperties
       DEF TypeOK, Call, CallStep, CallRound1, CallAdvance, CallCollect, TakesEnvelope,
           Inject, InjectFails, InjectDone, Enable, RecvFirst, RecvNone,
           SelectNotified, SelectRecv, SelectClosed, Drain, DrainDone, Join, taskVars
  <1>2. CASE CallRound1
    <2>1. status = "none" /\ status' # "none" /\ unsent' = Script[1].send
          /\ UNCHANGED rx_out
      BY <1>2 DEF CallRound1, TakesEnvelope, Control
    <2>2. total[1] = Script[1].send + total[1 + 1] /\ Script[1].send \in Nat
          /\ total[1 + 1] \in Nat
      BY ScriptTypes DEF RoomForScript
    <2> QED
      BY <1>1, <2>1, <2>2 DEF Budget
  <1>3. CASE RecvFirst \/ SelectRecv \/ Drain
    <2>1. Len(rx_out') <= Len(rx_out)
      BY <1>1, <1>3, HeadTail DEF RecvFirst, SelectRecv, Drain, TypeOK
    <2>2. Len(rx_out') <= sent
      <3>1. rx_out' \in Seq(Nat)
        BY <1>3, HeadTail DEF RecvFirst, SelectRecv, Drain, TypeOK
      <3> QED
        BY <1>1, <2>1, <3>1, LenProperties DEF Budget
    <2> QED
      BY <1>1, <1>3, <2>2 DEF RecvFirst, SelectRecv, Drain, taskVars, Budget
  <1>4. CASE UNCHANGED <<status, unsent, rx_out>>
    BY <1>1, <1>4 DEF Budget
  <1>5. CallRound1 \/ RecvFirst \/ SelectRecv \/ Drain \/ UNCHANGED <<status, unsent, rx_out>>
    BY DEF Call, CallStep, CallAdvance, CallCollect, TakesEnvelope,
           Inject, InjectFails, InjectDone, Enable, RecvNone,
           SelectNotified, SelectClosed, DrainDone, Join, taskVars, chanVars
  <1> QED
    BY <1>2, <1>3, <1>4, <1>5

\* The protocol never dies of a full channel (SendNeverFails), whatever the
\* envelopes carry and however slowly the calls collect, if the capacity of
\* tx_out (64) is not below the number of messages of the whole protocol.
THEOREM RoomIsEnough ==
    ASSUME NEW total, RoomForScript(total)
    PROVE  Spec => []SendNeverFails
  <1> DEFINE Inv == TypeOK /\ Control /\ Budget(total)
  <1>1. Init => Inv
    BY TypeInit, ControlInit, BudgetInit
  <1>2. Inv /\ [Next]_vars => Inv'
    <2>1. Inv /\ Next => Inv'
      BY TypeNext, ControlTask, ControlCall, BudgetTask, BudgetCall DEF Next
    <2>2. Inv /\ UNCHANGED vars => Inv'
      BY TypeNext DEF vars, taskVars, chanVars, notifyVars, callVars, Control,
         Budget, Ended
    <2> QED
      BY <2>1, <2>2
  <1>3. Inv => SendNeverFails
    BY DEF Budget, SendNeverFails
  <1> QED
    BY <1>1, <1>2, <1>3, PTL DEF Spec
=============================================================================
