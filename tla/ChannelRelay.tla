---------------------------- MODULE ChannelRelay ----------------------------
(***************************************************************************)
(* One DKLs23 session of the secp256k1 engine: the asynchronous protocol   *)
(* task, the two bounded tokio channels and the Notify that join it to the *)
(* synchronous FFI call, and the call itself, statement by statement       *)
(* (src/rust/src/relay.rs; collect_batch and inject_all in                 *)
(* src/rust/src/api/mpc_engine.rs).                                        *)
(*                                                                         *)
(* The protocol task is sl-dkls23, outside src/: what matters of it here   *)
(* is when it sends and when it waits.  It runs Script: in phase p it      *)
(* sends Script[p].send messages, then takes Script[p].need messages of    *)
(* the server.  Messages are numbered in the order they are created.       *)
(***************************************************************************)
EXTENDS Naturals, Sequences

CONSTANTS
    InCap,      \* capacity of the channel into the task  (16 in the code)
    OutCap,     \* capacity of the channel out of the task (64 in the code)
    Script,     \* the protocol: <<[send |-> n, need |-> m], ...>>
    Payloads    \* Payloads[c]: how many messages the c-th call may carry;
                \* Len(Payloads) bounds the number of calls

ASSUME RelayAssumption ==
    /\ InCap \in Nat \ {0}
    /\ OutCap \in Nat \ {0}
    /\ Script \in Seq([send : Nat, need : Nat])
    /\ Script # <<>>
    /\ Payloads \in Seq(SUBSET Nat)

VARIABLES
    status,         \* the protocol task
    fault,          \* why it failed
    phase, unsent, unread,      \* its place in Script
    rx_in, rx_out,  \* contents of the two channels
    tx_in_open,     \* some sender of rx_in is alive
    permit,         \* Notify: a stored notify_one
    waiter,         \* Notify: the collector's `notified` future
    pc, round,      \* the FFI call: next statement, its round argument
    calls,          \* number of calls made
    inbox,          \* server messages the call still has to inject
    messages,       \* collect_batch's batch so far
    protocol_done,  \* second component of collect_batch's last result
    session,        \* the entry of the session map
    reply,          \* what the last call returned
    sent, offered,  \* history: messages created by the task, by the server
    received,       \* history: server messages the task took
    delivered       \* history: messages in the batches returned

taskVars == <<status, fault, phase, unsent, unread, sent, received>>
chanVars == <<rx_in, rx_out, tx_in_open>>
notifyVars == <<permit, waiter>>
callVars == <<pc, round, calls, inbox, messages, protocol_done, session,
              reply, offered, delivered>>
vars == <<taskVars, chanVars, notifyVars, callVars>>

Iota(n) == [i \in 1..n |-> i]

Alive == status \in {"running", "pending"}
Ended == status \in {"done", "failed"}     \* the relay has been dropped

TypeOK ==
    /\ status \in {"none", "running", "pending", "done", "failed"}
    /\ fault \in {"none", "full", "rejected", "closed"}
    /\ phase \in 1..Len(Script)
    /\ unsent \in Nat /\ unread \in Nat
    /\ rx_in \in Seq(Nat) /\ rx_out \in Seq(Nat)
    /\ Len(rx_in) <= InCap /\ Len(rx_out) <= OutCap
    /\ tx_in_open \in BOOLEAN /\ permit \in BOOLEAN
    /\ waiter \in {"none", "waiting", "notified"}
    /\ pc \in {"idle", "inject", "enable", "first", "select", "drain", "join"}
    /\ round \in {0, 1, 2}                 \* 2 stands for every round > 1
    /\ calls \in 0..Len(Payloads)
    /\ inbox \in Seq(Nat) /\ messages \in Seq(Nat)
    /\ protocol_done \in BOOLEAN
    /\ session \in {"none", "open", "closed"}
    /\ reply \in {"none", "continue", "completed", "error"}
    /\ sent \in Nat /\ offered \in Nat
    /\ received \in Seq(Nat) /\ delivered \in Seq(Nat)

Init ==
    /\ status = "none" /\ fault = "none"
    /\ phase = 1 /\ unsent = 0 /\ unread = 0
    /\ rx_in = <<>> /\ rx_out = <<>> /\ tx_in_open = FALSE
    /\ permit = FALSE /\ waiter = "none"
    /\ pc = "idle" /\ round = 0 /\ calls = 0
    /\ inbox = <<>> /\ messages = <<>> /\ protocol_done = FALSE
    /\ session = "none" /\ reply = "none"
    /\ sent = 0 /\ offered = 0 /\ received = <<>> /\ delivered = <<>>

-----------------------------------------------------------------------------
(* The protocol task, polled by the tokio workers.                         *)

\* Sink::start_send.  try_send succeeds while the channel has room.
TaskSend ==
    /\ status = "running" /\ unsent > 0
    /\ Len(rx_out) < OutCap
    /\ sent' = sent + 1
    /\ rx_out' = Append(rx_out, sent + 1)
    /\ unsent' = unsent - 1
    /\ UNCHANGED <<status, fault, phase, unread, received, rx_in, tx_in_open,
                   notifyVars, callVars>>

\* The task ends: its relay is dropped, rx_in with what it still holds.
End(st, why) ==
    /\ status' = st
    /\ fault' = why
    /\ rx_in' = <<>>

\* Sink::start_send on a full channel: MessageSendError, the protocol aborts.
TaskSendFails ==
    /\ status = "running" /\ unsent > 0
    /\ Len(rx_out) = OutCap
    /\ End("failed", "full")
    /\ UNCHANGED <<phase, unsent, unread, sent, received, rx_out, tx_in_open,
                   notifyVars, callVars>>

WantsInput == Alive /\ unsent = 0 /\ unread > 0

\* Stream::poll_next with a message ready; a pending task has been woken.
TaskRecv ==
    /\ WantsInput /\ rx_in # <<>>
    /\ received' = Append(received, Head(rx_in))
    /\ rx_in' = Tail(rx_in)
    /\ unread' = unread - 1
    /\ status' = "running"
    /\ UNCHANGED <<fault, phase, unsent, sent, rx_out, tx_in_open,
                   notifyVars, callVars>>

\* The protocol takes a message and rejects it.
TaskReject ==
    /\ WantsInput /\ rx_in # <<>>
    /\ received' = Append(received, Head(rx_in))
    /\ End("failed", "rejected")
    /\ UNCHANGED <<phase, unsent, unread, sent, rx_out, tx_in_open,
                   notifyVars, callVars>>

\* Fault: notify_waiters, which stores no permit.
NotifyOne_NoPermit ==
    /\ waiter' = IF waiter = "waiting" THEN "notified" ELSE waiter
    /\ UNCHANGED permit

\* Notify::notify_one: wakes the registered waiter, else stores one permit.
NotifyOne ==
    IF waiter = "waiting" THEN waiter' = "notified" /\ UNCHANGED permit
                          ELSE permit' = TRUE /\ UNCHANGED waiter

\* Stream::poll_next on an empty open channel: Pending, and notify_one.
TaskPollEmpty ==
    /\ status = "running" /\ WantsInput
    /\ rx_in = <<>> /\ tx_in_open
    /\ status' = "pending"
    /\ NotifyOne
    /\ UNCHANGED <<fault, phase, unsent, unread, sent, received, chanVars,
                   callVars>>

\* Stream::poll_next on an empty closed channel: None, the protocol aborts.
TaskPollClosed ==
    /\ WantsInput
    /\ rx_in = <<>> /\ ~tx_in_open
    /\ End("failed", "closed")
    /\ UNCHANGED <<phase, unsent, unread, sent, received, rx_out, tx_in_open,
                   notifyVars, callVars>>

TaskNextPhase ==
    /\ status = "running" /\ unsent = 0 /\ unread = 0
    /\ phase < Len(Script)
    /\ phase' = phase + 1
    /\ unsent' = Script[phase + 1].send
    /\ unread' = Script[phase + 1].need
    /\ UNCHANGED <<status, fault, sent, received, chanVars, notifyVars,
                   callVars>>

TaskFinish ==
    /\ status = "running" /\ unsent = 0 /\ unread = 0
    /\ phase = Len(Script)
    /\ End("done", "none")
    /\ UNCHANGED <<phase, unsent, unread, sent, received, rx_out, tx_in_open,
                   notifyVars, callVars>>

Task ==
    \/ TaskSend \/ TaskSendFails \/ TaskRecv \/ TaskReject
    \/ TaskPollEmpty \/ TaskPollClosed \/ TaskNextPhase \/ TaskFinish

-----------------------------------------------------------------------------
(* The FFI call.  A call is one pass from "idle" to "idle".                *)

\* The next n messages of the server, decoded from the call's envelope.
Envelope(n) == [i \in 1..n |-> offered + i]

TakesEnvelope(r) ==
    /\ pc = "idle" /\ calls < Len(Payloads)
    /\ calls' = calls + 1
    /\ \E n \in Payloads[calls + 1] :
          /\ inbox' = Envelope(n)
          /\ offered' = offered + n
    /\ round' = r
    /\ pc' = "inject"
    /\ UNCHANGED <<messages, protocol_done, session, reply, delivered,
                   notifyVars, fault, phase, sent, received, rx_in, rx_out>>

\* round == 1: create the channels, spawn the protocol task.
CallRound1 ==
    /\ session = "none"
    /\ TakesEnvelope(1)
    /\ status' = "running"
    /\ unsent' = Script[1].send
    /\ unread' = Script[1].need
    /\ tx_in_open' = TRUE

\* round > 1: the session is in the map, its tx_in is cloned.
CallAdvance ==
    /\ session = "open"
    /\ TakesEnvelope(2)
    /\ UNCHANGED <<status, unsent, unread, tx_in_open>>

\* Fault: round 0 keeps tx_in while it joins.
CallCollect_KeepsTxIn ==
    /\ pc = "idle" /\ session = "open"
    /\ session' = "closed"
    /\ round' = 0
    /\ pc' = "join"
    /\ UNCHANGED <<taskVars, chanVars, notifyVars, calls, inbox, messages,
                   protocol_done, reply, offered, delivered>>

\* round == 0: remove the session, drop tx_in, join the task.  rx_out lives
\* until the function returns.
CallCollect ==
    /\ pc = "idle" /\ session = "open"
    /\ session' = "closed"
    /\ tx_in_open' = FALSE
    /\ round' = 0
    /\ pc' = "join"
    /\ UNCHANGED <<taskVars, rx_in, rx_out, notifyVars, calls, inbox,
                   messages, protocol_done, reply, offered, delivered>>

Return(r) ==
    /\ pc' = "idle"
    /\ reply' = r

\* Fault: inject_all sends past the capacity.
Inject_Unbounded ==
    /\ pc = "inject" /\ inbox # <<>>
    /\ Alive
    /\ rx_in' = Append(rx_in, Head(inbox))
    /\ inbox' = Tail(inbox)
    /\ UNCHANGED <<taskVars, rx_out, tx_in_open, notifyVars, pc, round, calls,
                   messages, protocol_done, session, reply, offered,
                   delivered>>

\* Fault: inject_all uses try_send and ignores its error.
Inject_DropsWhenFull ==
    /\ pc = "inject" /\ inbox # <<>>
    /\ Alive
    /\ rx_in' = IF Len(rx_in) < InCap THEN Append(rx_in, Head(inbox)) ELSE rx_in
    /\ inbox' = Tail(inbox)
    /\ UNCHANGED <<taskVars, rx_out, tx_in_open, notifyVars, pc, round, calls,
                   messages, protocol_done, session, reply, offered,
                   delivered>>

\* inject_all: a blocking send of one message.
Inject ==
    /\ pc = "inject" /\ inbox # <<>>
    /\ Alive /\ Len(rx_in) < InCap
    /\ rx_in' = Append(rx_in, Head(inbox))
    /\ inbox' = Tail(inbox)
    /\ UNCHANGED <<taskVars, rx_out, tx_in_open, notifyVars, pc, round, calls,
                   messages, protocol_done, session, reply, offered,
                   delivered>>

\* inject_all on a closed channel.  Round 1 aborts the (ended) task and
\* forgets it; a later round leaves the session in the map.
InjectFails ==
    /\ pc = "inject" /\ inbox # <<>>
    /\ Ended
    /\ inbox' = <<>>
    /\ IF round = 1 THEN session' = "closed" /\ tx_in_open' = FALSE
                    ELSE UNCHANGED <<session, tx_in_open>>
    /\ Return("error")
    /\ UNCHANGED <<taskVars, rx_in, rx_out, notifyVars, round, calls, messages,
                   protocol_done, offered, delivered>>

InjectDone ==
    /\ pc = "inject" /\ inbox = <<>>
    /\ pc' = "enable"
    /\ UNCHANGED <<taskVars, chanVars, notifyVars, round, calls, inbox,
                   messages, protocol_done, session, reply, offered,
                   delivered>>

\* collect_batch, step 1: create the notified() future and enable it.  A
\* stored permit makes it ready at once.
Enable ==
    /\ pc = "enable"
    /\ waiter' = IF permit THEN "notified" ELSE "waiting"
    /\ permit' = FALSE
    /\ protocol_done' = FALSE
    /\ pc' = "first"
    /\ UNCHANGED <<taskVars, chanVars, round, calls, inbox, messages, session,
                   reply, offered, delivered>>

\* Step 2: rx.recv() gives the first message.
RecvFirst ==
    /\ pc = "first" /\ rx_out # <<>>
    /\ messages' = <<Head(rx_out)>>
    /\ rx_out' = Tail(rx_out)
    /\ pc' = "select"
    /\ UNCHANGED <<taskVars, rx_in, tx_in_open, notifyVars, round, calls,
                   inbox, protocol_done, session, reply, offered, delivered>>

\* Fault: the end of the task is tested before the channel is read.
RecvNone_IgnoresChannel ==
    /\ pc = "first" /\ Ended
    /\ waiter' = "none"
    /\ session' = "closed"
    /\ tx_in_open' = FALSE
    /\ IF round = 1 THEN Return("error")
                    ELSE pc' = "join" /\ UNCHANGED reply
    /\ UNCHANGED <<taskVars, rx_in, rx_out, permit, round, calls, inbox,
                   messages, protocol_done, offered, delivered>>

\* Step 2: rx.recv() gives None, collect_batch returns None.  In round 1 that
\* is an error and no session is stored; later the session is removed and the
\* task joined.
RecvNone ==
    /\ pc = "first" /\ rx_out = <<>> /\ Ended
    /\ waiter' = "none"
    /\ session' = "closed"
    /\ tx_in_open' = FALSE
    /\ IF round = 1 THEN Return("error")
                    ELSE pc' = "join" /\ UNCHANGED reply
    /\ UNCHANGED <<taskVars, rx_in, rx_out, permit, round, calls, inbox,
                   messages, protocol_done, offered, delivered>>

\* Step 3, first branch of the biased select!: notified is ready.
SelectNotified ==
    /\ pc = "select" /\ waiter = "notified"
    /\ waiter' = "none"
    /\ pc' = "drain"
    /\ UNCHANGED <<taskVars, chanVars, permit, round, calls, inbox, messages,
                   protocol_done, session, reply, offered, delivered>>

\* Step 3, second branch: one more message.
SelectRecv ==
    /\ pc = "select" /\ waiter # "notified" /\ rx_out # <<>>
    /\ messages' = Append(messages, Head(rx_out))
    /\ rx_out' = Tail(rx_out)
    /\ UNCHANGED <<taskVars, rx_in, tx_in_open, notifyVars, pc, round, calls,
                   inbox, protocol_done, session, reply, offered, delivered>>

\* Fault: the closed branch forgets the batch collected so far.
SelectClosed_LosesBatch ==
    /\ pc = "select" /\ waiter # "notified" /\ rx_out = <<>> /\ Ended
    /\ protocol_done' = TRUE
    /\ messages' = <<>>
    /\ waiter' = "none"
    /\ pc' = "drain"
    /\ UNCHANGED <<taskVars, chanVars, permit, round, calls, inbox, session,
                   reply, offered, delivered>>

\* Step 3, second branch: the channel is closed.
SelectClosed ==
    /\ pc = "select" /\ waiter # "notified" /\ rx_out = <<>> /\ Ended
    /\ protocol_done' = TRUE
    /\ waiter' = "none"
    /\ pc' = "drain"
    /\ UNCHANGED <<taskVars, chanVars, permit, round, calls, inbox, messages,
                   session, reply, offered, delivered>>

\* Step 4: try_recv gives a message.
Drain ==
    /\ pc = "drain" /\ rx_out # <<>>
    /\ messages' = Append(messages, Head(rx_out))
    /\ rx_out' = Tail(rx_out)
    /\ UNCHANGED <<taskVars, rx_in, tx_in_open, notifyVars, pc, round, calls,
                   inbox, protocol_done, session, reply, offered, delivered>>

\* Fault: step 4 is missing, what came after the notification stays behind.
DrainDone_WithoutDrain ==
    /\ pc = "drain"
    /\ delivered' = delivered \o messages
    /\ messages' = <<>>
    /\ session' = "open"
    /\ Return("continue")
    /\ UNCHANGED <<taskVars, chanVars, notifyVars, round, calls, inbox,
                   protocol_done, offered>>

\* Step 4: nothing left; the batch is returned, and round 1 stores the
\* session.
DrainDone ==
    /\ pc = "drain" /\ rx_out = <<>>
    /\ delivered' = delivered \o messages
    /\ messages' = <<>>
    /\ session' = "open"
    /\ Return("continue")
    /\ UNCHANGED <<taskVars, chanVars, notifyVars, round, calls, inbox,
                   protocol_done, offered>>

\* Fault: the protocol's own error is not looked at.
Join_IgnoresError ==
    /\ pc = "join" /\ Ended
    /\ Return("completed")
    /\ UNCHANGED <<taskVars, chanVars, notifyVars, round, calls, inbox,
                   messages, protocol_done, session, offered, delivered>>

\* block_on(task_handle): the protocol's result becomes the call's.
Join ==
    /\ pc = "join" /\ Ended
    /\ Return(IF status = "done" THEN "completed" ELSE "error")
    /\ UNCHANGED <<taskVars, chanVars, notifyVars, round, calls, inbox,
                   messages, protocol_done, session, offered, delivered>>

Call == CallRound1 \/ CallAdvance \/ CallCollect

CallStep ==
    \/ Inject \/ InjectFails \/ InjectDone \/ Enable \/ RecvFirst \/ RecvNone
    \/ SelectNotified \/ SelectRecv \/ SelectClosed \/ Drain \/ DrainDone
    \/ Join

Next == Task \/ Call \/ CallStep

Spec == Init /\ [][Next]_vars

\* The runtime's workers keep polling a task that can run, and the FFI
\* worker thread keeps running its call; nobody owes a next call.
Fairness == WF_vars(Task) /\ WF_vars(CallStep)

FairSpec == Spec /\ Fairness

-----------------------------------------------------------------------------
(* Safety.                                                                 *)

\* Nothing is lost, duplicated or reordered on the way to the caller: what
\* was returned, then the batch being collected, then the channel, is what
\* the task sent (collect_batch, whatever branch of select! it leaves by).
FifoToCaller == delivered \o messages \o rx_out = Iota(sent)

\* The task takes the server's messages in order; while it lives none of
\* those handed to inject_all is lost, over any number of calls.
FifoToTask ==
    /\ received = Iota(Len(received))
    /\ Alive => received \o rx_in \o inbox = Iota(offered)

\* A session that completes because its channel closed (collect_batch gave
\* None) has handed every message of the protocol to the caller.
CompletedMeansDelivered ==
    reply = "completed" /\ round # 0 => delivered = Iota(sent)

\* The wake-up of T-16-09: whenever the task waits for input, a collector in
\* select! has been notified, in whatever order it enabled its future and the
\* task sent and polled.
NoLostWakeup ==
    pc = "select" /\ status = "pending" => waiter = "notified"

\* The capacity of tx_out suffices: the protocol never dies of a full
\* channel (start_send), however the batches were split.
SendNeverFails == fault # "full"

-----------------------------------------------------------------------------
(* Liveness.                                                               *)

\* The call waits in rx.recv() and the task waits in rx.poll_recv(): only
\* another server message can help, and this call will not bring it.
Starved ==
    /\ pc = "first" /\ rx_out = <<>>
    /\ status = "pending" /\ rx_in = <<>> /\ tx_in_open

\* Starvation is the only way a call can hang, whatever number of messages
\* the server's envelopes carry.
ReturnsOrStarves == pc # "idle" ~> pc = "idle" \/ Starved

\* With the envelopes the protocol expects every call returns.
EveryCallReturns == pc # "idle" ~> pc = "idle"

-----------------------------------------------------------------------------
(* Refinement.                                                             *)

PipeProtocol == IF Ended THEN status ELSE "running"

PipeCut == session = "closed" /\ round = 0

PipeOutcome ==
    IF reply = "completed" THEN "completed"
    ELSE IF session = "closed" /\ pc = "idle" THEN "failed"
    ELSE "open"

Pipe == INSTANCE RoundPipe WITH
    out <- Iota(sent),
    got <- delivered,
    protocol <- PipeProtocol,
    cut <- PipeCut,
    outcome <- PipeOutcome

\* Every behaviour of the bridge is one of the pipe a caller relies on.
ImplementsPipe == Pipe!Spec
=============================================================================
