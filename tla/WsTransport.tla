----------------------------- MODULE WsTransport -----------------------------
(***************************************************************************)
(* WebSocketMpcTransport (ws_transport_example.dart): concurrent calls of   *)
(* send share one socket that is opened on demand, breaks, and is opened    *)
(* again.                                                                   *)
(*                                                                          *)
(* Code runs from one await to the next; between two of them anything else  *)
(* of the isolate may run.  A channel is named by the call that makes it: a *)
(* call makes one at most.  The ids of the requests differ, as those of one *)
(* MpcClient do.                                                            *)
(***************************************************************************)
CONSTANTS Calls, None

ASSUME NoneAssumption == None \notin Calls

VARIABLES
    pc,             \* per call of send: where it is
    why,            \* per call: what its exception says
    got,            \* per call: the call whose reply it returned with
    sentOn,         \* per call: the channel its request went to
    pending,        \* _pendingRequests
    channel,        \* _channel
    connecting,     \* _connecting: the call that connects, or None
    subscription,   \* _subscription: the channel it is of, or None
    listening,      \* the channels whose streams still call the handlers
    state,          \* per channel: the socket's
    served,         \* the calls the server has replied to
    threw           \* history: the channels whose sink.add threw

calls == <<pc, why, got, sentOn, pending>>
link == <<channel, connecting, subscription, listening>>
peer == <<state, served>>
vars == <<calls, link, peer, threw>>

Channels == Calls
Causes == {"none", "connect", "payload", "add", "stream", "closed", "timeout"}

TypeOK ==
    /\ pc \in [Calls -> {"idle", "connecting", "queued", "ready", "waiting",
                         "answered", "failed"}]
    /\ why \in [Calls -> Causes]
    /\ got \in [Calls -> Calls \cup {None}]
    /\ sentOn \in [Calls -> Channels \cup {None}]
    /\ pending \subseteq Calls
    /\ channel \in Channels \cup {None} /\ connecting \in Calls \cup {None}
    /\ subscription \in Channels \cup {None} /\ listening \subseteq Channels
    /\ state \in [Channels -> {"unused", "connecting", "open", "broken"}]
    /\ served \subseteq Calls /\ threw \subseteq Channels

Init ==
    /\ pc = [s \in Calls |-> "idle"] /\ why = [s \in Calls |-> "none"]
    /\ got = [s \in Calls |-> None] /\ sentOn = [s \in Calls |-> None]
    /\ pending = {}
    /\ channel = None /\ connecting = None /\ subscription = None /\ listening = {}
    /\ state = [c \in Channels |-> "unused"]
    /\ served = {} /\ threw = {}

\* The calls of S throw.
Throw(S, cause) ==
    /\ pc' = [s \in Calls |-> IF s \in S THEN "failed" ELSE pc[s]]
    /\ why' = [s \in Calls |-> IF s \in S THEN cause ELSE why[s]]

-----------------------------------------------------------------------------
(* _ensureConnected.                                                       *)

Queued == {s \in Calls : pc[s] = "queued"}

\* A channel that is there is used, ready or not; a connect under way is waited
\* for; otherwise this call connects.
Send(s) ==
    /\ pc[s] = "idle"
    /\ \/ /\ channel # None
          /\ pc' = [pc EXCEPT ![s] = "ready"]
          /\ UNCHANGED <<channel, connecting, state>>
       \/ /\ channel = None /\ connecting # None
          /\ pc' = [pc EXCEPT ![s] = "queued"]
          /\ UNCHANGED <<channel, connecting, state>>
       \/ /\ channel = None /\ connecting = None
          /\ pc' = [pc EXCEPT ![s] = "connecting"]
          /\ channel' = s /\ connecting' = s
          /\ state' = [state EXCEPT ![s] = "connecting"]
    /\ UNCHANGED <<why, got, sentOn, pending, subscription, listening, served, threw>>

\* The catch and finally blocks.  The requests sent meanwhile stay pending.
\* Fault: the completer is dropped before it is completed.
ConnectThrows_NoError(s) ==
    /\ Throw({s}, "connect")
    /\ channel' = None /\ connecting' = None
    /\ UNCHANGED <<got, sentOn, pending, subscription, listening, peer, threw>>

ConnectThrows(s) ==
    /\ Throw({s} \cup Queued, "connect")
    /\ channel' = None /\ connecting' = None
    /\ UNCHANGED <<got, sentOn, pending, subscription, listening, peer, threw>>

\* An error of the handshake, or the timeout, which leaves the socket open.
ConnectFails(s) ==
    /\ pc[s] = "connecting"
    /\ ConnectThrows(s)

\* The handshake is done.
\* Fault: _channel is taken to be there.
ConnectReady_NoCheck(s) ==
    /\ pc[s] = "connecting" /\ state[s] = "open"
    /\ subscription' = channel /\ listening' = listening \cup {channel}
    /\ pc' = [t \in Calls |-> IF t \in {s} \cup Queued THEN "ready" ELSE pc[t]]
    /\ connecting' = None
    /\ UNCHANGED <<why, got, sentOn, pending, channel, peer, threw>>

\* The handshake is done; _channel! throws if close, or a failed add, has cleared
\* it meanwhile.
ConnectReady(s) ==
    /\ pc[s] = "connecting" /\ state[s] = "open"
    /\ \/ channel = None /\ ConnectThrows(s)
       \/ /\ channel # None
          /\ subscription' = channel /\ listening' = listening \cup {channel}
          /\ pc' = [t \in Calls |-> IF t \in {s} \cup Queued THEN "ready" ELSE pc[t]]
          /\ connecting' = None
          /\ UNCHANGED <<why, got, sentOn, pending, channel, peer, threw>>

-----------------------------------------------------------------------------
(* The rest of send.                                                       *)

\* No JSON, or no id.
RefusePayload(s) ==
    /\ pc[s] = "ready"
    /\ Throw({s}, "payload")
    /\ UNCHANGED <<got, sentOn, pending, link, peer, threw>>

\* sink.add of a broken channel may throw or lose the request; the subscription
\* of the channel stays.
Add(s) ==
    /\ pc[s] = "ready"
    /\ \/ /\ channel # None
          /\ pending' = pending \cup {s}
          /\ pc' = [pc EXCEPT ![s] = "waiting"]
          /\ sentOn' = [sentOn EXCEPT ![s] = channel]
          /\ UNCHANGED <<why, channel, threw>>
       \/ /\ channel \in {None} \cup {c \in Channels : state[c] = "broken"}
          /\ Throw({s}, "add")
          /\ channel' = None
          /\ threw' = threw \cup ({channel} \ {None})
          /\ UNCHANGED <<sentOn, pending>>
    /\ UNCHANGED <<got, connecting, subscription, listening, peer>>

TimesOut(s) ==
    /\ pc[s] = "waiting"
    /\ Throw({s}, "timeout")
    /\ pending' = pending \ {s}
    /\ UNCHANGED <<got, sentOn, link, peer, threw>>

-----------------------------------------------------------------------------
(* The handlers, and close.                                                *)

\* _handleMessage: a reply to a call that no longer waits is dropped.
\* Fault: the id of the reply is not looked at.
HandleMessage_AnyId(r) ==
    /\ r \in served /\ sentOn[r] \in listening
    /\ \E s \in pending :
        /\ pending' = pending \ {s}
        /\ pc' = [pc EXCEPT ![s] = "answered"] /\ got' = [got EXCEPT ![s] = r]
    /\ UNCHANGED <<why, sentOn, link, peer, threw>>

HandleMessage(r) ==
    /\ r \in served /\ sentOn[r] \in listening
    /\ r \in pending
    /\ pending' = pending \ {r}
    /\ pc' = [pc EXCEPT ![r] = "answered"] /\ got' = [got EXCEPT ![r] = r]
    /\ UNCHANGED <<why, sentOn, link, peer, threw>>

\* Fault: the subscription is not cancelled.
Disconnect_Listens(ended, cause) ==
    /\ channel' = None /\ subscription' = None
    /\ listening' = listening \ ended
    /\ Throw(pending, cause) /\ pending' = {}
    /\ UNCHANGED <<got, sentOn, connecting, served, threw>>

\* _disconnect, in a handler of the streams in `ended`: whatever the channel and
\* the requests now are.
Disconnect(ended, cause) ==
    /\ channel' = None /\ subscription' = None
    /\ listening' = (listening \ {subscription}) \ ended
    /\ Throw(pending, cause) /\ pending' = {}
    /\ UNCHANGED <<got, sentOn, connecting, served, threw>>

HandleStreamError(c) ==
    /\ c \in listening /\ state[c] = "open"
    /\ Disconnect({}, "stream")
    /\ state' = [state EXCEPT ![c] = "broken"]

HandleStreamDone(c) ==
    /\ c \in listening /\ state[c] = "broken"
    /\ Disconnect({c}, "stream")
    /\ UNCHANGED state

Close ==
    /\ Disconnect({}, "closed")
    /\ state' = [c \in Channels |-> IF c = channel THEN "broken" ELSE state[c]]

-----------------------------------------------------------------------------
(* The network and the server (external).                                  *)

Opens(c) ==
    /\ state[c] = "connecting"
    /\ state' = [state EXCEPT ![c] = "open"]
    /\ UNCHANGED <<calls, link, served, threw>>

Breaks(c) ==
    /\ state[c] \in {"connecting", "open"}
    /\ state' = [state EXCEPT ![c] = "broken"]
    /\ UNCHANGED <<calls, link, served, threw>>

\* Replies may come in any order, and repeated.
Serve(r) ==
    /\ sentOn[r] # None /\ state[sentOn[r]] = "open"
    /\ served' = served \cup {r}
    /\ UNCHANGED <<calls, link, state, threw>>

-----------------------------------------------------------------------------

\* What the timers and the event loop bring about for a call.
Proceed(s) ==
    ConnectFails(s) \/ ConnectReady(s) \/ RefusePayload(s) \/ Add(s) \/ TimesOut(s)

Next ==
    \/ \E s \in Calls : Send(s) \/ Proceed(s) \/ HandleMessage(s) \/ Serve(s)
    \/ \E c \in Channels : \/ HandleStreamError(c) \/ HandleStreamDone(c)
                           \/ Opens(c) \/ Breaks(c)
    \/ Close

Spec == Init /\ [][Next]_vars
FairSpec == Spec /\ \A s \in Calls : WF_vars(Proceed(s))

-----------------------------------------------------------------------------
(* Properties.                                                             *)

\* No request in the map without its caller, and no caller whose request has
\* left the map.
NoCallStranded == \A s \in Calls : pc[s] = "waiting" <=> s \in pending

\* A request is failed for the end of a stream only if its own channel has ended
\* or never came up; but after a sink.add has thrown, the end of that old
\* channel, whose subscription nobody cancels, takes the new one's requests.
HealthyRequestSurvives ==
    \A s \in Calls : why[s] = "stream" =>
        \/ state[sentOn[s]] = "broken" \/ why[sentOn[s]] = "connect"
        \/ \E c \in threw : c # sentOn[s]

\* The abstract transport: a caller gets the reply to its own request, once, or
\* an exception, however replies, breaks and reconnections are ordered.
Status == [s \in Calls |-> IF pc[s] \in {"idle", "answered", "failed"} THEN pc[s]
                           ELSE "pending"]
Rpc == INSTANCE RpcTransport WITH status <- Status
ImplementsRpc == Rpc!Spec

\* Every call of send returns or throws, by its timers alone.
SendEnds ==
    \A s \in Calls : (pc[s] \in {"connecting", "queued", "ready", "waiting"})
                     ~> (pc[s] \in {"answered", "failed"})
=============================================================================
