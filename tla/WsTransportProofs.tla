-------------------------- MODULE WsTransportProofs --------------------------
(***************************************************************************)
(* Proofs about WsTransport, for every set of calls.                       *)
(***************************************************************************)
EXTENDS WsTransport, TLAPS

-----------------------------------------------------------------------------
(* Types.                                                                  *)

LEMMA TypeInit == Init => TypeOK
  BY NoneAssumption DEF Init, TypeOK, Causes, Channels

\* What Throw does to the types of a call.
LEMMA ThrowType ==
    ASSUME TypeOK, NEW S \in SUBSET Calls, NEW cause \in Causes, Throw(S, cause)
    PROVE  /\ pc' \in [Calls -> {"idle", "connecting", "queued", "ready", "waiting",
                                 "answered", "failed"}]
           /\ why' \in [Calls -> Causes]
  BY DEF Throw, TypeOK

LEMMA TypeNext == TypeOK /\ [Next]_vars => TypeOK'
  <1> SUFFICES ASSUME TypeOK, [Next]_vars PROVE TypeOK'
    OBVIOUS
  <1>u. ASSUME UNCHANGED vars PROVE TypeOK'
    BY <1>u DEF vars, calls, link, peer, TypeOK
  <1>1. ASSUME NEW s \in Calls, Send(s) PROVE TypeOK'
    BY <1>1 DEF Send, TypeOK, Channels
  <1>2. ASSUME NEW s \in Calls, ConnectThrows(s) PROVE TypeOK'
    <2>1. {s} \cup Queued \in SUBSET Calls /\ "connect" \in Causes
      BY DEF Queued, Causes
    <2> QED
      BY <1>2, <2>1, ThrowType DEF ConnectThrows, TypeOK, peer
  <1>3. ASSUME NEW s \in Calls, ConnectFails(s) PROVE TypeOK'
    BY <1>2, <1>3 DEF ConnectFails
  <1>4. ASSUME NEW s \in Calls, ConnectReady(s) PROVE TypeOK'
    <2>1. CASE ConnectThrows(s)
      BY <1>2, <2>1
    <2>2. CASE channel # None /\ ~ConnectThrows(s)
      BY <1>4, <2>2 DEF ConnectReady, TypeOK, peer
    <2> QED
      BY <1>4, <2>1, <2>2 DEF ConnectReady
  <1>5. ASSUME NEW s \in Calls, RefusePayload(s) PROVE TypeOK'
    <2>1. {s} \in SUBSET Calls /\ "payload" \in Causes
      BY DEF Causes
    <2> QED
      BY <1>5, <2>1, ThrowType DEF RefusePayload, TypeOK, link, peer
  <1>6. ASSUME NEW s \in Calls, Add(s) PROVE TypeOK'
    <2>1. CASE Throw({s}, "add") /\ UNCHANGED <<sentOn, pending>>
      <3>1. {s} \in SUBSET Calls /\ "add" \in Causes
        BY DEF Causes
      <3>2. channel' \in Channels \cup {None} /\ threw' \subseteq Channels
        BY <1>6 DEF Add, TypeOK
      <3> QED
        BY <1>6, <2>1, <3>1, <3>2, ThrowType DEF Add, TypeOK, peer
    <2>2. CASE /\ channel # None /\ pending' = pending \cup {s}
               /\ pc' = [pc EXCEPT ![s] = "waiting"]
               /\ sentOn' = [sentOn EXCEPT ![s] = channel]
               /\ UNCHANGED <<why, channel, threw>>
      BY <1>6, <2>2 DEF Add, TypeOK, peer
    <2> QED
      BY <1>6, <2>1, <2>2 DEF Add
  <1>7. ASSUME NEW s \in Calls, TimesOut(s) PROVE TypeOK'
    <2>1. {s} \in SUBSET Calls /\ "timeout" \in Causes
      BY DEF Causes
    <2> QED
      BY <1>7, <2>1, ThrowType DEF TimesOut, TypeOK, link, peer
  <1>8. ASSUME NEW s \in Calls, HandleMessage(s) PROVE TypeOK'
    BY <1>8 DEF HandleMessage, TypeOK, link, peer
  <1>9. ASSUME NEW ended, NEW cause \in Causes, Disconnect(ended, cause),
               state' \in [Channels -> {"unused", "connecting", "open", "broken"}]
        PROVE  TypeOK'
    <2>1. pending \in SUBSET Calls
      BY DEF TypeOK
    <2> QED
      BY <1>9, <2>1, ThrowType DEF Disconnect, TypeOK
  <1>10. ASSUME NEW c \in Channels, HandleStreamError(c) \/ HandleStreamDone(c)
         PROVE  TypeOK'
    <2>1. /\ "stream" \in Causes
          /\ state' \in [Channels -> {"unused", "connecting", "open", "broken"}]
      BY <1>10 DEF HandleStreamError, HandleStreamDone, Causes, TypeOK
    <2> QED
      BY <1>9, <1>10, <2>1 DEF HandleStreamError, HandleStreamDone
  <1>11. ASSUME Close PROVE TypeOK'
    <2>1. /\ "closed" \in Causes
          /\ state' \in [Channels -> {"unused", "connecting", "open", "broken"}]
      BY <1>11 DEF Close, Causes, TypeOK
    <2> QED
      BY <1>9, <1>11, <2>1 DEF Close
  <1>12. ASSUME NEW c \in Channels, Opens(c) \/ Breaks(c) \/ Serve(c) PROVE TypeOK'
    BY <1>12 DEF Opens, Breaks, Serve, TypeOK, calls, link, Channels
  <1> QED
    BY <1>u, <1>1, <1>3, <1>4, <1>5, <1>6, <1>7, <1>8, <1>10, <1>11, <1>12
       DEF Next, Proceed, Channels

\* Every variable of the transport has its type.
THEOREM Typing == Spec => []TypeOK
  BY TypeInit, TypeNext, PTL DEF Spec
-----------------------------------------------------------------------------
(* Calls and the pending map.                                              *)

\* A request in the map has a caller that waits, and was sent; only a call that
\* failed has an exception.
CallInv ==
    /\ NoCallStranded
    /\ \A s \in Calls :
        /\ s \in pending => sentOn[s] # None
        /\ sentOn[s] # None => pc[s] \in {"waiting", "answered", "failed"}
        /\ why[s] # "none" => pc[s] = "failed"
        /\ why[s] = "stream" => sentOn[s] # None

LEMMA CallInit == Init => CallInv
  BY DEF Init, CallInv, NoCallStranded

LEMMA CallNext == TypeOK /\ CallInv /\ [Next]_vars => CallInv'
  <1> SUFFICES ASSUME TypeOK, CallInv, [Next]_vars PROVE CallInv'
    OBVIOUS
  <1> USE DEF CallInv, NoCallStranded, TypeOK
  <1>u. ASSUME UNCHANGED vars PROVE CallInv'
    BY <1>u DEF vars, calls
  <1>1. ASSUME NEW s \in Calls, Send(s) PROVE CallInv'
    BY <1>1 DEF Send
  <1>2. ASSUME NEW s \in Calls, ConnectThrows(s), pc[s] = "connecting" PROVE CallInv'
    BY <1>2 DEF ConnectThrows, Throw, Queued
  <1>3. ASSUME NEW s \in Calls, ConnectFails(s) PROVE CallInv'
    BY <1>2, <1>3 DEF ConnectFails
  <1>4. ASSUME NEW s \in Calls, ConnectReady(s) PROVE CallInv'
    <2>1. CASE ConnectThrows(s)
      BY <1>2, <1>4, <2>1 DEF ConnectReady
    <2>2. CASE channel # None /\ ~ConnectThrows(s)
      BY <1>4, <2>2 DEF ConnectReady, Queued
    <2> QED
      BY <1>4, <2>1, <2>2 DEF ConnectReady
  <1>5. ASSUME NEW s \in Calls, RefusePayload(s) PROVE CallInv'
    BY <1>5 DEF RefusePayload, Throw
  <1>6. ASSUME NEW s \in Calls, Add(s) PROVE CallInv'
    <2>1. CASE Throw({s}, "add") /\ UNCHANGED <<sentOn, pending>>
      BY <1>6, <2>1 DEF Add, Throw
    <2>2. CASE /\ channel # None /\ pending' = pending \cup {s}
               /\ pc' = [pc EXCEPT ![s] = "waiting"]
               /\ sentOn' = [sentOn EXCEPT ![s] = channel]
               /\ UNCHANGED <<why, channel, threw>>
      BY <1>6, <2>2 DEF Add
    <2> QED
      BY <1>6, <2>1, <2>2 DEF Add
  <1>7. ASSUME NEW s \in Calls, TimesOut(s) PROVE CallInv'
    BY <1>7 DEF TimesOut, Throw
  <1>8. ASSUME NEW s \in Calls, HandleMessage(s) PROVE CallInv'
    BY <1>8 DEF HandleMessage
  <1>9. ASSUME NEW ended, NEW cause, Disconnect(ended, cause) PROVE CallInv'
    BY <1>9 DEF Disconnect, Throw
  <1>10. ASSUME NEW c \in Channels, HandleStreamError(c) \/ HandleStreamDone(c)
         PROVE  CallInv'
    BY <1>9, <1>10 DEF HandleStreamError, HandleStreamDone
  <1>11. ASSUME Close PROVE CallInv'
    BY <1>9, <1>11 DEF Close
  <1>12. ASSUME NEW c \in Channels, Opens(c) \/ Breaks(c) \/ Serve(c) PROVE CallInv'
    BY <1>12 DEF Opens, Breaks, Serve, calls
  <1> QED
    BY <1>u, <1>1, <1>3, <1>4, <1>5, <1>6, <1>7, <1>8, <1>10, <1>11, <1>12
       DEF Next, Proceed, Channels

\* A caller waits exactly as long as its request is in _pendingRequests, so a
\* reply, a timeout or _disconnect finds it.
THEOREM NobodyStranded == Spec => []NoCallStranded
  <1>1. TypeOK /\ CallInv => NoCallStranded
    BY DEF CallInv
  <1> QED
    BY <1>1, TypeInit, TypeNext, CallInit, CallNext, PTL DEF Spec

-----------------------------------------------------------------------------
(* Channels and their subscriptions.                                       *)

\* One call connects, and no stream of its channel is listened to yet; a stream
\* that is listened to is the channel's, or of one whose sink.add threw.
LinkInv ==
    /\ \A s \in Calls : pc[s] = "connecting" <=> connecting = s
    /\ connecting # None => channel \in {connecting, None}
    /\ \A s \in Calls : pc[s] \in {"idle", "connecting"} => s \notin listening
                                                         /\ s # subscription
    /\ \A s \in Calls : pc[s] = "idle" => state[s] = "unused" /\ s # channel
    /\ subscription # None => subscription = channel \/ subscription \in threw
    /\ \A c \in listening : c = subscription \/ c \in threw
    /\ \A c \in threw : state[c] = "broken"

LEMMA LinkInit == Init => LinkInv
  BY NoneAssumption DEF Init, LinkInv, Channels

LEMMA LinkNext == TypeOK /\ CallInv /\ LinkInv /\ [Next]_vars => LinkInv'
  <1> SUFFICES ASSUME TypeOK, CallInv, LinkInv, [Next]_vars PROVE LinkInv'
    OBVIOUS
  <1> USE NoneAssumption DEF LinkInv, TypeOK, Channels
  <1>u. ASSUME UNCHANGED vars PROVE LinkInv'
    BY <1>u DEF vars, calls, link, peer
  <1>1. ASSUME NEW s \in Calls, Send(s) PROVE LinkInv'
    <2>1. CASE channel # None /\ UNCHANGED <<channel, connecting, state>>
      BY <1>1, <2>1 DEF Send
    <2>2. CASE channel = None /\ connecting # None
      BY <1>1, <2>2 DEF Send
    <2>3. CASE channel = None /\ connecting = None
      BY <1>1, <2>3 DEF Send
    <2> QED
      BY <1>1, <2>1, <2>2, <2>3 DEF Send
  <1>2. ASSUME NEW s \in Calls, ConnectThrows(s), pc[s] = "connecting" PROVE LinkInv'
    BY <1>2 DEF ConnectThrows, Throw, Queued, peer
  <1>3. ASSUME NEW s \in Calls, ConnectFails(s) PROVE LinkInv'
    BY <1>2, <1>3 DEF ConnectFails
  <1>4. ASSUME NEW s \in Calls, ConnectReady(s) PROVE LinkInv'
    <2>1. CASE ConnectThrows(s)
      BY <1>2, <1>4, <2>1 DEF ConnectReady
    <2>2. CASE channel # None /\ ~ConnectThrows(s)
      <3>1. channel = s
        BY <1>4, <2>2 DEF ConnectReady
      <3> QED
        BY <1>4, <2>2, <3>1 DEF ConnectReady, Queued, peer
    <2> QED
      BY <1>4, <2>1, <2>2 DEF ConnectReady
  <1>5. ASSUME NEW s \in Calls, RefusePayload(s) PROVE LinkInv'
    BY <1>5 DEF RefusePayload, Throw, link, peer
  <1>6. ASSUME NEW s \in Calls, Add(s) PROVE LinkInv'
    <2>1. CASE Throw({s}, "add") /\ UNCHANGED <<sentOn, pending>>
      <3>1. CASE channel = None
        BY <1>6, <2>1, <3>1 DEF Add, Throw, peer
      <3>2. CASE channel # None
        BY <1>6, <2>1, <3>2 DEF Add, Throw, peer
      <3> QED
        BY <3>1, <3>2
    <2>2. CASE /\ channel # None /\ pending' = pending \cup {s}
               /\ pc' = [pc EXCEPT ![s] = "waiting"]
               /\ sentOn' = [sentOn EXCEPT ![s] = channel]
               /\ UNCHANGED <<why, channel, threw>>
      BY <1>6, <2>2 DEF Add, peer
    <2> QED
      BY <1>6, <2>1, <2>2 DEF Add
  <1>7. ASSUME NEW s \in Calls, TimesOut(s) PROVE LinkInv'
    BY <1>7 DEF TimesOut, Throw, link, peer
  <1>8. ASSUME NEW s \in Calls, HandleMessage(s) PROVE LinkInv'
    BY <1>8 DEF HandleMessage, link, peer, CallInv, NoCallStranded
  <1>9. ASSUME NEW ended, NEW cause, Disconnect(ended, cause),
               \A c \in threw : state'[c] = "broken",
               \A c \in Channels : state[c] = "unused" => state'[c] = state[c] \/ c = channel
        PROVE  LinkInv'
    BY <1>9 DEF Disconnect, Throw, CallInv, NoCallStranded
  <1>10. ASSUME NEW c \in Channels, HandleStreamError(c) \/ HandleStreamDone(c)
         PROVE  LinkInv'
    <2>1. /\ \A d \in threw : state'[d] = "broken"
          /\ \A d \in Channels : state[d] = "unused" => state'[d] = state[d] \/ d = channel
      BY <1>10 DEF HandleStreamError, HandleStreamDone
    <2> QED
      BY <1>9, <1>10, <2>1 DEF HandleStreamError, HandleStreamDone
  <1>11. ASSUME Close PROVE LinkInv'
    <2>1. /\ \A d \in threw : state'[d] = "broken"
          /\ \A d \in Channels : state[d] = "unused" => state'[d] = state[d] \/ d = channel
      BY <1>11 DEF Close
    <2> QED
      BY <1>9, <1>11, <2>1 DEF Close
  <1>12. ASSUME NEW c \in Channels, Opens(c) \/ Breaks(c) \/ Serve(c) PROVE LinkInv'
    BY <1>12 DEF Opens, Breaks, Serve, calls, link
  <1> QED
    BY <1>u, <1>1, <1>3, <1>4, <1>5, <1>6, <1>7, <1>8, <1>10, <1>11, <1>12
       DEF Next, Proceed

-----------------------------------------------------------------------------
(* Whose end a request pays for.                                           *)

\* A channel whose requests may fail with somebody's stream.
Dead(c) == state[c] = "broken" \/ why[c] = "connect" \/ \E d \in threw : d # c

\* A request waits on the channel there is, or on a dead one; and one that failed
\* with a stream was on a dead one.
LossInv ==
    /\ \A s \in pending : sentOn[s] = channel \/ Dead(sentOn[s])
    /\ \A s \in Calls : why[s] = "stream" => Dead(sentOn[s])

AllInv == TypeOK /\ CallInv /\ LinkInv /\ LossInv

\* Nothing makes a dead channel live again.
LEMMA DeadStays ==
    ASSUME TypeOK, CallInv, LinkInv, [Next]_vars, NEW c \in Channels, Dead(c)
    PROVE  Dead(c)'
  <1> USE DEF TypeOK, Channels, Dead
  <1>1. threw \subseteq threw'
    BY DEF Next, Send, Proceed, ConnectFails, ConnectReady, ConnectThrows,
       RefusePayload, Add, TimesOut, HandleMessage, Serve, HandleStreamError,
       HandleStreamDone, Disconnect, Opens, Breaks, Close, vars
  <1>2. state[c] = "broken" => state'[c] = "broken"
    <2>1. ASSUME NEW s \in Calls, Send(s), state[c] = "broken" PROVE state'[c] = "broken"
      <3>1. state[s] = "unused"
        BY <2>1 DEF Send, LinkInv
      <3> QED
        BY <2>1, <3>1 DEF Send
    <2>2. ASSUME NEW s \in Calls, Proceed(s) PROVE UNCHANGED state
      BY <2>2 DEF Proceed, ConnectFails, ConnectReady, ConnectThrows,
         RefusePayload, Add, TimesOut, peer
    <2>3. ASSUME NEW s \in Calls, HandleMessage(s) \/ Serve(s) PROVE UNCHANGED state
      BY <2>3 DEF HandleMessage, Serve, peer
    <2>4. ASSUME \/ Close
                 \/ \E d \in Channels : HandleStreamError(d) \/ HandleStreamDone(d)
                                      \/ Opens(d) \/ Breaks(d),
                 state[c] = "broken"
          PROVE  state'[c] = "broken"
      BY <2>4 DEF HandleStreamError, HandleStreamDone, Opens, Breaks, Close
    <2>5. UNCHANGED vars => UNCHANGED state
      BY DEF vars, peer
    <2> QED
      BY <2>1, <2>2, <2>3, <2>4, <2>5 DEF Next
  <1>3. why[c] = "connect" => why'[c] = "connect"
    <2> SUFFICES ASSUME why[c] = "connect" PROVE why'[c] = "connect"
      OBVIOUS
    <2>1. pc[c] = "failed" /\ c \notin pending
      BY DEF CallInv, NoCallStranded
    <2> QED
      BY <2>1 DEF Next, Send, Proceed, ConnectFails, ConnectReady, ConnectThrows,
         RefusePayload, Add, TimesOut, HandleMessage, Serve, HandleStreamError,
         HandleStreamDone, Disconnect, Opens, Breaks, Close, vars, calls, Throw,
         Queued
  <1> QED
    BY <1>1, <1>2, <1>3

LEMMA LossInit == Init => LossInv
  BY DEF Init, LossInv

\* Requests that wait on a channel, or have failed, are none the worse for a step
\* that leaves the channel or declares it dead.
LEMMA LossKept ==
    ASSUME TypeOK, CallInv, LinkInv, LossInv, [Next]_vars, UNCHANGED sentOn,
           pending' \subseteq pending,
           \A c \in Channels : c = channel => \/ channel' = c \/ Dead(c)'
                                           \/ pending' = {},
           \A s \in Calls : why'[s] = "stream" => why[s] = "stream"
    PROVE  LossInv'
  <1>1. ASSUME NEW s \in pending' PROVE (sentOn[s] = channel \/ Dead(sentOn[s]))'
    <2>1. s \in pending /\ sentOn[s] \in Channels
      BY <1>1 DEF TypeOK, CallInv, Channels
    <2>2. CASE sentOn[s] = channel
      <3>1. PICK c \in Channels : c = channel
        BY <2>1, <2>2
      <3>2. channel' = c \/ Dead(c)'
        BY <1>1, <3>1
      <3>3. sentOn'[s] = c
        BY <2>2, <3>1
      <3> QED
        BY <3>2, <3>3
    <2>3. CASE Dead(sentOn[s])
      <3>1. PICK c \in Channels : c = sentOn[s]
        BY <2>1
      <3>2. Dead(c)'
        BY <2>3, <3>1, DeadStays
      <3> QED
        BY <3>1, <3>2
    <2> QED
      BY <2>1, <2>2, <2>3 DEF LossInv
  <1>2. ASSUME NEW s \in Calls, why'[s] = "stream" PROVE Dead(sentOn[s])'
    <2>1. why[s] = "stream" /\ Dead(sentOn[s])
      BY <1>2 DEF LossInv
    <2>2. PICK c \in Channels : c = sentOn[s]
      BY <2>1 DEF TypeOK, CallInv, Channels
    <2>3. Dead(c)'
      BY <2>1, <2>2, DeadStays
    <2> QED
      BY <2>2, <2>3
  <1> QED
    BY <1>1, <1>2 DEF LossInv

\* A stream takes the requests of its own channel, or is an old one whose
\* subscription stayed when its sink.add threw.
LEMMA LossStream ==
    ASSUME TypeOK, CallInv, LinkInv, LossInv, [Next]_vars, NEW c \in Channels,
           HandleStreamError(c) \/ HandleStreamDone(c)
    PROVE  LossInv'
  <1> USE DEF Channels
  <1>1. /\ pending' = {} /\ sentOn' = sentOn /\ threw' = threw
        /\ Throw(pending, "stream")
        /\ c \in listening /\ state'[c] = "broken"
    BY DEF HandleStreamError, HandleStreamDone, Disconnect, TypeOK
  <1>2. ASSUME NEW s \in Calls, why'[s] = "stream" PROVE Dead(sentOn[s])'
    <2>1. PICK d \in Channels : d = sentOn[s]
      BY <1>1, <1>2 DEF Throw, CallInv, TypeOK
    <2>2. Dead(d) => Dead(d)'
      BY DeadStays
    <2>3. CASE Dead(d)
      BY <1>1, <2>1, <2>2, <2>3
    <2>4. CASE ~Dead(d)
      <3>1. d = channel
        BY <1>1, <1>2, <2>1, <2>4 DEF LossInv, Throw
      <3>2. threw \subseteq {d}
        BY <2>4 DEF Dead
      <3>3. c = d
        BY <1>1, <3>1, <3>2, NoneAssumption DEF LinkInv, TypeOK
      <3>4. Dead(d)'
        BY <1>1, <3>3 DEF Dead
      <3> QED
        BY <1>1, <2>1, <3>4
    <2> QED
      BY <2>3, <2>4
  <1> QED
    BY <1>1, <1>2 DEF LossInv

LEMMA LossNext ==
    TypeOK /\ CallInv /\ LinkInv /\ LossInv /\ [Next]_vars => LossInv'
  <1> SUFFICES ASSUME TypeOK, CallInv, LinkInv, LossInv, [Next]_vars PROVE LossInv'
    OBVIOUS
  <1> USE NoneAssumption DEF Channels
  <1>u. ASSUME UNCHANGED vars PROVE LossInv'
    BY <1>u, LossKept DEF vars, calls, link
  <1>1. ASSUME NEW s \in Calls, Send(s) PROVE LossInv'
    BY <1>1, LossKept DEF Send
  <1>2. ASSUME NEW s \in Calls, ConnectThrows(s), pc[s] = "connecting" PROVE LossInv'
    <2>1. why'[s] = "connect"
      BY <1>2 DEF ConnectThrows, Throw
    <2>2. ASSUME NEW c \in Channels, c = channel PROVE Dead(c)'
      <3>1. c = s
        BY <1>2, <2>2 DEF LinkInv
      <3> QED
        BY <2>1, <3>1 DEF Dead
    <2>3. \A t \in Calls : why'[t] = "stream" => why[t] = "stream"
      BY <1>2 DEF ConnectThrows, Throw
    <2> QED
      BY <1>2, <2>2, <2>3, LossKept DEF ConnectThrows
  <1>3. ASSUME NEW s \in Calls, ConnectFails(s) PROVE LossInv'
    BY <1>2, <1>3 DEF ConnectFails
  <1>4. ASSUME NEW s \in Calls, ConnectReady(s) PROVE LossInv'
    <2>1. CASE ConnectThrows(s)
      BY <1>2, <1>4, <2>1 DEF ConnectReady
    <2>2. CASE channel # None /\ ~ConnectThrows(s)
      BY <1>4, <2>2, LossKept DEF ConnectReady
    <2> QED
      BY <1>4, <2>1, <2>2 DEF ConnectReady
  <1>5. ASSUME NEW s \in Calls, RefusePayload(s) PROVE LossInv'
    BY <1>5, LossKept DEF RefusePayload, Throw, link
  <1>6. ASSUME NEW s \in Calls, Add(s) PROVE LossInv'
    <2>1. CASE Throw({s}, "add") /\ UNCHANGED <<sentOn, pending>>
               /\ channel \in {None} \cup {c \in Channels : state[c] = "broken"}
      <3>1. ASSUME NEW c \in Channels, c = channel PROVE Dead(c)'
        BY <1>6, <2>1, <3>1 DEF Add, Dead, peer
      <3>2. \A t \in Calls : why'[t] = "stream" => why[t] = "stream"
        BY <2>1 DEF Throw
      <3> QED
        BY <2>1, <3>1, <3>2, LossKept
    <2>2. CASE /\ channel # None /\ pending' = pending \cup {s}
               /\ pc' = [pc EXCEPT ![s] = "waiting"]
               /\ sentOn' = [sentOn EXCEPT ![s] = channel]
               /\ UNCHANGED <<why, channel, threw>>
      <3>1. ASSUME NEW t \in Calls, t # s, Dead(sentOn[t]), sentOn[t] # None
            PROVE  Dead(sentOn[t])'
        <4>1. PICK c \in Channels : c = sentOn[t]
          BY <3>1 DEF TypeOK
        <4>2. Dead(c)'
          BY <3>1, <4>1, DeadStays
        <4>3. sentOn'[t] = c
          BY <2>2, <3>1, <4>1 DEF TypeOK
        <4> QED
          BY <4>2, <4>3
      <3>2. ASSUME NEW t \in pending' PROVE (sentOn[t] = channel \/ Dead(sentOn[t]))'
        <4>1. CASE t = s
          BY <2>2, <4>1 DEF TypeOK
        <4>2. CASE t # s
          BY <2>2, <3>1, <3>2, <4>2 DEF TypeOK, CallInv, LossInv
        <4> QED
          BY <4>1, <4>2
      <3>3. ASSUME NEW t \in Calls, why'[t] = "stream" PROVE Dead(sentOn[t])'
        <4>1. why[t] = "stream" /\ t # s
          BY <1>6, <2>2, <3>3 DEF CallInv, Add
        <4> QED
          BY <3>1, <4>1 DEF CallInv, LossInv
      <3> QED
        BY <3>2, <3>3 DEF LossInv
    <2> QED
      BY <1>6, <2>1, <2>2 DEF Add
  <1>7. ASSUME NEW s \in Calls, TimesOut(s) PROVE LossInv'
    BY <1>7, LossKept DEF TimesOut, Throw, link
  <1>8. ASSUME NEW s \in Calls, HandleMessage(s) PROVE LossInv'
    BY <1>8, LossKept DEF HandleMessage, link
  <1>9. ASSUME NEW c \in Channels, HandleStreamError(c) \/ HandleStreamDone(c)
        PROVE  LossInv'
    BY <1>9, LossStream
  <1>10. ASSUME Close PROVE LossInv'
    BY <1>10, LossKept DEF Close, Disconnect, Throw
  <1>11. ASSUME NEW c \in Channels, Opens(c) \/ Breaks(c) \/ Serve(c) PROVE LossInv'
    BY <1>11, LossKept DEF Opens, Breaks, Serve, calls, link
  <1> QED
    BY <1>u, <1>1, <1>3, <1>4, <1>5, <1>6, <1>7, <1>8, <1>9, <1>10, <1>11
       DEF Next, Proceed

LEMMA AllInductive == Spec => []AllInv
  <1>1. Init => AllInv
    BY TypeInit, CallInit, LinkInit, LossInit DEF AllInv
  <1>2. AllInv /\ [Next]_vars => AllInv'
    BY TypeNext, CallNext, LinkNext, LossNext DEF AllInv
  <1> QED
    BY <1>1, <1>2, PTL DEF Spec

\* No request on a live channel fails with a stream, as long as no sink.add of
\* another channel has thrown: _disconnect and the subscriptions keep step.
THEOREM HealthySurvives == Spec => []HealthyRequestSurvives
  <1>1. AllInv => HealthyRequestSurvives
    BY DEF AllInv, LossInv, Dead, HealthyRequestSurvives
  <1> QED
    BY <1>1, AllInductive, PTL

-----------------------------------------------------------------------------
(* Refinement of RpcTransport.                                             *)

\* The calls of S, which are under way, throw.
LEMMA RpcFail ==
    ASSUME TypeOK, NEW S \in SUBSET Calls, NEW cause, Throw(S, cause),
           \A s \in S : Status[s] = "pending", UNCHANGED <<got, served>>
    PROVE  Rpc!Next
  <1>1. Rpc!Fail(S)
    BY DEF Rpc!Fail, Throw, Status, TypeOK
  <1> QED
    BY <1>1 DEF Rpc!Next

\* A step that moves calls from one await to another is no step of the abstract
\* transport.
LEMMA RpcStutter ==
    ASSUME TypeOK, UNCHANGED <<got, served>>,
           \A s \in Calls : Status'[s] = Status[s]
    PROVE  UNCHANGED Rpc!vars
  BY DEF Rpc!vars, Status

LEMMA RpcNext == AllInv /\ [Next]_vars => [Rpc!Next]_Rpc!vars
  <1> SUFFICES ASSUME AllInv, [Next]_vars PROVE [Rpc!Next]_Rpc!vars
    OBVIOUS
  <1> USE DEF AllInv
  <1>u. ASSUME UNCHANGED vars PROVE UNCHANGED Rpc!vars
    BY <1>u DEF vars, calls, peer, Rpc!vars, Status
  <1>1. ASSUME NEW s \in Calls, Send(s) PROVE Rpc!Next
    <2>1. pc' = [pc EXCEPT ![s] = pc'[s]] /\ pc'[s] \in {"connecting", "queued", "ready"}
      BY <1>1 DEF Send, TypeOK
    <2>2. Rpc!Call(s)
      BY <1>1, <2>1 DEF Send, Rpc!Call, Status, TypeOK
    <2> QED
      BY <2>2 DEF Rpc!Next
  <1>2. ASSUME NEW s \in Calls, ConnectThrows(s), pc[s] = "connecting" PROVE Rpc!Next
    <2>1. {s} \cup Queued \in SUBSET Calls
      BY DEF Queued
    <2>2. \A t \in {s} \cup Queued : Status[t] = "pending"
      BY <1>2 DEF Queued, Status
    <2> QED
      BY <1>2, <2>1, <2>2, RpcFail DEF ConnectThrows, peer
  <1>3. ASSUME NEW s \in Calls, ConnectFails(s) PROVE Rpc!Next
    BY <1>2, <1>3 DEF ConnectFails
  <1>4. ASSUME NEW s \in Calls, ConnectReady(s) PROVE [Rpc!Next]_Rpc!vars
    <2>1. CASE ConnectThrows(s)
      BY <1>2, <1>4, <2>1 DEF ConnectReady
    <2>2. CASE channel # None /\ ~ConnectThrows(s)
      <3>1. \A t \in Calls : Status'[t] = Status[t]
        BY <1>4, <2>2 DEF ConnectReady, Status, Queued
      <3> QED
        BY <1>4, <2>2, <3>1, RpcStutter DEF ConnectReady, peer
    <2> QED
      BY <1>4, <2>1, <2>2 DEF ConnectReady
  <1>5. ASSUME NEW s \in Calls, RefusePayload(s) PROVE Rpc!Next
    <2>1. Status[s] = "pending"
      BY <1>5 DEF RefusePayload, Status
    <2> QED
      BY <1>5, <2>1, RpcFail DEF RefusePayload, peer
  <1>6. ASSUME NEW s \in Calls, Add(s) PROVE [Rpc!Next]_Rpc!vars
    <2>1. Status[s] = "pending"
      BY <1>6 DEF Add, Status
    <2>2. CASE Throw({s}, "add")
      BY <1>6, <2>1, <2>2, RpcFail DEF Add, peer
    <2>3. CASE pc' = [pc EXCEPT ![s] = "waiting"]
      <3>1. \A t \in Calls : Status'[t] = Status[t]
        BY <1>6, <2>1, <2>3 DEF Status, TypeOK
      <3> QED
        BY <1>6, <3>1, RpcStutter DEF Add, peer
    <2> QED
      BY <1>6, <2>2, <2>3 DEF Add
  <1>7. ASSUME NEW s \in Calls, TimesOut(s) PROVE Rpc!Next
    <2>1. Status[s] = "pending"
      BY <1>7 DEF TimesOut, Status
    <2> QED
      BY <1>7, <2>1, RpcFail DEF TimesOut, peer
  <1>8. ASSUME NEW s \in Calls, HandleMessage(s) PROVE Rpc!Next
    <2>1. pc[s] = "waiting"
      BY <1>8 DEF HandleMessage, CallInv, NoCallStranded
    <2>2. Rpc!Answer(s)
      BY <1>8, <2>1 DEF HandleMessage, Rpc!Answer, Status, TypeOK, peer
    <2> QED
      BY <2>2 DEF Rpc!Next
  <1>9. ASSUME NEW ended, NEW cause, Disconnect(ended, cause) PROVE Rpc!Next
    <2>1. \A s \in pending : Status[s] = "pending"
      BY DEF Status, CallInv, NoCallStranded, TypeOK
    <2>2. pending \in SUBSET Calls
      BY DEF TypeOK
    <2> QED
      BY <1>9, <2>1, <2>2, RpcFail DEF Disconnect
  <1>10. ASSUME NEW c \in Channels, HandleStreamError(c) \/ HandleStreamDone(c)
         PROVE  Rpc!Next
    BY <1>9, <1>10 DEF HandleStreamError, HandleStreamDone
  <1>11. ASSUME Close PROVE Rpc!Next
    BY <1>9, <1>11 DEF Close
  <1>12. ASSUME NEW c \in Channels, Opens(c) \/ Breaks(c) PROVE UNCHANGED Rpc!vars
    BY <1>12 DEF Opens, Breaks, calls, Rpc!vars, Status
  <1>13. ASSUME NEW s \in Calls, Serve(s) PROVE Rpc!Next
    <2>1. Status[s] # "idle"
      BY <1>13 DEF Serve, CallInv, Status
    <2>2. Rpc!Serve(s)
      BY <1>13, <2>1 DEF Serve, Rpc!Serve, calls, Status
    <2> QED
      BY <2>2 DEF Rpc!Next
  <1> QED
    BY <1>u, <1>1, <1>3, <1>4, <1>5, <1>6, <1>7, <1>8, <1>10, <1>11, <1>12, <1>13
       DEF Next, Proceed, Channels

\* Every call of send is answered at most once, with the reply to its own request,
\* or throws, however replies, ends of streams and new connections interleave.
THEOREM WsImplementsRpc == Spec => ImplementsRpc
  <1>1. Init => Rpc!Init
    BY DEF Init, Rpc!Init, Status
  <1> QED
    BY <1>1, RpcNext, AllInductive, PTL DEF Spec, ImplementsRpc, Rpc!Spec
=============================================================================
