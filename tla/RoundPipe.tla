------------------------------ MODULE RoundPipe ------------------------------
(***************************************************************************)
(* What a caller of the round functions keygen, recover and sign may rely  *)
(* on, whatever the threads do: the protocol's messages reach it in        *)
(* non-empty batches, in order, each once; and a session completes only    *)
(* with a protocol that succeeded.  ChannelRelay implements this.          *)
(***************************************************************************)
EXTENDS Naturals, Sequences

VARIABLES
    out,        \* the messages the protocol has produced
    got,        \* those handed to the caller
    protocol,   \* "running", then "done" or "failed"
    cut,        \* the caller asked for the result and takes no more messages
    outcome     \* "open", then "completed" or "failed"

pipeVars == <<out, got, protocol, cut, outcome>>

Init ==
    /\ out = <<>> /\ got = <<>>
    /\ protocol = "running" /\ cut = FALSE /\ outcome = "open"

Produce ==
    /\ protocol = "running"
    /\ out' = Append(out, Len(out) + 1)
    /\ UNCHANGED <<got, protocol, cut, outcome>>

End ==
    /\ protocol = "running"
    /\ protocol' \in {"done", "failed"}
    /\ UNCHANGED <<out, got, cut, outcome>>

\* A "continue" reply: all that was produced and not handed over yet, at
\* least one message.
Deliver ==
    /\ outcome = "open" /\ ~cut
    /\ got # out
    /\ got' = out
    /\ UNCHANGED <<out, protocol, cut, outcome>>

\* The round-0 call.
Cut ==
    /\ outcome = "open" /\ ~cut
    /\ cut' = TRUE
    /\ UNCHANGED <<out, got, protocol, outcome>>

\* A "completed" reply.  Unless the caller cut the session short it has every
\* message the protocol produced.
Complete ==
    /\ outcome = "open" /\ protocol = "done"
    /\ cut \/ got = out
    /\ outcome' = "completed"
    /\ UNCHANGED <<out, got, protocol, cut>>

\* An error that ends the session: never while the protocol runs.
Fail ==
    /\ outcome = "open" /\ protocol # "running"
    /\ outcome' = "failed"
    /\ UNCHANGED <<out, got, protocol, cut>>

Next == Produce \/ End \/ Deliver \/ Cut \/ Complete \/ Fail

Spec == Init /\ [][Next]_pipeVars
=============================================================================
