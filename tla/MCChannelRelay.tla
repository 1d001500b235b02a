--------------------------- MODULE MCChannelRelay ---------------------------
(* Small instances of ChannelRelay for TLC.                                *)
EXTENDS ChannelRelay

\* Three phases, the last one only sends, like a final proof message.
Phase(s, n) == [send |-> s, need |-> n]
ShortScript == <<Phase(2, 1), Phase(2, 2), Phase(1, 0)>>

\* Envelopes of every size: empty, too short, too long.
AnyPayloads == <<0..2, 0..2, 0..2, 0..1>>

\* A script of three inputs, and the envelopes a server following the
\* protocol sends: the c-th call brings what the c-th phase needs.
LongScript == <<Phase(2, 1), Phase(2, 2), Phase(2, 1), Phase(1, 0)>>
ExpectedPayloads == <<{1}, {2}, {1}, {0}, {0}>>
=============================================================================
