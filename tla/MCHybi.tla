------------------------------- MODULE MCHybi -------------------------------
(* What clients send to HybiFrames, for TLC: all pairs of short frames, and  *)
(* some with lengths of three bytes.                                         *)
EXTENDS HybiFrames

F(op, len) == [op |-> op, len |-> len, fin |-> TRUE, rsv |-> FALSE, deflated |-> FALSE]
Deflated == [F("Text", 1) EXCEPT !.deflated = TRUE]
Short == {F("Text", 1), F("Binary", 0), F("Ping", 1), F("Pong", 0), F("Close", 2), F("Unknown", 0), Deflated,
          [F("Text", 1) EXCEPT !.fin = FALSE], [F("Text", 1) EXCEPT !.rsv = TRUE]}
MCStreams == {<<f, g>> : f, g \in Short} \cup
             {<<F("Text", 126), F("Text", 1)>>, <<Deflated, F("Text", 126)>>, <<F("Text", 150)>>}
=============================================================================
