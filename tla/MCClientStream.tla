--------------------------- MODULE MCClientStream ---------------------------
(* A client of few packets, for TLC.                                        *)
EXTENDS ClientStream

\* A frame is shorter than the unit of the time-out, so it may not count.
MCElapsed == {0, 1}
=============================================================================
