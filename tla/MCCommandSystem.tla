-------------------------- MODULE MCCommandSystem --------------------------
(* The command system with one room and one robot, for TLC.                 *)
EXTENDS CommandSystem

\* A command may be due in the next frame or in the one after it, and a frame
\* may be too long to count.
MCDelays == {1, 2}
MCFrames == {1, 3}
MCSecond == 3
=============================================================================
