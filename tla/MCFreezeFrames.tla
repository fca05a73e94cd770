--------------------------- MODULE MCFreezeFrames ---------------------------
(* FreezeFrames for TLC.                                                   *)
EXTENDS FreezeFrames

\* 0 is the code's; the other stands for 482005800, far from any frame's.
InvalidTimestamps == {0, 9}
=============================================================================
