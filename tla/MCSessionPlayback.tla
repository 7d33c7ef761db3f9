------------------------- MODULE MCSessionPlayback -------------------------
(***************************************************************************)
(* Values of SessionPlayback's constants for TLC.                          *)
(***************************************************************************)
EXTENDS SessionPlayback

\* Three bytes and two control messages: both buffers are flushed when full,
\* and a flushed document is longer than a read.
Sizes == [b \in {"recording", "control"} |-> IF b = "recording" THEN 3 ELSE 2]
=============================================================================
