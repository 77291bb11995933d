--------------------------- MODULE MCFrameThreads ---------------------------
(* Instances of FrameThreads for TLC. *)
EXTENDS FrameThreads

FrameKinds == {"shown", "hidden", "existing", "rejected"}
PlainKinds == {"shown", "hidden"}
AllKinds == FrameKinds \cup {"rejectedTiles", "malformed", "other"}
============================================================================
