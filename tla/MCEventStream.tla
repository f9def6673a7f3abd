--------------------------- MODULE MCEventStream ---------------------------
(* Small instances of EventStream; a liveness run takes no symmetry. *)
EXTENDS EventStream
=============================================================================
