--------------------------- MODULE MCEventStream ---------------------------
(***************************************************************************)
(* Instances of EventStream for TLC.                                       *)
(***************************************************************************)
EXTENDS EventStream

(* Events of every form; the second and the last come in two lines. *)
Shapes == <<1, 2, 1, 1, 1, 2>>
Forms == <<"malformed", "object", "other", "object", "undecodable", "object">>
=============================================================================
