--------------------------- MODULE MCDruidAccess ---------------------------
(***************************************************************************)
(* The scan and two fits against fewer slots than queries.                 *)
(***************************************************************************)
EXTENDS DruidAccess

(* Two windows, the second the shorter, and a range of too many. *)
SomeSpans == {3, 5}
SomePoints == {0, 2, 3}
=============================================================================
