--------------------------- MODULE MCRequestQueue ---------------------------
(* RequestQueue on small instances. *)
EXTENDS RequestQueue

SmallSizes == {1, 2}
=============================================================================
