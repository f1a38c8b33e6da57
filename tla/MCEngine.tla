------------------------------ MODULE MCEngine ------------------------------
(* Engine with two files that share a mention, with the same content or not. *)
EXTENDS Engine, TLC

CONSTANTS a, b, c, c1, c2

Request(id, content) == [id |-> id, content |-> content]

Files == {<<Request(a, c1), Request(b, c1)>>,
          <<Request(b, c1), Request(c, c1)>>,
          <<Request(b, c2), Request(a, c1)>>}
=============================================================================
