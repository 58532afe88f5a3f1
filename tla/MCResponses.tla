----------------------------- MODULE MCResponses -----------------------------
(* Two nodes around a concentrator, with bind rows of each shape.          *)
EXTENDS Responses

CONSTANTS n1, n2, b, u1, i1, any

MCNodes == {n1, n2}

\* From a unit, a device or anyone: one member to n2, all of them to the base.
MCRows ==
  {[device |-> d, unit |-> u, itf |-> i, destination |-> IF i = any THEN b ELSE n2] :
     d \in {n1, any}, u \in {u1, any}, i \in {i1, any}}
=============================================================================
