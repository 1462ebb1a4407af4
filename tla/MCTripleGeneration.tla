------------------------- MODULE MCTripleGeneration -------------------------
(***************************************************************************)
(* TripleGeneration on programs of up to two calls, one after the other on *)
(* the same multipliers, bits and connections.                             *)
(***************************************************************************)
EXTENDS TripleGeneration

MCPrograms == {<<Triples, Inputs(1)>>, <<Inputs(0), Triples>>, <<Triples, Triples>>,
                <<Inputs(1), Inputs(2)>>}

MCOneCall == {<<Inputs(1)>>}
=============================================================================
