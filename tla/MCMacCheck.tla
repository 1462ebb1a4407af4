----------------------------- MODULE MCMacCheck -----------------------------
(***************************************************************************)
(* MacCheck on all programs of up to three calls, with and without a Check *)
(* as the last.                                                            *)
(***************************************************************************)
EXTENDS MacCheck

MCCall == {Open(1), Open(2), Claim(TRUE), Claim(FALSE), DoCheck}

Short == UNION {[1 .. n -> MCCall] : n \in 0 .. 3}

MCPrograms == Short \cup {Append(s, DoCheck) : s \in Short}
=============================================================================
