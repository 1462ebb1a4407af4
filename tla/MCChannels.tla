----------------------------- MODULE MCChannels -----------------------------
(***************************************************************************)
(* Three parties that start in time, with one player object and a program, *)
(* or with two; and one of them late, or never there.  Connections hold    *)
(* two units per direction, so that lengths and messages are sent in       *)
(* pieces; messages are empty, shorter and longer than that.  One program  *)
(* uses threads before exchangers, another the reverse.  Party 0 may show  *)
(* party 1 another broadcast than party 2.                                 *)
(***************************************************************************)
EXTENDS Channels

MCStarts == {[late |-> {}, layers |-> 1], [late |-> {}, layers |-> 2],
             [late |-> {1}, layers |-> 1]}

Lens(a, b, c) == [p \in Party |-> <<a, b, c>>[p + 1]]

MCPrograms ==
  { <<Broadcast(Lens(1, 1, 0)), Check>>,
    <<Check, Pass(Lens(3, 3, 3), TRUE), Pass(Lens(2, 1, 0), FALSE)>>,
    <<Pass(Lens(0, 2, 1), FALSE), Pass(Lens(2, 2, 2), TRUE)>>,
    <<Swap(Lens(0, 2, 0), {0, 1}), Swap(Lens(2, 0, 1), {0, 2})>> }

MCLiars == {0}
=============================================================================
