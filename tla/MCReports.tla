----------------------------- MODULE MCReports -----------------------------
(***************************************************************************)
(* A small instance of Reports: one reporter more than the threshold       *)
(* needs, one of them reported as well, and two requests at once.          *)
(***************************************************************************)
EXTENDS Reports, TLC

Interchangeable == Permutations(Handlers)

EveryFault == (Steps \X {"error"}) \cup {<<"insert", "lost">>}
=============================================================================
