--------------------------- MODULE MCDailyCounter ---------------------------
(***************************************************************************)
(* Small instances of DailyCounter: days of four seconds, three midnights. *)
(***************************************************************************)
EXTENDS DailyCounter, TLC

Interchangeable == Permutations(Handlers)
=============================================================================
