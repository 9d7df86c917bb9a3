---------------------------- MODULE MCBalances ----------------------------
(***************************************************************************)
(* A small instance of Balances in Lifecycle: every environment, one       *)
(* request at a time, a device with one free bump a day and a paid one,    *)
(* and an allowlisted device.                                              *)
(***************************************************************************)
EXTENDS Balances
=============================================================================
