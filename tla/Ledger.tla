------------------------------- MODULE Ledger -------------------------------
(***************************************************************************)
(* What reserve and commit promise, without their stores and handlers.     *)
(*                                                                         *)
(* A session that a client was given is open until it is settled: charged  *)
(* for the device it was given to, or closed without a charge.  A free     *)
(* session is closed by its charge.  Nothing reopens a session, no charge  *)
(* is made for a closed one, and a paid charge takes one bump out of the   *)
(* balance of the session's own device and of no other.                    *)
(*                                                                         *)
(* A paid session may stay open when it is charged: the code does not      *)
(* promise that its retries are free (see PaidChargedAtMostOnce).          *)
(***************************************************************************)
EXTENDS Integers

CONSTANTS Devices, Sessions, NoDevice

VARIABLES
    stage,      \* "fresh" until a client has the session, then "open" or "closed"
    holder,     \* the device a session was given to
    allowance,  \* the allowance a session draws on
    charges,    \* how often a session was charged
    balance     \* the paid bumps of a device

vars == <<stage, holder, allowance, charges, balance>>

Init ==
    /\ stage = [s \in Sessions |-> "fresh"]
    /\ holder = [s \in Sessions |-> NoDevice]
    /\ allowance = [s \in Sessions |-> "none"]
    /\ charges = [s \in Sessions |-> 0]
    /\ balance = [d \in Devices |-> 0]

\* A client is given a session.  By then it may have expired already, and a
\* session that draws on no allowance never was open.
Grant(s, d) ==
    /\ stage[s] = "fresh"
    /\ \E to \in {"open", "closed"}, from \in {"none", "free", "paid"}:
          /\ from = "none" => to = "closed"
          /\ stage' = [stage EXCEPT ![s] = to]
          /\ allowance' = [allowance EXCEPT ![s] = from]
    /\ holder' = [holder EXCEPT ![s] = d]
    /\ UNCHANGED <<charges, balance>>

ChargeFree(s) ==
    /\ stage[s] = "open" /\ allowance[s] = "free"
    /\ stage' = [stage EXCEPT ![s] = "closed"]
    /\ charges' = [charges EXCEPT ![s] = @ + 1]
    /\ UNCHANGED <<holder, allowance, balance>>

ChargePaid(s) ==
    /\ stage[s] = "open" /\ allowance[s] = "paid"
    /\ balance[holder[s]] > 0
    /\ balance' = [balance EXCEPT ![holder[s]] = @ - 1]
    /\ charges' = [charges EXCEPT ![s] = @ + 1]
    /\ \E to \in {"open", "closed"}: stage' = [stage EXCEPT ![s] = to]
    /\ UNCHANGED <<holder, allowance>>

\* Sessions expire, or their last commit gives up.
Close ==
    /\ \E closing \in SUBSET {s \in Sessions: stage[s] = "open"}:
          stage' = [s \in Sessions |-> IF s \in closing THEN "closed" ELSE stage[s]]
    /\ UNCHANGED <<holder, allowance, charges, balance>>

\* A purchase is credited.
Deposit(d) ==
    /\ balance' = [balance EXCEPT ![d] = @ + 1]
    /\ UNCHANGED <<stage, holder, allowance, charges>>

Next ==
    \/ \E s \in Sessions:
          ChargeFree(s) \/ ChargePaid(s) \/ \E d \in Devices: Grant(s, d)
    \/ Close
    \/ \E d \in Devices: Deposit(d)

Spec == Init /\ [][Next]_vars
=============================================================================
