-------------------------------- MODULE Shop --------------------------------
(***************************************************************************)
(* What /verify promises, without transactions, rows and connections.      *)
(*                                                                         *)
(* A client asks for a purchase to be credited.  A purchase is sold once,  *)
(* to the device that asked, in the moment in which the client's answer is *)
(* decided; the client may be told 503 although it was sold.  It is told   *)
(* "invalid" only for a purchase that is sold or that is no purchase, or   *)
(* where Google Play is asked and does not confirm it.                     *)
(***************************************************************************)
EXTENDS Integers

CONSTANTS Devices, Clients, Keys, GoogleTokens, NoDevice, NoKey

VARIABLES
    service,  \* whether Google Play is asked
    bought,   \* the tokens Google Play knows as purchased
    sold,     \* the device a purchase was credited to
    balance,  \* the paid bumps of a device
    asking,   \* the device and the purchase a client waits for an answer about
    reply     \* the last answer of a client

vars == <<service, bought, sold, balance, asking, reply>>

Nothing == [dev |-> NoDevice, key |-> NoKey]
Waiting(c) == asking[c].dev # NoDevice

Init ==
    /\ service \in BOOLEAN
    /\ bought = {}
    /\ sold = [k \in Keys |-> NoDevice]
    /\ balance = [d \in Devices |-> 0]
    /\ asking = [c \in Clients |-> Nothing]
    /\ reply = [c \in Clients |-> "none"]

Ask(c, d, k) ==
    /\ ~Waiting(c)
    /\ asking' = [asking EXCEPT ![c] = [dev |-> d, key |-> k]]
    /\ reply' = [reply EXCEPT ![c] = "none"]
    /\ UNCHANGED <<service, bought, sold, balance>>

Tell(c, what) ==
    /\ Waiting(c)
    /\ asking' = [asking EXCEPT ![c] = Nothing]
    /\ reply' = [reply EXCEPT ![c] = what]

AskedAtGoogle(k) == service /\ k \in GoogleTokens

Sell(c) ==
    LET k == asking[c].key
        d == asking[c].dev
    IN  /\ k \in Keys /\ sold[k] = NoDevice
        /\ AskedAtGoogle(k) => k \in bought
        /\ sold' = [sold EXCEPT ![k] = d]
        /\ balance' = [balance EXCEPT ![d] = @ + 1]
        /\ \E what \in {"valid", "503"}: Tell(c, what)
        /\ UNCHANGED <<service, bought>>

Refuse(c) ==
    LET k == asking[c].key IN
    /\ k \in Keys => sold[k] # NoDevice \/ AskedAtGoogle(k)
    /\ Tell(c, "invalid")
    /\ UNCHANGED <<service, bought, sold, balance>>

Fail(c) ==
    /\ Tell(c, "503")
    /\ UNCHANGED <<service, bought, sold, balance>>

\* The server stops and answers nobody.
Hangup ==
    /\ asking' = [c \in Clients |-> Nothing]
    /\ reply' = [c \in Clients |-> "none"]
    /\ UNCHANGED <<service, bought, sold, balance>>

Buy(t) ==
    /\ bought' = bought \cup {t}
    /\ UNCHANGED <<service, sold, balance, asking, reply>>

Spend(d) ==
    /\ balance[d] > 0
    /\ balance' = [balance EXCEPT ![d] = @ - 1]
    /\ UNCHANGED <<service, bought, sold, asking, reply>>

Next ==
    \/ \E c \in Clients:
          \/ Sell(c) \/ Refuse(c) \/ Fail(c)
          \/ \E d \in Devices, k \in Keys \cup {NoKey}: Ask(c, d, k)
    \/ \E t \in GoogleTokens: Buy(t)
    \/ \E d \in Devices: Spend(d)
    \/ Hangup

Spec == Init /\ [][Next]_vars
=============================================================================
