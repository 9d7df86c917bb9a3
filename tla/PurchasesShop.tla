--------------------------- MODULE PurchasesShop ---------------------------
(***************************************************************************)
(* Purchases keeps what Shop promises: the refinement mapping.  A client   *)
(* waits while its handler runs; the rows of open transactions and the     *)
(* connections have no counterpart.                                        *)
(***************************************************************************)
EXTENDS Purchases

\* A handler without a request asks for nothing.
KeyAsked(h) == IF req[h].token \in Tokens THEN KeyOf(req[h].token) ELSE NoTransaction

S == INSTANCE Shop WITH
        Clients <- Handlers,
        NoKey <- NoTransaction,
        sold <- verified,
        asking <- [h \in Handlers |-> [dev |-> req[h].dev, key |-> KeyAsked(h)]],
        reply <- [h \in Handlers |-> req[h].resp]

\* However requests for one purchase interleave, wait for one another's rows, fail or
\* die: each purchase is credited at most once and for good, to the device that asked,
\* with the answer of the one request that did it; and none is refused that is
\* neither credited nor left unconfirmed by Google Play (verify.go).
ImplementsShop == S!Spec
=============================================================================
