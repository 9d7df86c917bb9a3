---------------------------- MODULE MCPurchases ----------------------------
(***************************************************************************)
(* Small instances of Purchases: one Google purchase, one Apple            *)
(* transaction in two JSON texts and one text without a transaction.       *)
(***************************************************************************)
EXTENDS PurchasesShop

CONSTANTS a1, a3, x1

AppleTexts == {a1, a3}
Ids == {x1}
IdIn == [a \in AppleTexts |-> IF a = a3 THEN NoTransaction ELSE x1]
CallErrors == Steps \X {"error"}
EveryFault == CallErrors \cup {<<"commit", "lost">>}
=============================================================================
