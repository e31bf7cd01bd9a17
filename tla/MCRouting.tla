----------------------------- MODULE MCRouting ------------------------------
(***************************************************************************)
(* Routing for TLC: the class OrderCreated has two values as variants, the *)
(* class Renamed sets __message_type__ to one of them; 7 is a value that   *)
(* arrives as a number.                                                    *)
(***************************************************************************)
EXTENDS Routing

MCPrimary == [t \in Types |-> IF t = "Renamed" THEN "OrderCreated" ELSE "order_created"]

MCVariants ==
  [t \in Types |-> IF t = "Renamed" THEN {"OrderCreated"} ELSE {"order_created", "OrderCreated"}]
=============================================================================
