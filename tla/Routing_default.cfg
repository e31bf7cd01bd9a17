CONSTANTS
  Routers = {"main", "r1", "r2"}
  Main = "main"
  Values = {"order_created", "OrderCreated", "7"}
  Null = "null"
  NonString = {"7"}
  Types = {"OrderCreated", "Renamed"}
  Primary <- MCPrimary
  Variants <- MCVariants
  Flexible = {"main", "r1"}
  Inherit = {"main", "r1", "r2"}
  MayDefault = {"main"}
  MaxRoutes = 3
SPECIFICATION Spec
INVARIANTS DefaultsComeLast
