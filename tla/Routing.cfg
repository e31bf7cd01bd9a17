CONSTANTS
  Routers = {"main", "r1", "r2"}
  Main = "main"
  Values = {"order_created", "OrderCreated", "7"}
  Null = "null"
  NonString = {"7"}
  Types = {"OrderCreated", "Renamed"}
  Primary <- MCPrimary
  Variants <- MCVariants
  Flexible = {"main", "r1"}
  Inherit = {"main", "r1"}
  MayDefault = {"main", "r1", "r2"}
  MaxRoutes = 3
SPECIFICATION Spec
INVARIANTS ShadowingConfined LookupSound NotFoundOnlyWithoutRoute PathOfClaimant MiddlewaresNested
