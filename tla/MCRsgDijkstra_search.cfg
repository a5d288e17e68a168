\* The search on every map that failed links can lead to.
CONSTANTS
  Rsgs <- Instances
SPECIFICATION SearchSpec
INVARIANTS
  RspStatusExact
  SearchGivesBestRoute
