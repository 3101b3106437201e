SPECIFICATION FairSpec
CONSTANTS
  h1 = h1  h2 = h2
  Order <- TwoSchedulers
  Requests = {h1}  Slots = {1, 2}
  PoolSize = 2
INVARIANTS TypeOK PoolOutlivesWork GracefulCutsNothing
PROPERTIES Stops
