CONSTANTS
  Quantiser = {1, 2}
  Order <- AtOnce
  Jobs <- OneJob
  Checkpoints <- OneLayer
  Thread = {1}
SPECIFICATION ContainerSpec
INVARIANT CollisionRefused
CHECK_DEADLOCK FALSE
