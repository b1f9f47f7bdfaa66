CONSTANTS
  Topics = {commands, update}
  BatchSize = 1
  QueueSize = 2
  OutboxLimit = 1
  HeldBackLimit = 1
  MaxSize = 2
  MaxMessages = 2
  MaxConnections = 2
SPECIFICATION Spec
INVARIANTS TypeOK MessagesKept SubscribedAgain
PROPERTIES Retries
CHECK_DEADLOCK FALSE
