SPECIFICATION ConnectionSpec
CONSTANT MaxReconnectAttempts = 3
CHECK_DEADLOCK FALSE
INVARIANTS GivesUpOnlyWhenExhausted QuietAfterShutdown
PROPERTIES ReadyIsNoticed RecoversUnlessStopped
