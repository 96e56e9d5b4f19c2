SPECIFICATION FairSpec
CONSTANTS
  Events = {e1}
  Tasks = {t1, t2, t3}
  MaxTries = 2
  MaxFaults = 3
CHECK_DEADLOCK FALSE
INVARIANT AckedIsKept
PROPERTIES CompletedIsFinal EventsAreHandled
