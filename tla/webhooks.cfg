\* No deadlock check: once every delivery is settled nothing more is due.
SPECIFICATION FairSpec
CONSTANTS
  Subs = {s1, s2}
  Early = {s1}
  Types = {step}
  Wanted <- EveryType
  Source = src
  Fork = fork
  MaxEvents = 2
  MaxRows = 2
  MaxAttempts = 2
  Batch = 1
  MaxCrashes = 1
INVARIANTS SettledHonestly HistoryStaysQuiet NoEventUnheard
PROPERTIES EveryDeliverySettles
CHECK_DEADLOCK FALSE
