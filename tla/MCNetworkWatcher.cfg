CONSTANTS
  Containers = {app, other}
  Shuffle = {app}
  Services = {thehive, misp}
  Attempts = 2
  MaxChanges = 1
  MaxFaults = 1
  MaxCrashes = 1
  app = app
  other = other
  thehive = thehive
  misp = misp
SPECIFICATION WatcherSpec
INVARIANTS
  AllServed
PROPERTIES
  Settles
CHECK_DEADLOCK FALSE
