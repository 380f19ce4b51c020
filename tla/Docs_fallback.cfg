SPECIFICATION Spec
CONSTANTS
  MaxServers = 2
PROPERTIES
  NeverFallsBack
