\* A SET with and without comments in front of it.
CONSTANTS
  Statements <- AllStatements
  Logins <- AllLogins
  Frames <- AllFrames
  MaxComments = 6
SPECIFICATION Spec
INVARIANT SetsPass
