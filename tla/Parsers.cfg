CONSTANTS
  Statements <- AllStatements
  Logins <- AllLogins
  Frames <- AllFrames
  MaxComments = 6
SPECIFICATION Spec
INVARIANTS FilterNeverPanics OnlySelectsPass SelectsPass LoginDatabaseFound NothingInvented PayloadDelivered RoutedBySession
