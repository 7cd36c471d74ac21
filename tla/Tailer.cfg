\* A collection of three documents that overflows; the collector restarts once, the player too.
SPECIFICATION FairSpec
CONSTANTS
  CappedSize = 3
  MaxRetries = 1
  MaxDocs = 6
  MaxRestarts = 1
  MaxLives = 1
INVARIANTS TypeOK PushedInOrder NothingSkipped
PROPERTIES EveryDocumentHandled TailerRelays
