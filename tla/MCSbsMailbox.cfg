SPECIFICATION FairSpec
CONSTANTS
  CommandCount = 2
  Unstored = {1}
  Captured = {0}
  InterruptPoints = {"stock", "command", "bypass"}
  MaxRequests = 3
INVARIANTS TypeOK CompleteIsWhole OneWindow CallerSeesItsWord StaleOnlyByOverlap
PROPERTIES ImplementsMailbox DoorbellAnswered
