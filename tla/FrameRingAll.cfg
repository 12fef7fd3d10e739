\* The ring's three slots; frames enough to go round it and lap the reader.
CONSTANTS
  NumSlots = 3
  MaxFrames = 5
  None = None

SPECIFICATION Spec

INVARIANTS
  TypeOK
  HeldIsIntact
  NewestAfterPoll

PROPERTIES
  SlotsComeBack
  PublishNeverWaits
  ImplementsMailbox

\* After the generation has ended nothing more has to happen.
CHECK_DEADLOCK FALSE
