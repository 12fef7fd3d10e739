\* Two chains: one that is being stopped or retired and its replacement.  Two
\* callbacks: an Assign or Unassign that overlaps, or re-enters, another.
CONSTANTS
  Chains = {s1, s2}
  Callbacks = {t1, t2}
  None = None

SPECIFICATION Spec

INVARIANTS
  TypeOK
  CoreOwnsItsChain
  RefsAreHolders
  NoRunaway

PROPERTIES
  ImplementsOwnership
  CallbacksReturn
  StoppedIsDeleted

\* After the cleanup nothing more has to happen.
CHECK_DEADLOCK FALSE
