CONSTANTS
  NNC_EXCEPTION_MAX_DEPTH = 4
  Kinds = {SYNTAX, SEMANTIC}
  NNC_SEMANTIC = SEMANTIC
  NNC_CONTEXT_SAVED = SAVED
  MaxTries = 7
  MaxThrows = 3
SPECIFICATION FairSpec
INVARIANTS
  BuffersLive
  HandlerSeesThrown
  EveryThrowCounted
PROPERTY
  ThrowHandled
