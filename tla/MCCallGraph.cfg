SPECIFICATION CallGraphSpec
CONSTANTS
  SourceFiles <- CodeFiles
  Variants <- CodeVariants
  Methods = {"B"}
  PreferredFile <- CodePreferred
INVARIANT ReferencesKept
CHECK_DEADLOCK FALSE
