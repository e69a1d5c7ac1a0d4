CONSTANTS
  WordBits = 8
  Superclass <- ClassHierarchy
  InstanceVariables <- ClassVariables
  GlobalNames <- MCGlobalNames
  Programs <- MCPrograms
  MaxStack = 100
  MaxHeap = 40
  Fuel = 20
SPECIFICATION Spec
INVARIANTS
  TypeOK
  AnswersAreRight
  StackIsBalanced
  FrameDataIsCurrent
  ScriptsGetTheirFrameBack
  ContextsKnowTheirFrames
  SupportedProgramsAreVerified
PROPERTIES
  CallersAreUntouched
  ProgramsFinish
