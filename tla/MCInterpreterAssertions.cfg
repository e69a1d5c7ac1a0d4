CONSTANTS
  WordBits = 8
  Superclass <- ClassHierarchy
  InstanceVariables <- ClassVariables
  GlobalNames <- MCGlobalNames
  Programs <- BadBlock
  MaxStack = 100
  MaxHeap = 40
  Fuel = 20
SPECIFICATION Spec
INVARIANTS VectorsAreArrays
