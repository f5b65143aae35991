SPECIFICATION Spec
CONSTANTS
  Guests <- MCGuests
  Entries = 2
  FirstTop = 1
  EndTop = 3
  KernelCode <- MCKernelCode
  KernelData <- MCKernelData
  VsyscallPage = 23
  Modules <- MCModules
  VmapAreas <- MCVmapAreas
  LinearPages <- MCLinearPages
INVARIANTS
  EntriesExact
  StepsExact
  ScanExact
PROPERTIES
  ScanEnds
CHECK_DEADLOCK FALSE
