CONSTANTS
  Platforms = {"linux"}
  Processes = {"service", "updater"}
  MaxSequence = 5
  MaxAllocations = 3
  MaxInitial = 1
  MaxFaults <- MCOneFault
SPECIFICATION Spec
PROPERTY ImplementsSequenceAllocator
