SPECIFICATION StateFilesSpec
CONSTANTS
  Platforms = {"windows", "linux"}
  Processes = {"service", "updater"}
  MaxSequence = 5
  MaxAllocations = 3
  MaxInitial = 1
  MaxFaults <- MCMaxFaults
  Updaters = {"w1", "w2"}
  Sites <- MCSites
INVARIANTS DurableCopy LeaseKeepsOrder UpdateIsWhole 
PROPERTIES ImplementsSequenceAllocator 
