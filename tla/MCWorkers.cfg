SPECIFICATION WorkersSpec
CONSTANTS NumFF = 3 NumPorts = 2 MaxCycles = 2 Threads = {t1, t2, t3} Faults = {}
          NumCores = 6 NumQueues = 3 MaxInstances = 2 MaxPackets = 2 MaxChanges = 4
INVARIANTS CleanStop  ClonesSound HandoverSound
PROPERTIES EveryStopReturns  PacketsLeave  MbufsReturn
