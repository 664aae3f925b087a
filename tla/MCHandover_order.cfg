CONSTANTS
    NumQueues = 2
    MaxInstances = 2
    MaxPackets = 2
    MaxChanges = 1
SPECIFICATION Spec
INVARIANT PacketsInOrder
