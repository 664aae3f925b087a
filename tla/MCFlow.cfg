SPECIFICATION FlowSpec
CONSTANTS N = 33 M = 75 Clones = {c1}
INVARIANTS RoutedRight  GraphSound 
PROPERTIES  PortsRight
