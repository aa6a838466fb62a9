CONSTANTS
    outer = outer
    inner = inner
    Classes = {outer, inner}
    MainClass = outer
    CodeLines <- MCCodeLines
    Lines = {3}
    MaxDepth = 1
    MaxQueue = 2
    MaxSteps = 1
    MaxSets = 2
SPECIFICATION Spec
INVARIANTS TypeOK SuspensionsCounted StopsAreTold RequestsAgree LoadedLinesBound
CHECK_DEADLOCK FALSE
