SPECIFICATION Spec
CONSTANTS
    Parent <- MCParent
    Library = 2
    Plain = {4, 6, 7}
    Linked = {5}
    Supported = {4, 6}
    MaxSources = 2
    MaxFiles = 2
    MaxDetails = 2
    MaxChanges = 0
\* A batch ends.
CHECK_DEADLOCK FALSE
INVARIANT
    PartialResultKept
