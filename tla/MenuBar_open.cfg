SPECIFICATION Spec
CONSTANTS
    Tasks = {poll, ui1}
    Poll = poll
    ReadsConfig = TRUE
    MaxRevisions = 2
    MaxFaults = 0
PROPERTIES
    OpenShowsCurrent
