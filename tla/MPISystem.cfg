\* Layouts with and without a manager, one after the other, file parts, and recoveries.
CONSTANTS
    NumProcesses = 7
    ChunkSize = 2
    Programs <- MCPrograms
SPECIFICATION Spec
INVARIANTS
    GroupsRight
    

    
CHECK_DEADLOCK FALSE
