\* One file size, so that nothing is cut off; two records in two lives.
CONSTANTS
    RecSize = 2
    FileSizes = {6}
    MaxRecords = 2
    MaxOpens = 2
SPECIFICATION Spec
INVARIANT AckedSurviveRestart
