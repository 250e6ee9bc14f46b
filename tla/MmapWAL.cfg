\* An empty file, which cannot be mapped, one that ends inside its second record,
\* and one that fits three records exactly; five records and four opens in any number of lives.
CONSTANTS
    RecSize = 2
    FileSizes = {0, 3, 6}
    MaxRecords = 5
    MaxOpens = 4
SPECIFICATION Spec
INVARIANTS TypeOK AckedInPlace CopiesIntoMapping OrderlyUseLeaksNothing
