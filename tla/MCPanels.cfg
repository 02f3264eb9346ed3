SPECIFICATION Spec
CONSTANTS
    None = None
    Undefined = Undefined
    Dataset = {1, 2}
    Category = {"parameter", "qoi"}
    Field = {"f", "g"}
    Listed <- MCListed
    MaxLevel <- MCMaxLevel
    MaxChanges = 6
    MaxUnanswered = 1
INVARIANTS
    TypeOK
    FieldsComplete
    WindowOfCurrentDataset
    LastDatasetShown
    Settled
CHECK_DEADLOCK FALSE
