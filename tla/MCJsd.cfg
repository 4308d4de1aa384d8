SPECIFICATION MergeSpec
CONSTANTS
    Lists <- ShortLists
INVARIANTS
    MergeMeetsDefinition
