CONSTANTS
    Shapes <- MCShapes
    Documents <- MCDocuments
    Objects <- MCObjects
SPECIFICATION YamlSpec
INVARIANTS
    YamlTypeOK
    WellFormedDecoded
    RefusedKept
    RefusalHeard
    NoOverrun
