\* Three terminals, each calling upgrade and downgrade to any revision again and again.
SPECIFICATION Spec
CONSTANTS
    c1 = c1
    c2 = c2
    c3 = c3
    Commands = {c1, c2, c3}
SYMMETRY MCCommands
INVARIANTS
    MigrationInvariant
    SchemaMatchesVersion
    LoneCommandSucceeds
    LatestIsTheModels
