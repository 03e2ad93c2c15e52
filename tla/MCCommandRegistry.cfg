CONSTANTS
    Directories <- MCDirectories
    Edits <- MCEdits
    Locations <- MCLocations
    Schemas <- MCSchemas
    NoSchema <- MCNoSchema
    Pointers <- MCPointers
    Root = "root"
    Children <- MCChildren
    Values <- MCValues
    MaxEntries = 5
    MaxDefinitions = 2
    MaxRegistry = 7
    MaxManifest = 4
    MaxExpanded = 5
    MaxSchemaWork = 7
    MaxValidation = 600
    MaxEdits = 1
SPECIFICATION RegistrySpec
INVARIANTS LoadsFirstValid ValidationAffordable
CHECK_DEADLOCK FALSE
