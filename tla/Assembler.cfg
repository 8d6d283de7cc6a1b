SPECIFICATION Spec
CONSTANTS
    Files = {"main", "lib"}
    Main = "main"
    Starts <- MCStarts
    Statements <- MCStatements
    MaxLines = 16
INVARIANTS
    TypeOK
    CodeExact
    SkipsLand
    
PROPERTY
    AssemblyEnds
CHECK_DEADLOCK FALSE
