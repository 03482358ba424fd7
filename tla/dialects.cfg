SPECIFICATION DialectsSpec
CONSTANTS
    Statements <- CodeStatements
    Value = {v1, v2}
    Null = Null
INVARIANTS
    SameRows
