CONSTANTS
    Name = {x, f}
    NoName = NoName
    DeclRule = "first"
    MaxParams = 1
    MaxScopes = 6
    MaxNodes = 4
SPECIFICATION Spec
SYMMETRY Symmetry
INVARIANTS
    TypeOK
    ScopesNest
    OwnLookupsAgree
    OuterLookupsAgree
    CallsAgree
