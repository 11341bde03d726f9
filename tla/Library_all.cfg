SPECIFICATION LibrarySpec
CONSTANTS
    Heads = {h1, h2}
    Items = {a, b, c}
    TreeNodes <- MCTreeNodes
    Key <- MCKey
    Formats <- MCFormats
    Bits = 5
    Null = Null
    Nil = Nil
SYMMETRY Interchangeable
CHECK_DEADLOCK FALSE
INVARIANTS
    DirectionsAgree
    TreeBalanced
    InOrder
    AugmentExact
    PrintsAsMeant
PROPERTY ImplementsSequences
