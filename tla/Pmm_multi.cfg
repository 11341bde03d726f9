SPECIFICATION Spec
CONSTANTS
    NPages = 5
    NoPage <- NullPage
    MAX_ORDER = 3
    Managers = {"first_fit"}
    TestRounds <- NoTest
    BootSizes = {1}
    Sizes <- MultiSizes
PROPERTY GrantsFreePages
