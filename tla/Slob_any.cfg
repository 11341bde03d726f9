SPECIFICATION Spec
CONSTANTS
    Arena = 200
    Sizes = {32, 40}
INVARIANT HandedOutIsMarked
