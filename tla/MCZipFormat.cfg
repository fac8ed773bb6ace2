SPECIFICATION Spec
CONSTANTS
    Max16 = 2
    Max32 = 200
    Sizes <- Around
    Names = {1}
    MaxEntries = 4
INVARIANT ReadBack
INVARIANT BodyFound
