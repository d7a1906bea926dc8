SPECIFICATION FairSpec
CONSTANTS
    Blocks = {b1, b2}
    Placeholder = placeholder
    None = none
    Sizes = {1, 2}
    BatchSize = 2
    RetireBatches = 2
    MaxData = 3
    Nodes = 2
    MaxDials = 2
    MaxErrors = 1
INVARIANTS OwnColumns EncodedOnce BatchBound OneConnection
PROPERTY BlockComesBack
