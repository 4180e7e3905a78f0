CONSTANTS
    PRECISION = 3
    Amounts = {2, 5, 7}
    Fees = {1}
    Balance = 24
    MaxPool = 4
SPECIFICATION Spec
INVARIANTS
    PoolIsMined
