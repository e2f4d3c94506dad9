SPECIFICATION FairSpec
CONSTANTS
    coefficients = coefficients
    products = products
    Table <- MCTable
    Touched <- MCTouched
    Reader = {g1, g2, g3}
    Change = {c1, c2}
    Nothing = Nothing
INVARIANTS TypeOK FreshAnswers SettledCache PendingRuns
PROPERTY CallsEnd
CHECK_DEADLOCK FALSE
