SPECIFICATION BothSpec
CONSTANTS
    Ids = {i1, i2, i3, i4}
    NoId = NoId
    DropsTemporary = TRUE
    t1 = t1
    t2 = t2
    Tasks = {t1, t2}
    EventIds = {e1, e2}
    Outcomes = {"a", "b"}
    MaxNumber = 4
    DigitCounts = {0, 2, 3}
    MaxDigits = 2
    MaxIndex = 5
    None = None
    e1 = e1
    e2 = e2
\* Sled or Postgres: update_contract drops the temporary record (DropsTemporary).
INVARIANTS TypeOK FundedIsSignedByBoth OffersCoinsOnce KormirInv NonceSignsOnce
PROPERTY VerdictIsFinal
\* A negotiation may stop at any point: nothing retries a lost message. The oracle's tasks end
\* with the last index.
CHECK_DEADLOCK FALSE
SYMMETRY Symmetry
