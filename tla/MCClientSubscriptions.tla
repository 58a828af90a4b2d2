----------------------- MODULE MCClientSubscriptions -----------------------
EXTENDS ClientSubscriptions

TwoSubs == {"s1", "s2"}

OwnFilters == [s \in TwoSubs |-> IF s = "s1" THEN "f1" ELSE "f2"]

============================================================================
