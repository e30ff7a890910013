SPECIFICATION Spec
CONSTANTS
    Texts <- MCTexts
    LongMax = 31
    IntMax = 7
    MaxRows = 3
INVARIANTS OrdersAgree OfferIsNewer OfferAscends
