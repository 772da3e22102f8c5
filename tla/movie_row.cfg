CONSTANTS
    Requests = {r1, r2, r3}
    MaxRequests = 5
    MaxTitles = 3
    MaxUrls = 3
SPECIFICATION Spec
INVARIANTS KeptForNextCall
PROPERTIES GoneForGood TitleStaysReplaced
