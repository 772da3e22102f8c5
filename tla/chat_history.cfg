CONSTANTS
    Messages = {m1, m2, m3}
    DefaultPerPage = 1
    MaxPerPage = 2
    Asked = {0, 2, 3}
    MaxTime = 2
SPECIFICATION ChatSpec
SYMMETRY MCSymmetry
INVARIANTS HistoryComplete ShownSomewhere SavedBeforeShown
