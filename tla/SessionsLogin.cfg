CONSTANTS
    ann = ann
    ben = ben
    s1 = s1
    s2 = s2
    tab1 = tab1
    tab2 = tab2
    home = home
    None = None
    Names <- TwoNames
    Sids <- TwoSids
    Requests <- TwoTabs
    Browser <- OneBrowser
    MaxBorn = 2
    MaxDumps = 1
    RedisFaults = TRUE
SPECIFICATION Spec
SYMMETRY Symmetry
INVARIANT AnsweredUserActs
