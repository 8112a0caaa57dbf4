\* Two panels and three widgets, with callbacks inside callbacks.
SPECIFICATION Spec
CONSTANTS
    Panels = {p1, p2}
    Widgets = {w1, w2, w3}
    Nodes = {n1, n2, n3, n4}
    Places = {0, 1}
    Discreet = TRUE
    MaxDepth = 3
    None = None
SYMMETRY Symmetry
INVARIANTS
    ChildAsserted
    ListMatchesParent
    ForallReachesAll
