------------------------------ MODULE MCLaunch ------------------------------
(* Small instances of Launch for TLC.                                      *)
EXTENDS Launch, TLC

CONSTANTS nvim

Leaf == {Pane(nvim, TRUE), Pane(PlainClaude, FALSE)}
Beside(As, Bs) == {Split("h", a, b) : a \in As, b \in Bs}
Above(As, Bs) == {Split("v", a, b) : a \in As, b \in Bs}

\* Every first child is a pane, as in the default.
RightLayouts == {Pane(PlainClaude, FALSE)} \cup Beside(Leaf, Leaf)
                \cup {Split("h", Pane(PlainClaude, FALSE), below) : below \in Above(Leaf, Leaf)}

\* The layout of a test: two panes above each other, beside a third.
LeftLayouts == Beside(Above(Leaf, Leaf), Leaf)
=============================================================================
