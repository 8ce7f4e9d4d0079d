\* Two events after the opening: a label or waiver, then its removal, a push
\* or a change of the draft state, each during a run or after it.
CONSTANTS
    Changeable <- MCChangeable
    MaxEvents = 2
SPECIFICATION Spec
INVARIANTS
    SuccessMeansGated
    LabelsTellTheCheck
CHECK_DEADLOCK FALSE
