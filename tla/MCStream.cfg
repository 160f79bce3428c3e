SPECIFICATION Spec
CONSTANTS
    i0 = i0
    i1 = i1
    Indexes = {i0, i1}
    BlockKinds = {"tool", "server"}
    DeltaKinds = {"text", "input"}
    Initial = {1}
    Updated = {0, 2}
    Serving = {0, 3}
    MaxEvents = 7
INVARIANTS
    ResponseIsTheMessage
    ZeroChargeIsUnprocessed
SYMMETRY Symmetry
CHECK_DEADLOCK FALSE
