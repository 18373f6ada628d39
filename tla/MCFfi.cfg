SPECIFICATION Spec
CONSTANTS
    AddressSpace = 28
    Size <- MCSize
    Align <- MCAlign
    Page = 4
    SlotSize = 2
    Slots = 2
    MaxSlice = 7
    MaxPacket = 2
    MaxAppInfo = 2
    MaxExpand = 2
    WireLen = 2
    Lengths = {0, 2, 3, 8}
    Calls <- MCCalls
INVARIANTS
    AcceptedDisjoint
    ValidAccepted
    OutputFromInputs
    FailureReleasesNothing
CHECK_DEADLOCK FALSE
