\* Line events, the insn info table and branch relocation on every four-insn code.
CONSTANTS
    Programs <- MCPrograms
SPECIFICATION Spec
INVARIANT TableFitsAllocation
INVARIANT LineEventsBounded
INVARIANT LinesInOrder
INVARIANT BranchLandsOnEvent
