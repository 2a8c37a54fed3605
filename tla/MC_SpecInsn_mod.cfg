\* The two-register mod insn on heap Float operands.
CONSTANTS
    W <- MCW
    Sites <- ModSites
    Operands <- MCOperands
    Classes <- MCClasses
    MaxMethodState = 1
SPECIFICATION Spec
INVARIANT FastPathAgreesWithDispatch
