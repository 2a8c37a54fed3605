---------------------------- MODULE DispatchInsn ----------------------------
(***************************************************************************)
(* What an arithmetic, comparison, compare-and-branch or not insn promises,*)
(* whatever rewriting of its opcode happens underneath: every execution    *)
(* returns what a method dispatch of its operator returns on the operands  *)
(* the dispatch loop gave it, with the operators as redefined at that      *)
(* moment, and a compare-and-branch insn jumps exactly when that result's  *)
(* truth matches the insn's sense.                                         *)
(*                                                                         *)
(* An execution either returns at once (Call) or is deferred (Defer) and   *)
(* returns later on the same operands (Resume); nothing else happens in    *)
(* between, and a deferred execution is eventually resumed.                *)
(***************************************************************************)
CONSTANTS
    Sites,              \* the insns: [kind, bop, imm, true_p]
    Operands,           \* VALUEs an operand register may hold
    Classes,            \* classes whose operator may be redefined
    Dispatch(_, _, _, _), \* Dispatch(red, bop, x, y): the method's result when
                        \* the classes in red redefine bop
    Truthy(_)           \* Ruby truth of a VALUE

VARIABLES
    site,       \* the insn
    redefined,  \* classes whose operator is redefined
    inflight,   \* the operands of a deferred execution, or None
    out         \* the last result and whether it jumped

vars == <<site, redefined, inflight, out>>

None == [t |-> "none"]

\* An insn with an immediate operand (plusi, ltf, btlti ...) always has it as
\* its second operand; not has none.
SecondOperands == IF site.imm.t \in {"fix", "flo"} \/ site.kind = "not" THEN {site.imm} ELSE Operands

Returns(x, y) ==
    LET r == Dispatch(redefined, site.bop, x, y)
    IN  out' = [res |-> r, jump |-> site.kind = "bcmp" /\ (site.true_p <=> Truthy(r))]

Call ==
    /\ inflight = None
    /\ \E x \in Operands, y \in SecondOperands : Returns(x, y)
    /\ UNCHANGED <<site, redefined, inflight>>

Defer ==
    /\ inflight = None
    /\ \E x \in Operands, y \in SecondOperands : inflight' = [x |-> x, y |-> y]
    /\ UNCHANGED <<site, redefined, out>>

Resume ==
    /\ inflight # None
    /\ Returns(inflight.x, inflight.y)
    /\ inflight' = None
    /\ UNCHANGED <<site, redefined>>

Redefine ==
    /\ inflight = None
    /\ \E c \in Classes \ redefined : redefined' = redefined \cup {c}
    /\ UNCHANGED <<site, inflight, out>>

Init ==
    /\ site \in Sites
    /\ redefined = {}
    /\ inflight = None
    /\ out = None

Next == Call \/ Defer \/ Resume \/ Redefine

Spec == Init /\ [][Next]_vars /\ WF_vars(Resume)
=============================================================================
