---------------------------- MODULE MC_SpecInsn ----------------------------
(***************************************************************************)
(* Instances of SpecInsn: 6-bit VALUEs, so fixnums are -16..15 and every  *)
(* overflow, the FIXNUM_MIN / -1 corner and the signs of floor division   *)
(* are reached with a handful of operands.                                 *)
(***************************************************************************)
EXTENDS SpecInsn

MCW == 6
Fixnums == {Fix(n) : n \in {-16, -3, -1, 0, 2, 15}}
MCOperands == Fixnums \cup {Flo(1), Flo(2), HeapFloat(3), Str("a"), Nil}
MCClasses == {"Integer", "Float"}
CmpClasses == {"Integer", "Float", "NilClass"}

Arith(b, i) == [kind |-> "arith", bop |-> b, imm |-> i, true_p |-> FALSE]
Reg(b) == Arith(b, None)

\* plus, minus, mult, div with two registers; every operation with a
\* fixnum immediate (plusi ...) and a flonum immediate (plusf ...).
ArithSites ==
    {Reg(b) : b \in {"plus", "minus", "mult", "div"}}
    \cup {Arith(b, i) : b \in ArithOps, i \in {Fix(-1), Fix(-3), Flo(2)}}

\* mod with two registers, the insn whose heap Float path is double_num_mod.
ModSites == {Reg("mod")}

\* Every comparison (eq ... ge) and every compare-and-branch (bteq, bfeq,
\* ...) with two registers, a fixnum and a flonum immediate.
CmpOps == {"eq", "ne", "lt", "gt", "le", "ge"}
CmpSites ==
    {[kind |-> "cmp", bop |-> b, imm |-> i, true_p |-> FALSE] :
        b \in CmpOps, i \in {None, Fix(-1), Flo(2)}}
    \cup {[kind |-> "bcmp", bop |-> b, imm |-> i, true_p |-> t] :
        b \in CmpOps, i \in {None, Fix(-1), Flo(2)}, t \in BOOLEAN}

\* The compare-and-branch insns on an ordering and on equality (btlt, bflt,
\* bteq, bfeq ...), both senses, all three operand forms.
BcmpSites == {s \in CmpSites : s.kind = "bcmp" /\ s.bop \in {"lt", "eq"}}

\* The not insn (one register operand).
NotSites == {[kind |-> "not", bop |-> "not", imm |-> None, true_p |-> FALSE]}

\* Every arithmetic, comparison and not form.
OpSites == ArithSites \cup CmpSites \cup NotSites

\* The forms checked against DispatchInsn: the arithmetic ones, the
\* compare-and-branch ones on lt and eq, and not.
RefinedSites == ArithSites \cup BcmpSites \cup NotSites

\* Operands of the refinement run: the extreme fixnums, a negative and a
\* positive one, so that results overflow and misses happen; the
\* operands in between only tell floor from truncation, which
\* FastPathAgreesWithDispatch checks.
RefineOperands == {Fix(n) : n \in {-16, -1, 2, 15}} \cup {Flo(1), Flo(2), HeapFloat(3), Str("a"), Nil}
=============================================================================
