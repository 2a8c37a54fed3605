----------------------------- MODULE SpecInsn -------------------------------
(***************************************************************************)
(* One arithmetic, comparison, compare-and-branch or not instruction site *)
(* of the RTL executor (rtl_exec.c) and the in-place rewriting of its     *)
(* opcode.                                                                 *)
(*                                                                         *)
(* A site starts as the generic, changeable insn (plus, plusi, lt, btlt,  *)
(* ...).  do_arithm and common_cmp take a fast path for fixnum, flonum or  *)
(* heap Float operands, *)
(* or dispatches the method (op2_call).  On the fixnum or flonum fast path *)
(* the changeable insn rewrites itself (vm_change_insn) into the           *)
(* speculative insn (iplus, fplus ...).  A speculative insn re-checks only *)
(* the operand tags and mjit_bop_redefined_p; on a miss it makes the       *)
(* dispatch loop substitute the unchangeable insn (uplus ...) and execute  *)
(* the same position again.                                                *)
(*                                                                         *)
(* not rewrites itself into spec_not when the receiver's ! is rb_obj_not, *)
(* which it learns through the call cache (vm_method_cfunc_is); spec_not  *)
(* trusts the cache while its method state and class serial are current   *)
(* (check_cc_attr_p) and misses to unot otherwise when ! is not rb_obj_not.*)
(*                                                                         *)
(* VALUEs are W-bit words: a fixnum n is the word 2n+1 mod 2^W and the     *)
(* fixnum fast paths are modelled bit for bit.  Floating-point results are *)
(* kept as uninterpreted terms <<op, d1, d2>>: the model tells apart which *)
(* operation is computed, not IEEE rounding.  The method dispatch          *)
(* (op2_call) is Ruby's own semantics of the operator, the reference every *)
(* fast path must agree with.                                              *)
(***************************************************************************)
EXTENDS Integers, Bitwise

CONSTANTS
    W,            \* bits of a VALUE (and of a C long)
    Sites,        \* the insns: [kind, bop, imm, true_p]
    Operands,     \* VALUEs an operand register may hold
    Classes,      \* classes whose operator may be redefined
    MaxMethodState \* bound on the global method state

ASSUME W \in 4..8

VARIABLES
    site,         \* the insn at this position: arith, cmp or bcmp, its operation,
                  \* its immediate, and for bcmp whether it branches on true
    variant,      \* "gen" (changeable), "i"/"f" (speculative), "u" (unchangeable)
    redefined,    \* classes whose site.bop is redefined (BASIC_OP_UNREDEFINED_P fails)
    mjit_bop_redefined_p,
    pending,      \* operands of an execution to repeat after a speculation miss
    out,          \* ghost: the last result and what a method dispatch returns
    method_state, \* GET_GLOBAL_METHOD_STATE()
    class_serial, \* RCLASS_SERIAL of each class, unique across classes
    cc            \* the site's call cache: [ms, serial, me]

vars == <<site, variant, redefined, mjit_bop_redefined_p, pending, out, method_state, class_serial, cc>>

None == [t |-> "none"]
Qundef == [t |-> "undef"]

(***************************************************************************)
(* Words and fixnums.                                                      *)
(***************************************************************************)
Mod == 2^W
msb == 2^(W - 1)
FIXNUM_MIN == -(2^(W - 2))
FIXNUM_MAX == 2^(W - 2) - 1
Signed(w) == IF w >= msb THEN w - Mod ELSE w
Compl(w) == Mod - 1 - w                         \* ~w on a W-bit word
FIX2LONG(w) == Signed(w) \div 2                 \* arithmetic shift right
LONG2FIX(n) == (2 * n + 1) % Mod
RB_FIXABLE(n) == n \in FIXNUM_MIN..FIXNUM_MAX

Fix(n) == [t |-> "fix", w |-> LONG2FIX(n)]
Big(n) == [t |-> "big", n |-> n]
LONG2NUM(n) == IF RB_FIXABLE(n) THEN Fix(n) ELSE Big(n)
Flo(d) == [t |-> "flo", d |-> d]                \* flonum (special constant)
HeapFloat(d) == [t |-> "float", d |-> d]        \* Float object on the heap
Str(s) == [t |-> "str", s |-> s]
Nil == [t |-> "nil"]
Bool(b) == [t |-> "bool", b |-> b]
RTEST(v) == v \notin {Bool(FALSE), Nil}
FloatResult(bop, d1, d2) == [t |-> "float", d |-> <<bop, d1, d2>>]

FIXNUM_P(v) == v.t = "fix"
FLONUM_P(v) == v.t = "flo"
SPECIAL_CONST_P(v) == v.t \in {"fix", "flo", "nil"}
Class(v) == CASE v.t \in {"fix", "big"} -> "Integer"
              [] v.t \in {"flo", "float"} -> "Float"
              [] v.t = "str" -> "String"
              [] v.t = "nil" -> "NilClass"
Long(v) == FIX2LONG(v.w)
NumVal(v) == CASE v.t = "fix" -> Long(v)  [] v.t = "big" -> v.n  [] OTHER -> v.d
Dbl(v) == IF v.t \in {"fix", "big"} THEN <<"i2d", IF v.t = "fix" THEN Long(v) ELSE v.n>> ELSE <<"d", v.d>>

(***************************************************************************)
(* C and Ruby division.  C truncates toward zero; Ruby floors.             *)
(***************************************************************************)
FloorDiv(a, b) == IF b > 0 THEN a \div b ELSE (-a) \div (-b)
FloorMod(a, b) == a - b * FloorDiv(a, b)
CDiv(a, b) == LET q == FloorDiv(a, b) IN IF q < 0 /\ q * b # a THEN q + 1 ELSE q
CMod(a, b) == a - b * CDiv(a, b)

(***************************************************************************)
(* What a method dispatch of bop on x and y returns (op2_call): the user  *)
(* method when x's class redefines bop, Ruby's Integer, Float, String and *)
(* NilClass operators otherwise.  Ruby normalises an Integer result to a  *)
(* fixnum when it fits.  A method the model does not compute is the term  *)
(* "call": every path that reaches it dispatches.                          *)
(***************************************************************************)
Raise == [t |-> "raise"]
IntegerOp(bop, a, b) ==
    CASE bop = "plus"  -> LONG2NUM(a + b)
      [] bop = "minus" -> LONG2NUM(a - b)
      [] bop = "mult"  -> LONG2NUM(a * b)
      [] bop = "div"   -> IF b = 0 THEN Raise ELSE LONG2NUM(FloorDiv(a, b))
      [] bop = "mod"   -> IF b = 0 THEN Raise ELSE LONG2NUM(FloorMod(a, b))
IntVal(v) == IF v.t = "fix" THEN Long(v) ELSE v.n
NumRel(bop, a, b) ==
    CASE bop = "eq" -> a = b  [] bop = "ne" -> a # b  [] bop = "lt" -> a < b
      [] bop = "gt" -> a > b  [] bop = "le" -> a <= b [] bop = "ge" -> a >= b
ArithMethod(bop, x, y) ==
    CASE Class(x) = "Integer" /\ Class(y) = "Integer" -> IntegerOp(bop, IntVal(x), IntVal(y))
      [] {Class(x), Class(y)} \subseteq {"Integer", "Float"} -> FloatResult(bop, Dbl(x), Dbl(y))
      [] bop = "plus" /\ Class(x) = "String" /\ Class(y) = "String" -> [t |-> "str", s |-> <<x.s, y.s>>]
      [] OTHER -> Raise
CmpMethod(bop, x, y) ==
    CASE {Class(x), Class(y)} \subseteq {"Integer", "Float"} -> Bool(NumRel(bop, NumVal(x), NumVal(y)))
      [] bop = "eq" /\ Class(x) = "String" /\ Class(y) = "String" -> Bool(x.s = y.s)
      [] bop = "eq" /\ Class(x) = "NilClass" -> Bool(x = y)
      [] OTHER -> [t |-> "call", bop |-> bop, x |-> x, y |-> y]
ArithOps == {"plus", "minus", "mult", "div", "mod"}
MethodDispatch(red, bop, x, y) ==
    CASE Class(x) \in red -> [t |-> "user", bop |-> bop, x |-> x, y |-> y]
      [] bop = "not" -> Bool(~RTEST(x))                      \* rb_obj_not
      [] bop \in ArithOps -> ArithMethod(bop, x, y)
      [] OTHER -> CmpMethod(bop, x, y)
op2_call(bop, x, y) == MethodDispatch(redefined, bop, x, y)

BASIC_OP_UNREDEFINED_P(cls) == cls \notin redefined
AllClasses == {"Integer", "Float", "String", "NilClass"}

(***************************************************************************)
(* Fast execution paths of the generic insns.                              *)
(***************************************************************************)
\* Mutant: the bignum rebuilt from val >> 1 without op1's sign bit.
fix_num_plus_nosign(x, y) ==
    LET val == (x.w - 1 + y.w) % Mod
    IN IF ((Compl(x.w ^^ y.w) & (x.w ^^ val)) & msb) # 0
       THEN Big(Signed(shiftR(val, 1)))
       ELSE [t |-> "fix", w |-> val]
\* The tagged add: val = op1 - 1 + op2 overflowed iff both operands have
\* the same sign bit and val's differs; the bignum is rebuilt from val.
fix_num_plus(x, y) ==
    LET val == (x.w - 1 + y.w) % Mod
    IN IF ((Compl(x.w ^^ y.w) & (x.w ^^ val)) & msb) # 0
       THEN Big(Signed(shiftR(val, 1) | (x.w & msb)))
       ELSE [t |-> "fix", w |-> val]
fix_num_minus(x, y) == LONG2NUM(Long(x) - Long(y))
fix_num_mult(x, y) == IntegerOp("mult", Long(x), Long(y))          \* rb_fix_mul_fix
fix_num_div(x, y) == IF Long(y) = 0 THEN Qundef ELSE IntegerOp("div", Long(x), Long(y))
fix_num_mod(x, y) == IF Long(y) = 0 THEN Qundef ELSE IntegerOp("mod", Long(x), Long(y))
FixNumOp(bop, x, y) ==
    CASE bop = "plus" -> fix_num_plus(x, y)  [] bop = "minus" -> fix_num_minus(x, y)
      [] bop = "mult" -> fix_num_mult(x, y)  [] bop = "div" -> fix_num_div(x, y)
      [] bop = "mod" -> fix_num_mod(x, y)

float_num_op(bop, x, y) == FloatResult(bop, Dbl(x), Dbl(y))
\* double_num_OP of the heap Float path; double_num_mod calls float_num_mult.
double_num_op(bop, x, y) == float_num_op(IF bop = "mod" THEN "mult" ELSE bop, x, y)

(***************************************************************************)
(* Fast paths of the speculative insns: Qundef when the operand values    *)
(* make the speculation wrong.                                             *)
(***************************************************************************)
spec_fix_num_plus(x, y) ==
    LET val == (x.w - 1 + y.w) % Mod
    IN IF ((Compl(x.w ^^ y.w) & (x.w ^^ val)) & msb) # 0 THEN Qundef ELSE [t |-> "fix", w |-> val]
spec_fix_num_minus(x, y) ==
    LET c == Long(x) - Long(y) IN IF ~RB_FIXABLE(c) THEN Qundef ELSE Fix(c)
spec_fix_num_mult(x, y) ==
    LET v == Long(x) * Long(y) IN IF RB_FIXABLE(v) THEN Fix(v) ELSE Qundef
\* Mutant: C's truncating quotient returned without the floor correction.
spec_fix_num_div_trunc(x, y) ==
    LET l1 == Long(x)  l2 == Long(y)
    IN CASE l2 = 0 -> Qundef
         [] l1 = FIXNUM_MIN /\ l2 = -1 -> LONG2NUM(-FIXNUM_MIN)
         [] OTHER -> Fix(CDiv(l1, l2))
spec_fix_num_div(x, y) ==
    LET l1 == Long(x)  l2 == Long(y)
        d == CDiv(l1, l2)
        m == CMod(l1, l2)
    IN CASE l2 = 0 -> Qundef
         [] l1 = FIXNUM_MIN /\ l2 = -1 -> LONG2NUM(-FIXNUM_MIN)
         [] OTHER -> Fix(IF (IF l2 > 0 THEN m < 0 ELSE m > 0) THEN d - 1 ELSE d)
spec_fix_num_mod(x, y) ==
    LET l1 == Long(x)  l2 == Long(y)
        m == CMod(l1, l2)
    IN CASE l2 = 0 -> Qundef
         [] l1 = FIXNUM_MIN /\ l2 = -1 -> Fix(0)
         [] OTHER -> Fix(IF (IF l2 > 0 THEN m < 0 ELSE m > 0) THEN m + l2 ELSE m)
SpecFixNumOp(bop, x, y) ==
    CASE bop = "plus" -> spec_fix_num_plus(x, y)  [] bop = "minus" -> spec_fix_num_minus(x, y)
      [] bop = "mult" -> spec_fix_num_mult(x, y)  [] bop = "div" -> spec_fix_num_div(x, y)
      [] bop = "mod" -> spec_fix_num_mod(x, y)

(***************************************************************************)
(* Fast paths of comparisons.  Fixnums compare as signed tagged words;     *)
(* flonums are equal when their words are (the +0.0/-0.0 word trick of    *)
(* float_num_eq is below the model's resolution of doubles).               *)
(***************************************************************************)
\* Mutant: the tagged words compared as unsigned VALUEs.
fix_num_cmp_unsigned(bop, x, y) == NumRel(bop, x.w, y.w)
fix_num_cmp(bop, x, y) == NumRel(bop, Signed(x.w), Signed(y.w))
float_num_cmp(bop, x, y) ==
    IF bop \in {"eq", "ne"} THEN (x = y) = (bop = "eq") ELSE NumRel(bop, x.d, y.d)
double_num_cmp(bop, x, y) == NumRel(bop, x.d, y.d)
spec_float_num_cmp(bop, x, y) == NumRel(bop, x.d, y.d)

(***************************************************************************)
(* The generic insns: do_arithm.  CHANGE_P is set for the changeable insn *)
(* (plus, plusi, plusf ...), which becomes the speculative insn of the    *)
(* fast path it took.  A fixnum division by zero leaves the fixnum path   *)
(* and dispatches the method directly.                                     *)
(***************************************************************************)
op2_fixnum_p == site.imm.t = "fix"
op2_flonum_p == site.imm.t = "flo"
RegOperands == ~op2_fixnum_p /\ ~op2_flonum_p

do_arithm(x, y, change_p) ==
    LET bop == site.bop
        fixP == ((op2_fixnum_p /\ FIXNUM_P(x)) \/ (RegOperands /\ FIXNUM_P(x) /\ FIXNUM_P(y)))
                /\ BASIC_OP_UNREDEFINED_P("Integer")
        val == FixNumOp(bop, x, y)
        floP == ((op2_flonum_p /\ FLONUM_P(x)) \/ (RegOperands /\ FLONUM_P(x) /\ FLONUM_P(y)))
                /\ BASIC_OP_UNREDEFINED_P("Float")
        heapP == RegOperands /\ ~SPECIAL_CONST_P(x) /\ ~SPECIAL_CONST_P(y)
        Done(r, v) == [res |-> r, variant |-> IF change_p THEN v ELSE variant]
    IN CASE fixP /\ (val # Qundef \/ bop \notin {"div", "mod"}) -> Done(val, "i")
         [] ~fixP /\ floP -> Done(float_num_op(bop, x, y), "f")
         [] ~fixP /\ heapP /\ Class(x) = "Float" /\ Class(y) = "Float"
                  /\ BASIC_OP_UNREDEFINED_P("Float") ->
                Done(double_num_op(bop, x, y), variant)
         [] ~fixP /\ heapP /\ bop = "plus" /\ Class(x) = "String" /\ Class(y) = "String"
                  /\ BASIC_OP_UNREDEFINED_P("String") ->
                Done([t |-> "str", s |-> <<x.s, y.s>>], variant)
         [] OTHER -> Done(op2_call(bop, x, y), variant)

(***************************************************************************)
(* The generic comparison insns (lt, lti, ltf, btlt, ...): common_cmp.    *)
(* It rewrites the insn before comparing.  Off the numeric paths, eq whose *)
(* receiver's == is still BasicObject#== (vm_search_method, check_cfunc)  *)
(* compares identities.                                                    *)
(***************************************************************************)
ObjEqualP(x) == Class(x) = "NilClass" /\ "NilClass" \notin redefined

common_cmp(x, y, change_p) ==
    LET bop == site.bop
        fixP == ((op2_fixnum_p /\ FIXNUM_P(x)) \/ (RegOperands /\ FIXNUM_P(x) /\ FIXNUM_P(y)))
                /\ BASIC_OP_UNREDEFINED_P("Integer")
        floP == ((op2_flonum_p /\ FLONUM_P(x)) \/ (RegOperands /\ FLONUM_P(x) /\ FLONUM_P(y)))
                /\ BASIC_OP_UNREDEFINED_P("Float")
        heapP == RegOperands /\ ~SPECIAL_CONST_P(x) /\ ~SPECIAL_CONST_P(y)
        Done(r, v) == [res |-> r, variant |-> IF change_p THEN v ELSE variant]
    IN CASE fixP -> Done(Bool(fix_num_cmp(bop, x, y)), "i")
         [] floP -> Done(Bool(float_num_cmp(bop, x, y)), "f")
         [] heapP /\ Class(x) = "Float" /\ Class(y) = "Float" /\ BASIC_OP_UNREDEFINED_P("Float") ->
                Done(Bool(double_num_cmp(bop, x, y)), variant)
         [] heapP /\ bop = "eq" /\ Class(x) = "String" /\ Class(y) = "String"
                  /\ BASIC_OP_UNREDEFINED_P("String") ->
                Done(Bool(x.s = y.s), variant)
         [] ~heapP /\ bop = "eq" /\ ObjEqualP(x) -> Done(Bool(x = y), variant)
         [] OTHER -> Done(op2_call(bop, x, y), variant)

(***************************************************************************)
(* The not insns.  The call cache is the Ruby VM's: vm_search_method      *)
(* refills it with the receiver class's method unless the global method   *)
(* state and the class serial it holds are current; a ! defined by the    *)
(* program is not the cfunc rb_obj_not.                                    *)
(***************************************************************************)
MethodOf(c) == IF c \in redefined THEN "user" ELSE "rb_obj_not"

vm_search_method(x) ==
    IF cc.ms = method_state /\ cc.serial = class_serial[Class(x)] THEN cc
    ELSE [ms |-> method_state, serial |-> class_serial[Class(x)], me |-> MethodOf(Class(x))]

vm_method_cfunc_is(x) ==
    LET c == vm_search_method(x) IN [cc |-> c, is |-> c.me = "rb_obj_not"]

\* common_not: the fast path, which rewrites not into spec_not, or op1_call,
\* whose vm_search_method finds the cache already refilled.
common_not(x, change_p) ==
    LET m == vm_method_cfunc_is(x) IN
    IF m.is THEN [res |-> Bool(~RTEST(x)), cc |-> m.cc,
                  variant |-> IF change_p THEN "n" ELSE variant]
    ELSE [res |-> op2_call("not", x, None), cc |-> m.cc, variant |-> variant]

\* Mutant: a cache test that ignores the class serial.
check_cc_attr_p_noclass(x) == method_state # cc.ms

\* The cache is obsolete for the receiver x.
check_cc_attr_p(x) == method_state # cc.ms \/ class_serial[Class(x)] # cc.serial

\* spec_not_f: Qundef (a miss to unot) only when the cache is obsolete and
\* the refilled method is not rb_obj_not; the refill stays.
spec_not_f(x) ==
    LET m == vm_method_cfunc_is(x) IN
    CASE ~check_cc_attr_p(x) -> [res |-> Bool(~RTEST(x)), cc |-> cc]
      [] m.is -> [res |-> Bool(~RTEST(x)), cc |-> m.cc]
      [] OTHER -> [res |-> Qundef, cc |-> m.cc]

(***************************************************************************)
(* The speculative insns: do_spec_fix_arithm and do_spec_flo_arithm.       *)
(* Qundef means a miss.  Whether a double result is a flonum              *)
(* (spec_dbl2num) is left to a choice: the model does not compute doubles.*)
(***************************************************************************)
do_spec_fix_arithm(x, y) ==
    IF /\ ~mjit_bop_redefined_p \/ BASIC_OP_UNREDEFINED_P("Integer")
       /\ (op2_fixnum_p /\ FIXNUM_P(x)) \/ (~op2_fixnum_p /\ FIXNUM_P(x) /\ FIXNUM_P(y))
    THEN SpecFixNumOp(site.bop, x, y)
    ELSE Qundef

do_spec_flo_arithm(x, y, flonumResult) ==
    IF /\ ~mjit_bop_redefined_p \/ BASIC_OP_UNREDEFINED_P("Float")
       /\ (op2_flonum_p /\ FLONUM_P(x)) \/ (~op2_flonum_p /\ FLONUM_P(x) /\ FLONUM_P(y))
       /\ flonumResult
    THEN float_num_op(site.bop, x, y)
    ELSE Qundef

common_spec_fix_cmp(x, y) ==
    IF /\ ~mjit_bop_redefined_p \/ BASIC_OP_UNREDEFINED_P("Integer")
       /\ (op2_fixnum_p /\ FIXNUM_P(x)) \/ (~op2_fixnum_p /\ FIXNUM_P(x) /\ FIXNUM_P(y))
    THEN Bool(fix_num_cmp(site.bop, x, y))
    ELSE Qundef

common_spec_flo_cmp(x, y) ==
    IF /\ ~mjit_bop_redefined_p \/ BASIC_OP_UNREDEFINED_P("Float")
       /\ (op2_flonum_p /\ FLONUM_P(x)) \/ (~op2_flonum_p /\ FLONUM_P(x) /\ FLONUM_P(y))
    THEN Bool(spec_float_num_cmp(site.bop, x, y))
    ELSE Qundef

\* The branch decision of a compare-and-branch insn (do_bcmp,
\* spec_bcmp_finish): branch on a true value for bt..., on a false one for bf...
Jump(v) == site.kind = "bcmp" /\ IF site.true_p THEN RTEST(v) ELSE ~RTEST(v)

\* Mutant: the miss names the speculative insn itself as its replacement.
UInsnSame(v) == v
\* The unchangeable insn that replaces a speculative one on a miss.
UInsn(v) == "u"

\* A speculation miss: the dispatch loop stores the unchangeable insn at
\* the same position and executes it again with the same operands.
\* Mutant: the operands kept for the re-execution are swapped.
MissSwapped(x, y) ==
    /\ variant' = UInsn(variant)
    /\ pending' = [x |-> y, y |-> x]
    /\ UNCHANGED out

Miss(x, y) ==
    /\ variant' = UInsn(variant)
    /\ pending' = [x |-> x, y |-> y]
    /\ UNCHANGED out

Complete(r, x, y) ==
    /\ pending' = None
    /\ out' = [res |-> r, jump |-> Jump(r), ref |-> op2_call(site.bop, x, y)]

\* One execution of the insn at the site on operands x and y.
Run(x, y) ==
    \/ /\ variant \in {"gen", "u"}
       /\ site.kind # "not"
       /\ UNCHANGED cc
       /\ LET d == IF site.kind = "arith" THEN do_arithm(x, y, variant = "gen")
                                          ELSE common_cmp(x, y, variant = "gen")
          IN variant' = d.variant /\ Complete(d.res, x, y)
    \/ /\ variant = "i"
       /\ UNCHANGED cc
       /\ LET r == IF site.kind = "arith" THEN do_spec_fix_arithm(x, y) ELSE common_spec_fix_cmp(x, y)
          IN IF r = Qundef THEN Miss(x, y) ELSE UNCHANGED variant /\ Complete(r, x, y)
    \/ /\ variant = "f"
       /\ UNCHANGED cc
       /\ \E fits \in IF site.kind = "arith" THEN BOOLEAN ELSE {TRUE} :
             LET r == IF site.kind = "arith" THEN do_spec_flo_arithm(x, y, fits)
                                             ELSE common_spec_flo_cmp(x, y)
             IN IF r = Qundef THEN Miss(x, y) ELSE UNCHANGED variant /\ Complete(r, x, y)
    \/ /\ variant \in {"gen", "u"}
       /\ site.kind = "not"
       /\ LET d == common_not(x, variant = "gen")
          IN variant' = d.variant /\ cc' = d.cc /\ Complete(d.res, x, y)
    \/ /\ variant = "n"
       /\ LET d == spec_not_f(x)
          IN /\ cc' = d.cc
             /\ IF d.res = Qundef THEN Miss(x, y) ELSE UNCHANGED variant /\ Complete(d.res, x, y)

Init ==
    /\ site \in Sites
    /\ variant = "gen"
    /\ redefined = {}
    /\ mjit_bop_redefined_p = FALSE
    /\ pending = None
    /\ out = None
    /\ method_state = 1
    /\ class_serial = [c \in AllClasses |-> <<c, 0>>]
    /\ cc = [ms |-> 0, serial |-> <<"none", 0>>, me |-> "none"]

\* not has one operand; its second is None.
SecondOperands == IF RegOperands /\ site.kind # "not" THEN Operands ELSE {site.imm}

\* The dispatch loop reaches the insn with fresh operands.
Execute ==
    /\ pending = None
    /\ \E x \in Operands, y \in SecondOperands : Run(x, y)
    /\ UNCHANGED <<site, redefined, mjit_bop_redefined_p, method_state, class_serial>>

\* The dispatch loop re-executes the same position after a miss.
Reexecute ==
    /\ pending # None
    /\ Run(pending.x, pending.y)
    /\ UNCHANGED <<site, redefined, mjit_bop_redefined_p, method_state, class_serial>>

\* Ruby code redefines the site's operator in a class; the VM clears the
\* class's BASIC_OP_UNREDEFINED_P bit, sets mjit_bop_redefined_p and
\* bumps the class's serial (rb_clear_method_cache_by_class; the classes
\* have no subclasses).
Redefine ==
    /\ pending = None
    /\ \E c \in Classes \ redefined :
          /\ redefined' = redefined \cup {c}
          /\ mjit_bop_redefined_p' = TRUE
          /\ class_serial' = [class_serial EXCEPT ![c] = <<c, @[2] + 1>>]
    /\ UNCHANGED <<site, variant, pending, out, method_state, cc>>

\* A method defined in Object or Kernel bumps the global method state.
MethodStateBump ==
    /\ pending = None
    /\ method_state < MaxMethodState
    /\ method_state' = method_state + 1
    /\ UNCHANGED <<site, variant, redefined, mjit_bop_redefined_p, pending, out, class_serial, cc>>

Next == Execute \/ Reexecute \/ Redefine \/ MethodStateBump

Spec == Init /\ [][Next]_vars /\ WF_vars(Reexecute)

(***************************************************************************)
(* Properties.                                                             *)
(***************************************************************************)
TypeOK ==
    /\ site \in Sites
    /\ variant \in {"gen", "i", "f", "u", "n"}
    /\ method_state \in 1..MaxMethodState
    /\ cc.me \in {"none", "user", "rb_obj_not"}
    /\ redefined \subseteq Classes
    /\ mjit_bop_redefined_p \in BOOLEAN
    /\ pending = None \/ (pending.x \in Operands /\ pending.y \in Operands \cup {site.imm})
    /\ out = None \/ out.jump \in BOOLEAN
    /\ out = None \/ out.res.t \in {"float", "str", "user", "raise", "bool", "call"}
                  \/ (out.res.t = "fix" /\ out.res.w \in 0..(Mod - 1) /\ out.res.w % 2 = 1)
                  \/ (out.res.t = "big" /\ ~RB_FIXABLE(out.res.n))

\* Whatever variant the site has been rewritten to, and whatever was
\* redefined before, each completed execution yields what the method
\* dispatch (op2_call) of the operator yields on the same operands: the
\* same Integer normalised to a fixnum when it fits, the same Float
\* operation or comparison, the user's method, or the exception; and a
\* compare-and-branch insn branches exactly when that comparison is true
\* (bt...) or false (bf...) (do_arithm, common_cmp, do_bcmp, the
\* speculative do_spec_* and common_spec_* paths and the fix_num,
\* spec_fix_num and float fast paths).
FastPathAgreesWithDispatch ==
    out # None =>
        /\ out.res = out.ref
        /\ out.jump = (site.kind = "bcmp" /\ (site.true_p <=> RTEST(out.ref)))

(***************************************************************************)
(* Refinement.  The site implements DispatchInsn: an execution that       *)
(* completes on the first try is its Call, a speculation miss its Defer   *)
(* (the operands kept for the re-execution are its inflight operands),    *)
(* the re-execution its Resume; the rewriting of the opcode, the ghost    *)
(* reference result and mjit_bop_redefined_p are hidden.                  *)
(***************************************************************************)
AbstractOut == IF out = None THEN None ELSE [res |-> out.res, jump |-> out.jump]

Abstract == INSTANCE DispatchInsn
    WITH inflight <- pending, out <- AbstractOut,
         Dispatch <- MethodDispatch, Truthy <- RTEST

\* Seen from the dispatch loop, the site behaves as an insn that always
\* dispatches the method: every completed execution returns op2_call's
\* result on the operands the loop gave it (for plusi, lti ... the
\* immediate), a speculation miss only defers that result to the
\* re-execution of the same position on the same operands, no Ruby code
\* runs in between, and the re-execution eventually comes
\* (do_arithm/common_cmp and their vm_change_insn, the do_spec_* paths that
\* set *new_insn to the unchangeable insn on a miss, and the unchangeable
\* insns themselves).
DispatchRefined == Abstract!Spec
====
