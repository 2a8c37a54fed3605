-------------------------- MODULE MC_StackAnalyzer --------------------------
(***************************************************************************)
(* Iseqs for checking StackAnalyzer.  Each family is the stack code the    *)
(* Ruby compiler emits for a source shape, with its operands, assigned     *)
(* locals and catch entries varied.  Local 1 and 2 are method locals.      *)
(***************************************************************************)
EXTENDS StackAnalyzer

\* Instruction constructors.
I(o, x, y, t) == [op |-> o, a |-> x, b |-> y, ts |-> t]
PutObject(v) == I("putobject", v, 0, <<>>)
PutSelf == I("putself", 0, 0, <<>>)
GetLocal(l, lvl) == I("getlocal", l, lvl, <<>>)
SetLocal(l, lvl) == I("setlocal", l, lvl, <<>>)
PopI == I("pop", 0, 0, <<>>)
DupI == I("dup", 0, 0, <<>>)
TopN(n) == I("topn", n, 0, <<>>)
SetN(n) == I("setn", n, 0, <<>>)
SwapI == I("swap", 0, 0, <<>>)
Send(argc) == I("send", argc, 0, <<>>)
Jump(t) == I("jump", t, 0, <<>>)
BranchIf(t) == I("branchif", t, 0, <<>>)
CaseDispatch(ts, e) == I("case_dispatch", e, 0, ts)
Leave == I("leave", 0, 0, <<>>)
Nop == I("nop", 0, 0, <<>>)
ExpandArray(n) == I("expandarray", n, 0, <<>>)

Catch(ty, s, e, c, sp) == [type |-> ty, start |-> s, end |-> e, cont |-> c, sp |-> sp]
NoLines(n) == [i \in 1..n |-> 0]
Iseq(code, ct, ln) == [code |-> code, catch |-> ct, line |-> ln]

\* What can be pushed as an operand.
Operands == {PutObject(0), PutObject(1), PutSelf, GetLocal(1, 0), GetLocal(2, 0), GetLocal(1, 1)}

\* c ? X : Y, joined at 5, then either returned or assigned to local 2.
JoinIseqs ==
    { Iseq(<<GetLocal(1, 0), BranchIf(4), x, Jump(5), y, SetLocal(2, 0), PutObject(0), Leave>>,
           <<>>, NoLines(8)) : x, y \in Operands }
    \cup
    { Iseq(<<GetLocal(1, 0), BranchIf(4), x, Jump(5), y, Leave>>, <<>>, NoLines(6)) : x, y \in Operands }

\* c ? X : (d ? Y : Y): the join at 9 is reached by a jump and by falling
\* through the inner join at 8, so a mark made at 9 must reach 8 again.
NestedJoinIseqs ==
    { Iseq(<<GetLocal(1, 0), BranchIf(4), x, Jump(9), y, GetLocal(2, 0), BranchIf(8), Nop, Nop,
             Leave>>, <<>>, NoLines(10)) : x, y \in Operands }

\* foo(X, l, (l = Y)): a value and a local are on the stack when l is
\* assigned; the call is on one line, or the assignment's value is pushed
\* on a line of its own, so the dup and the setlocal have separate events.
ArgIseqs ==
    { Iseq(<<PutSelf, x, GetLocal(1, 0), y, DupI, SetLocal(1, 0), Send(3), Leave>>,
           <<>>, ln) : x, y \in Operands, ln \in {NoLines(8), <<1, 0, 0, 0, 2, 3, 0, 0>>} }

\* foo(v, while c; t = t + 1; end): v stays on the stack across a loop
\* whose body assigns t; optionally a catch region starts at 0.
LoopIseqs ==
    { Iseq(<<PutSelf, GetLocal(v, 0), Jump(8), GetLocal(t, 0), PutObject(1), Send(1),
             SetLocal(t, 0), Nop, GetLocal(2, 0), BranchIf(3), PutObject(0), Send(2), Leave>>,
           ct, NoLines(13)) :
        v \in {1, 2}, t \in {1, 2}, ct \in {<<>>, <<Catch("rescue", 0, 7, 12, 0)>>} }

\* a, b = b, a  (swap through the stack) and the setn form of o.x = v.
AssignIseqs ==
    { Iseq(<<GetLocal(2, 0), GetLocal(1, 0), SetLocal(2, 0), SetLocal(1, 0), PutObject(0), Leave>>,
           <<>>, NoLines(6)),
      Iseq(<<GetLocal(1, 0), GetLocal(2, 0), SwapI, SetLocal(1, 0), SetLocal(2, 0), PutObject(0), Leave>>,
           <<>>, NoLines(7)),
      Iseq(<<PutObject(0), GetLocal(1, 0), GetLocal(2, 0), SetN(2), Send(1), PopI, SetLocal(2, 0),
             GetLocal(2, 0), Leave>>, <<>>, NoLines(9)),
      Iseq(<<GetLocal(1, 0), ExpandArray(2), SetLocal(1, 0), SetLocal(2, 0), GetLocal(1, 0), TopN(0),
             SetLocal(2, 0), Leave>>, <<>>, NoLines(8)) }

\* foo(x, begin; bar; rescue; 2; end): a rescue region entered with two
\* slots on the stack; a garbage entry is also present.
CatchIseqs ==
    { Iseq(<<x, y, PutSelf, Send(0), Nop, Send(2), Leave>>,
           <<Catch("rescue", 2, 4, 5, 2), Catch("ensure", 2, 4, 9, 0)>>, NoLines(7)) :
        x \in {PutSelf, GetLocal(1, 0)}, y \in {PutObject(1), GetLocal(2, 0)} }

\* case x when 1 then 1 when 2 then self else 0 end: the dispatch, the
\* compare chain it falls back to, and variants where events on adjacent
\* lines force temporaries.
CaseIseqs ==
    { Iseq(<<GetLocal(1, 0), DupI, CaseDispatch(<<8, 11>>, 5), DupI, BranchIf(8), PopI,
             PutObject(0), Leave, PopI, PutObject(1), Leave, PopI, PutSelf, Leave>>,
           <<>>, ln) :
        ln \in {NoLines(14), <<1, 2, 0, 0, 0, 0, 0, 0, 0, 1, 2, 0, 0, 0>>,
                <<0, 0, 0, 1, 2, 0, 0, 0, 0, 0, 0, 0, 0, 0>>} }

MCPrograms == JoinIseqs \cup NestedJoinIseqs \cup ArgIseqs \cup LoopIseqs \cup AssignIseqs \cup CatchIseqs \cup CaseIseqs
MCLocals == {1, 2}
=============================================================================
