--------------------------- MODULE StackAnalyzer ---------------------------
(***************************************************************************)
(* The emulated-VM-stack dataflow analysis of rtl_gen.c                    *)
(* (find_stack_values_on_labels and everything it calls).                  *)
(*                                                                         *)
(* Before RTL is generated for an iseq, the translator runs a forward      *)
(* dataflow pass over the stack instructions.  It keeps an abstract stack  *)
(* of slots (SELF, a literal VAL, a local variable LOC, or a TEMP          *)
(* register), saves the stack at every label, merges the stacks of every   *)
(* edge into a label, and marks in use_only_temp_result_p the producers    *)
(* whose results must be put into a temporary because two paths disagree. *)
(* The pass repeats until no saved stack changes.                          *)
(*                                                                         *)
(* The state of the C globals is one record [a] that the operators below   *)
(* transform in the order the C code calls them, so that one action is one *)
(* whole step of the C loop.  Instructions have length 1 and absolute      *)
(* branch targets; positions are 0-based like the C code, stack slots are  *)
(* 1-based (slot i of the C stack is a.stack[i+1]).                        *)
(***************************************************************************)
EXTENDS Integers, Sequences, FiniteSets, SequencesExt

CONSTANTS
    Programs,   \* the iseqs to analyse: [code, catch, line] records
    Locals      \* local variable indexes of the iseqs (all > 0)

ASSUME Locals \subseteq Nat \ {0}

\* pos_label_type values (rtl_gen.c enum: NO_LABEL, CONT_LABEL, BRANCH_LABEL).
NoLabel == 0
ContLabel == 1
BranchLabel == 2

VARIABLES
    prog,       \* curr_iseq: the iseq being analysed
    a,          \* the analysis globals (stack, saved slots, marks, ...)
    pc,         \* which loop of find_stack_values_on_labels is running
    pos,        \* pos: current stack insn position
    startPos,   \* start_pos: where the current block scan started
    ci          \* index of the catch table entry being set up

vars == <<prog, a, pc, pos, startPos, ci>>

Size == Len(prog.code)
Insn(p) == prog.code[p + 1]

Slot(m, v, p) == [mode |-> m, v |-> v, src |-> p]
TempSlot(p) == Slot("TEMP", 0, p)

IsLoc(s, l) == s.mode = "LOC" /\ s.v = l

(***************************************************************************)
(* Stack primitives.  Each keeps loc_stack_count, the number of LOC slots  *)
(* per local, in step with the stack.                                      *)
(***************************************************************************)
\* prepare_stack_slot_assign (d = 1) and prepare_stack_slot_rewrite (d = -1)
Bump(cnt, s, d) == IF s.mode = "LOC" THEN [cnt EXCEPT ![s.v] = @ + d] ELSE cnt

PushSlot(S, s) ==
    [S EXCEPT !.stack = Append(@, s),
              !.locCount = Bump(@, s, 1),
              !.maxDepth = IF @ < Len(S.stack) + 1 THEN Len(S.stack) + 1 ELSE @]

PopSlot(S) ==
    [S EXCEPT !.stack = Front(@), !.locCount = Bump(@, Last(S.stack), -1)]

RECURSIVE TruncStack(_, _)
TruncStack(S, d) == IF Len(S.stack) > d THEN TruncStack(PopSlot(S), d) ELSE S

RECURSIVE PushTemps(_, _, _)
PushTemps(S, k, p) == IF k <= 0 THEN S ELSE PushTemps(PushSlot(S, TempSlot(p)), k - 1, p)

\* A change_stack_slot that forgets prepare_stack_slot_rewrite on the old slot.
ChangeSlotNoRewrite(S, n, s) ==
    [S EXCEPT !.stack[n] = s, !.locCount = Bump(@, s, 1)]

ChangeSlot(S, n, s) ==
    [S EXCEPT !.stack[n] = s, !.locCount = Bump(Bump(@, S.stack[n], -1), s, 1)]

\* A prepare_local_assign that turns every slot, not only LOC slots, into a
\* temporary and counts it off the local its value field names.
PrepareLocalAssignAnySlot(S, res) ==
    IF S.locCount[res] = 0 THEN S
    ELSE LET locs == DOMAIN S.stack
         IN [S EXCEPT
               !.stack = [i \in DOMAIN S.stack |-> [S.stack[i] EXCEPT !.mode = "TEMP"]],
               !.locCount = [l \in DOMAIN S.locCount |->
                               S.locCount[l] - Cardinality({i \in locs : S.stack[i].v = l})]]

\* A prepare_local_assign that returns early unless two slots name res.
PrepareLocalAssignOffByOne(S, res) ==
    IF S.locCount[res] <= 1 THEN S
    ELSE LET locs == {i \in DOMAIN S.stack : S.stack[i].mode = "LOC"}
         IN [S EXCEPT
               !.stack = [i \in DOMAIN S.stack |->
                            IF i \in locs THEN [S.stack[i] EXCEPT !.mode = "TEMP"]
                                          ELSE S.stack[i]],
               !.locCount = [l \in DOMAIN S.locCount |->
                               S.locCount[l] - Cardinality({i \in locs : S.stack[i].v = l})]]

\* prepare_local_assign(res, make_temp): when a slot of local res is on the
\* stack, every LOC slot (of any local) becomes a TEMP; make_temp keeps the
\* producer and does not mark it.
PrepareLocalAssign(S, res) ==
    IF S.locCount[res] = 0 THEN S
    ELSE LET locs == {i \in DOMAIN S.stack : S.stack[i].mode = "LOC"}
         IN [S EXCEPT
               !.stack = [i \in DOMAIN S.stack |->
                            IF i \in locs THEN [S.stack[i] EXCEPT !.mode = "TEMP"]
                                          ELSE S.stack[i]],
               !.locCount = [l \in DOMAIN S.locCount |->
                               S.locCount[l] - Cardinality({i \in locs : S.stack[i].v = l})]]

\* stack_slot_eq: the producer position is not compared.
SlotEq(s1, s2) ==
    /\ s1.mode = s2.mode
    /\ s1.mode \in {"VAL", "STR", "LOC"} => s1.v = s2.v

Mark(S, P) == [S EXCEPT !.useTemp = [q \in DOMAIN @ |-> @[q] \/ q \in P]]

(***************************************************************************)
(* update_saved_stack_slots: merge the current stack into the stack saved  *)
(* at label L, slot by slot.  Returns the new state and changed_p.         *)
(***************************************************************************)
RECURSIVE MergeSlots(_, _, _, _)
MergeSlots(S, L, i, ch) ==
    IF i > Len(S.stack) THEN [st |-> S, ch |-> ch]
    ELSE LET cur == S.stack[i]
             sv == S.saved[L][i]
             marked == IF sv.mode # "TEMP" THEN {sv.src}
                       ELSE IF cur.mode # "TEMP" THEN {cur.src} ELSE {}
             t == [sv EXCEPT !.mode = "TEMP"]
         IN CASE cur.mode = "ANY" ->
                   MergeSlots(S, L, i + 1, ch)
              [] sv.mode = "ANY" ->
                   MergeSlots([S EXCEPT !.saved[L][i] = cur], L, i + 1, TRUE)
              [] ~SlotEq(sv, cur) ->
                   MergeSlots(ChangeSlot([Mark(S, marked) EXCEPT !.saved[L][i] = t], i, t),
                              L, i + 1, ch \/ marked # {})
              [] OTHER ->
                   MergeSlots(S, L, i + 1, ch)

UpdateSavedStackSlots(S, L) == MergeSlots(S, L, 1, FALSE)

\* The label stack is kept in decreasing order; its last (smallest) label
\* is processed first.
InsertLabel(w, L) == InsertAt(w, Cardinality({j \in DOMAIN w : w[j] >= L}) + 1, L)

\* A process_label that reports a change on every merge.
ProcessLabelAlwaysChanged(S, type, L, d) ==
    LET prev == S.labelType[L]
        S1 == [S EXCEPT !.labelType[L] = IF prev < type THEN type ELSE prev]
        S2 == IF prev = NoLabel
              THEN [S1 EXCEPT !.free[L] = d + 1, !.saved[L] = S1.stack, !.changed = TRUE]
              ELSE [UpdateSavedStackSlots(S1, L).st EXCEPT !.changed = TRUE]
    IN IF S2.processed[L] THEN S2
       ELSE [S2 EXCEPT !.worklist = InsertLabel(@, L), !.processed[L] = TRUE]

\* process_label(type, label, depth)
ProcessLabel(S, type, L, d) ==
    LET prev == S.labelType[L]
        S1 == [S EXCEPT !.labelType[L] = IF prev < type THEN type ELSE prev]
        S2 == IF prev = NoLabel
              THEN [S1 EXCEPT !.free[L] = d + 1, !.saved[L] = S1.stack, !.changed = TRUE]
              ELSE LET r == UpdateSavedStackSlots(S1, L)
                   IN [r.st EXCEPT !.changed = @ \/ r.ch]
    IN IF S2.processed[L] THEN S2
       ELSE [S2 EXCEPT !.worklist = InsertLabel(@, L), !.processed[L] = TRUE]

RECURSIVE ProcessLabels(_, _, _, _)
ProcessLabels(S, type, Ls, d) ==
    IF Ls = <<>> THEN S
    ELSE ProcessLabels(ProcessLabel(S, type, Head(Ls), d), type, Tail(Ls), d)

(***************************************************************************)
(* The instructions.  An insn is [op, a, b, ts]: getlocal/setlocal a=index *)
(* b=level; putobject a=value; topn/setn a=n (dup is topn 0); send a=argc; *)
(* expandarray a=num; jump/branchif a=target; opt_case_dispatch a=else     *)
(* target and ts the targets of its hash, in hash order.                  *)
(***************************************************************************)
\* insn_stack_increase for these insns (generated from insns.def).
StackIncrease(i) ==
    CASE i.op \in {"putobject", "putself", "getlocal", "dup", "topn"} -> 1
      [] i.op \in {"setlocal", "pop", "branchif", "case_dispatch"} -> -1
      [] i.op \in {"setn", "swap", "jump", "nop", "leave"} -> 0
      [] i.op = "send" -> -i.a
      [] i.op = "expandarray" -> i.a - 1

\* The insns after which update_stack_by_insn only truncates the stack.
NoResultOps == {"setlocal", "nop", "pop", "branchif", "case_dispatch", "jump", "setn", "swap"}

\* combined_event_p(pos_event(p), pos_event(p + 1)): two events combine
\* unless both are defined with different lines.  line[p] = 0 is no event,
\* and there is none past the end of the iseq.
LineAt(p) == IF p < Size THEN prog.line[p + 1] ELSE 0
CombinedEventP(p) == LineAt(p) = 0 \/ LineAt(p + 1) = 0 \/ LineAt(p) = LineAt(p + 1)

\* The slot a producer pushes: its own, or a TEMP when it must use a temporary.
Produced(s, tempOnly, p) == IF tempOnly THEN TempSlot(p) ELSE s

\* The per-insn stack change of update_stack_by_insn (its second switch),
\* after the stack was cut to the insn's inputs.
InsnEffect(S, p, i, tempOnly, resultP) ==
    LET len == Len(S.stack) IN
    CASE i.op = "putself" -> PushSlot(S, Produced(Slot("SELF", 0, p), tempOnly, p))
      [] i.op = "putobject" -> PushSlot(S, Produced(Slot("VAL", i.a, p), tempOnly, p))
      [] i.op = "getlocal" ->
            PushSlot(S, IF i.b # 0 THEN TempSlot(p) ELSE Produced(Slot("LOC", i.a, p), tempOnly, p))
      [] i.op = "setlocal" -> IF i.b = 0 THEN PrepareLocalAssign(S, i.a) ELSE S
      [] i.op = "setn" -> ChangeSlot(S, len - i.a, S.stack[len])
      [] i.op \in {"dup", "topn"} ->
            LET s == S.stack[len - i.a]
            IN PushSlot(S, IF s.mode = "TEMP" \/ tempOnly THEN TempSlot(p) ELSE s)
      [] i.op = "swap" -> ChangeSlot(ChangeSlot(S, len, S.stack[len - 1]), len - 1, S.stack[len])
      [] i.op = "expandarray" -> PushTemps(PopSlot(S), i.a, p)
      [] resultP -> PushSlot(S, TempSlot(p))
      [] OTHER -> S

\* The start of update_stack_by_insn and of translate's insn switch: record
\* the depth at p and cut the stack to the insn's inputs.
StackInputs(S, p) ==
    LET i == Insn(p)
        d == S.depth + StackIncrease(i)
        S1 == [S EXCEPT !.free[p] = S.depth + 1, !.depth = d]
    IN CASE i.op \in NoResultOps -> TruncStack(S1, d)
         [] i.op = "expandarray" -> S1
         [] OTHER -> TruncStack(S1, d - 1)

ResultP(i) == i.op \notin NoResultOps \cup {"expandarray"}

\* update_stack_by_insn without its process_label calls: after the cut,
\* force a temporary when the events at p and p + 1 cannot share one RTL
\* insn, then apply the insn.
StackStep(S, p) ==
    LET S2 == StackInputs(S, p)
        tempOnly == S2.useTemp[p] \/ ~CombinedEventP(p)
    IN InsnEffect([S2 EXCEPT !.useTemp[p] = tempOnly], p, Insn(p), tempOnly, ResultP(Insn(p)))

\* translate's stack change for the insn at p.  It reads temp_only_p from
\* use_only_temp_result_p as the analysis left it.  dup and topn push a
\* copy of the slot whatever temp_only_p says (dup gives the copy its own
\* source position); the other insns change the stack as the analysis does.
GenStep(S, p) ==
    LET i == Insn(p)
        S2 == StackInputs(S, p)
        s == S2.stack[Len(S2.stack) - i.a]
    IN CASE i.op = "dup" -> PushSlot(S2, [s EXCEPT !.src = p])
         [] i.op = "topn" -> PushSlot(S2, s)
         [] OTHER -> InsnEffect(S2, p, i, S2.useTemp[p], ResultP(i))

\* The process_label calls of update_stack_by_insn for the insns that branch.
BranchLabels(S, p) ==
    LET i == Insn(p) IN
    CASE i.op \in {"jump", "branchif"} -> ProcessLabel(S, BranchLabel, i.a, S.depth)
      [] i.op = "case_dispatch" ->
            ProcessLabel(ProcessLabels(S, BranchLabel, i.ts, S.depth), BranchLabel, i.a, S.depth)
      [] OTHER -> S

UpdateStackByInsn(S, p) == BranchLabels(StackStep(S, p), p)

(***************************************************************************)
(* The block scan of find_stack_values_on_labels.                          *)
(***************************************************************************)
\* A catch bound that turns the slots into temporaries without marking
\* their producers.
ForceCatchBoundNoMark(S, p) ==
    IF ~S.bound[p] THEN S
    ELSE LET nt == {i \in DOMAIN S.stack : S.stack[i].mode # "TEMP"}
         IN [S EXCEPT
               !.stack = [i \in DOMAIN S.stack |->
                            IF i \in nt THEN [S.stack[i] EXCEPT !.mode = "TEMP"]
                                        ELSE S.stack[i]],
               !.locCount = [l \in DOMAIN S.locCount |->
                               S.locCount[l] - Cardinality({i \in nt : IsLoc(S.stack[i], l)})]]

\* At a catch region bound every slot that is not a TEMP becomes one and its
\* producer is marked; stack_on_label_change_p is not set.  The loop runs
\* over the whole C stack, which may be longer than depth.
ForceCatchBound(S, p) ==
    IF ~S.bound[p] THEN S
    ELSE LET nt == {i \in DOMAIN S.stack : S.stack[i].mode # "TEMP"}
         IN [Mark(S, {S.stack[i].src : i \in nt}) EXCEPT
               !.stack = [i \in DOMAIN S.stack |->
                            IF i \in nt THEN [S.stack[i] EXCEPT !.mode = "TEMP"]
                                        ELSE S.stack[i]],
               !.locCount = [l \in DOMAIN S.locCount |->
                               S.locCount[l] - Cardinality({i \in nt : IsLoc(S.stack[i], l)})]]

\* A fall through into a label that does not report the merge's change.
ArriveNoChange(S, p, sp) ==
    LET S1 == ForceCatchBound(S, p)
        r == UpdateSavedStackSlots(S1, p)
    IN IF p # sp /\ S1.labelType[p] # NoLabel
       THEN [st |-> r.st, ch |-> r.ch, label |-> TRUE]
       ELSE [st |-> S1, ch |-> FALSE, label |-> FALSE]

\* Reaching position p inside a scan that started at sp: the catch bound
\* forcing, then the merge into a label reached by fall through.
Arrive(S, p, sp) ==
    LET S1 == ForceCatchBound(S, p)
        r == UpdateSavedStackSlots(S1, p)
    IN IF p # sp /\ S1.labelType[p] # NoLabel
       THEN [st |-> [r.st EXCEPT !.changed = @ \/ r.ch], ch |-> r.ch, label |-> TRUE]
       ELSE [st |-> S1, ch |-> FALSE, label |-> FALSE]

(***************************************************************************)
(* The state when find_stack_values_on_labels starts: rtl_gen has called   *)
(* initialize_loc_stack_count, the function has emptied every table.       *)
(***************************************************************************)
InitAnalysis(P) ==
    LET Pos == 0..(Len(P.code) - 1) IN
    [stack |-> <<>>, locCount |-> [l \in Locals |-> 0], maxDepth |-> 0, depth |-> 0,
     labelType |-> [p \in Pos |-> NoLabel], free |-> [p \in Pos |-> 0],
     saved |-> [p \in Pos |-> <<>>], useTemp |-> [p \in Pos |-> FALSE],
     processed |-> [p \in Pos |-> FALSE], bound |-> [p \in Pos |-> FALSE],
     worklist |-> <<>>, changed |-> FALSE]

Init ==
    /\ prog \in Programs
    /\ a = InitAnalysis(prog)
    /\ pc = "catch"
    /\ pos = 0
    /\ startPos = 0
    /\ ci = 1

(***************************************************************************)
(* setup_labels_from_catch_table, one action per entry.                    *)
(***************************************************************************)
GarbageEntry(e) ==
    e.sp < 0 \/ e.start >= Size \/ e.end >= Size \/ e.cont >= Size

\* An entry with garbage in it is skipped.
SkipCatchEntry ==
    /\ pc = "catch"
    /\ ci <= Len(prog.catch)
    /\ GarbageEntry(prog.catch[ci])
    /\ ci' = ci + 1
    /\ UNCHANGED <<prog, a, pc, pos, startPos>>

\* Mark the region bounds, and give the continuation label a stack of
\* depth TEMPs (one more for rescue, next and break: the caught value).
SetupCatchEntry ==
    /\ pc = "catch"
    /\ ci <= Len(prog.catch)
    /\ LET e == prog.catch[ci]
           d == e.sp + (IF e.type \in {"rescue", "next", "break"} THEN 1 ELSE 0)
           S1 == [a EXCEPT !.bound[e.start] = TRUE, !.bound[e.end] = TRUE]
       IN /\ ~GarbageEntry(e)
          /\ a' = TruncStack(ProcessLabel(PushTemps(S1, d, 0), ContLabel, e.cont, d), 0)
    /\ ci' = ci + 1
    /\ UNCHANGED <<prog, pc, pos, startPos>>

CatchTableDone ==
    /\ pc = "catch"
    /\ ci > Len(prog.catch)
    /\ pc' = "iter"
    /\ UNCHANGED <<prog, a, pos, startPos, ci>>

(***************************************************************************)
(* The do-while loop.  An iteration starts at position 0 with depth 0 but  *)
(* keeps whatever the last block left on the emulated stack.               *)
(***************************************************************************)
StartIteration ==
    /\ pc = "iter"
    /\ a' = [a EXCEPT !.changed = FALSE, !.depth = 0]
    /\ pos' = 0
    /\ startPos' = 0
    /\ pc' = "scan"
    /\ UNCHANGED <<prog, ci>>

\* One turn of the inner for loop: arrive at pos and execute its insn.  A
\* jump or leave, or the end of the iseq, ends the block.
ScanInsn ==
    /\ pc = "scan"
    /\ LET r == Arrive(a, pos, startPos)
           op == Insn(pos).op
       IN /\ ~(r.label /\ ~r.ch /\ r.st.processed[pos])
          /\ a' = UpdateStackByInsn(r.st, pos)
          /\ pos' = IF op \in {"jump", "leave"} THEN pos ELSE pos + 1
          /\ pc' = IF op \in {"jump", "leave"} \/ pos + 1 >= Size THEN "pop" ELSE "scan"
    /\ UNCHANGED <<prog, startPos, ci>>

\* Falling through into a label that is already queued in this iteration and
\* whose saved stack did not change ends the block.
FallThroughStop ==
    /\ pc = "scan"
    /\ LET r == Arrive(a, pos, startPos)
       IN /\ r.label /\ ~r.ch /\ r.st.processed[pos]
          /\ a' = r.st
    /\ pc' = "pop"
    /\ UNCHANGED <<prog, pos, startPos, ci>>

\* restore_stack_slots: empty the stack, then push the saved slots.
RECURSIVE PushSlots(_, _)
PushSlots(S, ss) == IF ss = <<>> THEN S ELSE PushSlots(PushSlot(S, Head(ss)), Tail(ss))

RestoreStackSlots(S, L) == PushSlots(TruncStack(S, 0), SubSeq(S.saved[L], 1, S.free[L] - 1))

\* Take the smallest queued label and restore the stack saved at it.
PopLabel ==
    /\ pc = "pop"
    /\ a.worklist # <<>>
    /\ LET L == Last(a.worklist)
       IN /\ a' = RestoreStackSlots([a EXCEPT !.worklist = Front(@), !.depth = a.free[L] - 1], L)
          /\ pos' = L
          /\ startPos' = L
    /\ pc' = "scan"
    /\ UNCHANGED <<prog, ci>>

\* With no label left the iteration ends: every label becomes unprocessed,
\* and the loop repeats if some saved stack changed.
EndIteration ==
    /\ pc = "pop"
    /\ a.worklist = <<>>
    /\ a' = [a EXCEPT !.processed = [p \in DOMAIN @ |-> FALSE]]
    /\ pc' = IF a.changed THEN "iter" ELSE "done"
    /\ UNCHANGED <<prog, pos, startPos, ci>>

\* find_stack_values_on_labels has returned; translate() runs next.
Finished ==
    /\ pc = "done"
    /\ UNCHANGED vars

Next ==
    \/ SkipCatchEntry
    \/ SetupCatchEntry
    \/ CatchTableDone
    \/ StartIteration
    \/ ScanInsn
    \/ FallThroughStop
    \/ PopLabel
    \/ EndIteration
    \/ Finished

(***************************************************************************)
(* The pass is sequential code that always runs on: weak fairness of Next. *)
(* Every state has a successor (the runs check deadlock), and only the     *)
(* state with pc = "done" has no successor other than itself, so           *)
(* WF_vars(Next) is the condition below; it is written out because TLC     *)
(* would recompute each step of the pass to evaluate ENABLED Next.         *)
(***************************************************************************)
Fairness == []<>(pc = "done") \/ []<><<Next>>_vars

Spec == Init /\ [][Next]_vars /\ Fairness

-----------------------------------------------------------------------------
(***************************************************************************)
(* How translate() uses the result: it walks the iseq once in order,       *)
(* skipping code after a jump or leave up to the next label.  At a label   *)
(* reached by fall through, and before a branch, tune_stack moves every    *)
(* slot the label keeps in a temporary into it (to_temp); at a label that  *)
(* follows unreachable code it takes the saved stack as it is.             *)
(***************************************************************************)
\* tune_stack_slot for every slot (the moves of to_temp).
RECURSIVE TuneSlots(_, _, _)
TuneSlots(S, L, i) ==
    IF i > Len(S.stack) THEN S
    ELSE LET c == S.stack[i]
         IN IF S.saved[L][i].mode = "TEMP" /\ c.mode \notin {"TEMP", "ANY"}
            THEN TuneSlots(ChangeSlot(S, i, [c EXCEPT !.mode = "TEMP"]), L, i + 1)
            ELSE TuneSlots(S, L, i + 1)

TuneStack(S, L) == TuneSlots(S, L, 1)

\* The assertions of tune_stack and tune_stack_slot when the stack S arrives
\* at label L: the same depth, and after the moves every slot equals the
\* saved one unless one of them is ANY.
TuneOK(S, L) ==
    /\ Len(S.stack) = S.free[L] - 1
    /\ \A i \in DOMAIN S.stack :
          \/ S.stack[i].mode = "ANY"
          \/ S.saved[L][i].mode \in {"ANY", "TEMP"}
          \/ SlotEq(S.saved[L][i], S.stack[i])

\* opt_case_dispatch jumps without tune_stack: the stack must already be
\* the saved one.
SameStackOK(S, L) ==
    /\ Len(S.stack) = S.free[L] - 1
    /\ \A i \in DOMAIN S.stack :
          \/ S.stack[i].mode = "ANY"
          \/ S.saved[L][i].mode = "ANY"
          \/ SlotEq(S.saved[L][i], S.stack[i])

\* translate: the walk from position p; un is unreachable_code_p.  Returns
\* whether every label arrival and every catch bound on the way is sound.
RECURSIVE GenWalk(_, _, _)
GenWalk(S, p, un) ==
    IF p >= Size THEN [joins |-> TRUE, bounds |-> TRUE]
    ELSE LET lab == S.labelType[p] # NoLabel
             i == Insn(p)
         IN IF un /\ ~lab THEN GenWalk(S, p + 1, TRUE)
            ELSE LET S1 == CASE lab /\ un -> RestoreStackSlots(S, p)
                             [] lab -> TuneStack(S, p)
                             [] OTHER -> S
                     S2 == GenStep([S1 EXCEPT !.depth = Len(S1.stack)], p)
                     br == IF i.op = "branchif" \/ (i.op = "jump" /\ Insn(i.a).op # "leave")
                           THEN {i.a} ELSE {}
                     cs == IF i.op = "case_dispatch" THEN {i.ts[k] : k \in DOMAIN i.ts} \cup {i.a}
                           ELSE {}
                     S3 == IF br = {} THEN S2 ELSE TuneStack(S2, i.a)
                     rest == GenWalk(S3, p + 1, i.op \in {"jump", "leave"})
                 IN [joins |-> /\ (lab /\ ~un) => TuneOK(S, p)
                               /\ \A L \in br : TuneOK(S2, L)
                               /\ \A L \in cs : SameStackOK(S2, L)
                               /\ rest.joins,
                     bounds |-> /\ S1.bound[p] => \A k \in DOMAIN S1.stack : S1.stack[k].mode = "TEMP"
                                /\ rest.bounds]

\* translate() starts with an empty stack.
Generation == GenWalk([a EXCEPT !.stack = <<>>, !.locCount = [l \in Locals |-> 0]], 0, FALSE)

-----------------------------------------------------------------------------
(***************************************************************************)
(* Properties.                                                             *)
(***************************************************************************)
SlotType == [mode : {"ANY", "SELF", "VAL", "STR", "LOC", "TEMP"}, v : Nat, src : Nat]

TypeOK ==
    /\ prog \in Programs
    /\ pc \in {"catch", "iter", "scan", "pop", "done"}
    /\ pos \in 0..Size
    /\ startPos \in 0..(Size - 1)
    /\ ci \in 1..(Len(prog.catch) + 1)
    /\ a.stack \in Seq(SlotType)
    /\ a.locCount \in [Locals -> Nat]
    /\ a.depth \in Nat
    /\ a.maxDepth \in Nat
    /\ a.labelType \in [0..(Size - 1) -> {NoLabel, ContLabel, BranchLabel}]
    /\ a.free \in [0..(Size - 1) -> Nat]
    /\ a.saved \in [0..(Size - 1) -> Seq(SlotType)]
    /\ a.useTemp \in [0..(Size - 1) -> BOOLEAN]
    /\ a.processed \in [0..(Size - 1) -> BOOLEAN]
    /\ a.bound \in [0..(Size - 1) -> BOOLEAN]
    /\ a.worklist \in Seq(0..(Size - 1))
    /\ a.changed \in BOOLEAN

\* loc_stack_count[l] is the number of LOC l slots on the emulated stack
\* after every step: prepare_local_assign trusts it to decide that no slot
\* aliases a local about to be assigned.
LocCountMatchesStack ==
    \A l \in Locals :
        a.locCount[l] = Cardinality({i \in DOMAIN a.stack : IsLoc(a.stack[i], l)})

\* After setlocal l (level 0) no slot still names local l: a value pushed
\* from l earlier (a, b = b, a; a local live across a loop body) is not
\* overwritten by the assignment.
LocalAssignClearsAliases ==
    [][ (pc = "scan" /\ pos' = pos + 1 /\ Insn(pos).op = "setlocal" /\ Insn(pos).b = 0)
          => \A i \in DOMAIN a'.stack : ~IsLoc(a'.stack[i], Insn(pos).a) ]_vars

\* The do-while loop of find_stack_values_on_labels terminates.
AnalysisTerminates == <>(pc = "done")

\* Once the fixpoint is reached, every label translate() reaches by fall
\* through or by a branch gets a stack that tune_stack can reconcile with
\* the saved one, and opt_case_dispatch targets get exactly the saved one.
JoinsMaterialized == pc = "done" => Generation.joins

\* Once the fixpoint is reached, every slot on the stack at a reachable
\* catch region bound is a temporary, as the exception handler expects.
CatchBoundsTemp == pc = "done" => Generation.bounds
=============================================================================
