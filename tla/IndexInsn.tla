------------------------------ MODULE IndexInsn ------------------------------
(***************************************************************************)
(* One index insn site of the RTL executor (rtl_exec.c): recv[key]        *)
(* (ind, indi, inds) or recv[key] = el (indset, indseti, indsets), with    *)
(* the key in a register, a fixnum immediate or a string literal.          *)
(*                                                                         *)
(* The generic insn (common_ind, common_indset) takes a fast path for an   *)
(* Array receiver with a fixnum key and for a Hash receiver, rewriting     *)
(* itself into the array or hash speculative insn (aind, hindi, hinds ...),*)
(* and dispatches the method otherwise.  A speculative insn re-checks the  *)
(* receiver's class, the redefinition flags and its own extra conditions   *)
(* (index in range, array neither frozen nor shared, hash not compared by *)
(* identity); on a miss the dispatch loop substitutes the unchangeable    *)
(* insn (uind, uindseti ...) and re-executes the position.                 *)
(*                                                                         *)
(* The heap is one Array and one Hash that the insn reads and writes and   *)
(* that the rest of the program may freeze, share or switch to            *)
(* compare_by_identity between executions.  A string key is a record with *)
(* an identity: "lit" is the insn's own literal, "new" a fresh copy        *)
(* (rb_str_resurrect), "obj" a string held in a register.                 *)
(***************************************************************************)
EXTENDS Integers, Sequences, FiniteSets, TLC

CONSTANTS
    W,            \* bits of an unsigned long (FIX2ULONG)
    Sites,        \* [op |-> "ind" or "indset", insn |-> the generated insn, imm]
    Receivers,    \* VALUEs the receiver register may hold
    RegKeys,      \* VALUEs the key register may hold
    Elems,        \* VALUEs that may be stored
    AryInits,     \* initial arrays: [elems, frozen, shared]
    HashInits     \* initial hashes: [entries, cbi]

VARIABLES
    site, insn,   \* the site and the insn currently at its position
    redefined,    \* <<class, bop>> pairs whose basic operator is redefined
    mjit_bop_redefined_p,
    ary, hsh,     \* the heap
    pending,      \* operands and heap of an execution to repeat after a miss
    out           \* ghost: what the last execution did and what the method does

vars == <<site, insn, redefined, mjit_bop_redefined_p, ary, hsh, pending, out>>

None == [t |-> "none"]
Nil == [t |-> "nil"]
Raise == [t |-> "raise"]
Fix(n) == [t |-> "fix", n |-> n]
Str(id) == [t |-> "str", id |-> id]
AryRef == [t |-> "ary"]
HashRef == [t |-> "hash"]
Class(v) == CASE v.t = "fix" -> "Integer" [] v.t = "nil" -> "NilClass"
              [] v.t = "str" -> "String" [] v.t = "ary" -> "Array" [] v.t = "hash" -> "Hash"
SPECIAL_CONST_P(v) == v.t \in {"fix", "nil"}
rb_str_resurrect(v) == Str("new")
FIX2ULONG(v) == v.n % (2 ^ W)

Nop == "nop"

(***************************************************************************)
(* Ruby's Array#[], Array#[]=, Hash#[] and Hash#[]= on the heap.  A key    *)
(* of a hash compared by identity matches only the same object, and a     *)
(* fresh string is no object stored before; otherwise strings match by    *)
(* content (there is one content).                                         *)
(***************************************************************************)
KeyEq(h, k1, k2) ==
    IF h.cbi THEN k1 = k2 /\ ~(k1.t = "str" /\ k1.id = "new")
             ELSE k1.t = k2.t /\ (k1.t = "fix" => k1.n = k2.n)
rb_hash_aref(h, k) ==
    LET m == {e \in h.entries : KeyEq(h, e.k, k)}
    IN  IF m = {} THEN Nil ELSE (CHOOSE e \in m : TRUE).v
\* A hash not compared by identity keeps a frozen copy of a string key
\* (rb_hash_key_str), whichever string object was given.
rb_hash_aset(h, k, v) ==
    LET key == IF ~h.cbi /\ k.t = "str" THEN Str("frz") ELSE k
    IN  [h EXCEPT !.entries = {e \in @ : ~KeyEq(h, e.k, k)} \cup {[k |-> key, v |-> v]}]
rb_ary_entry_internal(a, i) ==
    LET j == IF i < 0 THEN i + Len(a.elems) ELSE i
    IN  IF 0 <= j /\ j < Len(a.elems) THEN a.elems[j + 1] ELSE Nil
Max2(a, b) == IF a > b THEN a ELSE b
\* rb_ary_store: raises on a frozen array or an index before the start,
\* pads with nil past the end, and unshares a shared array.
rb_ary_store(a, i, v) ==
    LET len == Len(a.elems)
        j == IF i < 0 THEN i + len ELSE i
    IN  IF a.frozen \/ j < 0 THEN Raise
        ELSE [a EXCEPT !.shared = FALSE,
                       !.elems = [p \in 1..Max2(len, j + 1) |->
                                    IF p = j + 1 THEN v ELSE IF p <= len THEN a.elems[p] ELSE Nil]]

\* What an execution leaves: its result and the heap.
Eff(r, a, h) == [res |-> r, ary |-> a, hsh |-> h]
Store(r) == IF r = Raise THEN Eff(Raise, ary, hsh) ELSE Eff(Nil, r, hsh)
Unchanged(r) == Eff(r, ary, hsh)

(***************************************************************************)
(* The method dispatch (op2_call, op3_call): the user's method when the   *)
(* receiver's class redefines the operator, Ruby's own otherwise.  An     *)
(* Array index that is not a fixnum raises TypeError; Integer#[] and      *)
(* String#[] and []= are calls the model does not compute.                *)
(***************************************************************************)
Bop(op) == IF op = "ind" THEN "aref" ELSE "aset"
op_call(red, op, x, k, el) ==
    CASE <<Class(x), Bop(op)>> \in red -> Unchanged([t |-> "user", x |-> x, k |-> k])
      [] x = AryRef /\ k.t # "fix" -> Unchanged(Raise)
      [] x = AryRef /\ op = "ind" -> Unchanged(rb_ary_entry_internal(ary, k.n))
      [] x = AryRef -> Store(rb_ary_store(ary, k.n, el))
      [] x = HashRef /\ op = "ind" -> Unchanged(rb_hash_aref(hsh, k))
      [] x = HashRef -> Eff(Nil, ary, rb_hash_aset(hsh, k, el))
      [] OTHER -> Unchanged([t |-> "call", x |-> x, k |-> k])

BASIC_OP_UNREDEFINED_P(bop, cls) == <<cls, bop>> \notin redefined
Unredefined(bop, cls) == ~mjit_bop_redefined_p \/ BASIC_OP_UNREDEFINED_P(bop, cls)
IsArray(x) == ~SPECIAL_CONST_P(x) /\ x = AryRef
IsHash(x) == ~SPECIAL_CONST_P(x) /\ x = HashRef

(***************************************************************************)
(* The generic insns.  Each form passes whether its key is known to be a  *)
(* fixnum or a string and the insns to rewrite itself to (ind_f, indi_f,  *)
(* indsets_f ...); the unchangeable forms pass nop for both.              *)
(***************************************************************************)
IndForms ==
    [ind     |-> [fix |-> FALSE, str |-> FALSE, a |-> "aind",     h |-> "hind"],
     uind    |-> [fix |-> FALSE, str |-> FALSE, a |-> Nop,        h |-> Nop],
     indi    |-> [fix |-> TRUE,  str |-> FALSE, a |-> "aindi",    h |-> "hindi"],
     uindi   |-> [fix |-> TRUE,  str |-> FALSE, a |-> Nop,        h |-> Nop],
     inds    |-> [fix |-> FALSE, str |-> TRUE,  a |-> Nop,        h |-> "hinds"],
     uinds   |-> [fix |-> FALSE, str |-> TRUE,  a |-> Nop,        h |-> Nop]]
IndsetForms ==
    [indset  |-> [fix |-> FALSE, str |-> FALSE, a |-> "aindset",  h |-> "hindset"],
     uindset |-> [fix |-> FALSE, str |-> FALSE, a |-> Nop,        h |-> Nop],
     indseti |-> [fix |-> TRUE,  str |-> FALSE, a |-> "aindseti", h |-> "hindseti"],
     uindseti |-> [fix |-> TRUE, str |-> FALSE, a |-> Nop,        h |-> Nop],
     indsets |-> [fix |-> FALSE, str |-> TRUE,  a |-> Nop,        h |-> "hindsets"],
     uindsets |-> [fix |-> FALSE, str |-> TRUE, a |-> Nop,        h |-> Nop]]
Forms == IndForms @@ IndsetForms
Generic == DOMAIN Forms

\* The insn after a fast path: vm_change_insn unless the id is nop.
Change(id) == IF id = Nop THEN insn ELSE id

\* A generic step's outcome: the effect and the insn left at the position.
Done(e, i, path) == [eff |-> e, insn |-> i, path |-> path]

common_ind(x, k, f) ==
    CASE IsArray(x) /\ Unredefined("aref", "Array") /\ (f.fix \/ k.t = "fix") ->
            Done(Unchanged(rb_ary_entry_internal(ary, k.n)), Change(f.a), "ary")
      [] IsHash(x) /\ Unredefined("aref", "Hash") /\ (~f.str \/ ~hsh.cbi) ->
            Done(Unchanged(rb_hash_aref(hsh, k)), Change(f.h), "hash")
      [] OTHER -> Done(op_call(redefined, "ind", x, IF f.str THEN rb_str_resurrect(k) ELSE k, Nil), insn, "call")

\* The hash branch rewrites only when ary_insn_id is not nop (rtl_exec.c
\* common_indset), so indsets, whose array insn is nop, keeps its insn.
common_indset(x, k, el, f) ==
    CASE IsArray(x) /\ Unredefined("aset", "Array") /\ (f.fix \/ k.t = "fix") ->
            Done(Store(rb_ary_store(ary, k.n, el)), Change(f.a), "ary")
      [] IsHash(x) /\ BASIC_OP_UNREDEFINED_P("aset", "Hash") /\ (~f.str \/ ~hsh.cbi) ->
            Done(Eff(Nil, ary, rb_hash_aset(hsh, k, el)), IF f.a # Nop THEN Change(f.h) ELSE insn, "hash")
      [] OTHER -> Done(op_call(redefined, "indset", x, IF f.str THEN rb_str_resurrect(k) ELSE k, el), insn, "call")

(***************************************************************************)
(* The speculative insns: the effect, or Qundef on a miss.                *)
(***************************************************************************)
Qundef == [t |-> "undef"]
Len_ == Len(ary.elems)
\* An index from the end, as aindi and aindseti take it.
FromEnd(n) == IF n < 0 THEN n + Len_ ELSE n
InRange(o) == 0 <= o /\ o < Len_
Writable == ~ary.frozen /\ ~ary.shared
SetElem(o, el) == Eff(Nil, [ary EXCEPT !.elems[o + 1] = el], hsh)

aind(x, k) ==
    IF IsArray(x) /\ Unredefined("aref", "Array") /\ k.t = "fix" /\ FIX2ULONG(k) < Len_
    THEN Unchanged(ary.elems[FIX2ULONG(k) + 1]) ELSE Qundef
\* Mutant: hind does not re-check that Hash#[] is unredefined.
hind_noredef(x, k) ==
    IF IsHash(x) THEN Unchanged(rb_hash_aref(hsh, k)) ELSE Qundef
hind(x, k) ==
    IF IsHash(x) /\ Unredefined("aref", "Hash") THEN Unchanged(rb_hash_aref(hsh, k)) ELSE Qundef
aindi(x, k) ==
    IF IsArray(x) /\ Unredefined("aref", "Array") /\ InRange(FromEnd(k.n))
    THEN Unchanged(ary.elems[FromEnd(k.n) + 1]) ELSE Qundef
hinds(x, k) ==
    IF IsHash(x) /\ Unredefined("aref", "Hash") /\ ~hsh.cbi
    THEN Unchanged(rb_hash_aref(hsh, k)) ELSE Qundef
\* Mutant: aindset writes a frozen or shared array in place.
aindset_unchecked(x, k, el) ==
    IF IsArray(x) /\ Unredefined("aset", "Array") /\ k.t = "fix" /\ FIX2ULONG(k) < Len_
    THEN SetElem(FIX2ULONG(k), el) ELSE Qundef
aindset(x, k, el) ==
    IF IsArray(x) /\ Unredefined("aset", "Array") /\ k.t = "fix" /\ Writable /\ FIX2ULONG(k) < Len_
    THEN SetElem(FIX2ULONG(k), el) ELSE Qundef
hindset(x, k, el) ==
    IF IsHash(x) /\ Unredefined("aset", "Hash") THEN Eff(Nil, ary, rb_hash_aset(hsh, k, el)) ELSE Qundef
aindseti(x, k, el) ==
    IF IsArray(x) /\ Unredefined("aset", "Array") /\ Writable /\ InRange(FromEnd(k.n))
    THEN SetElem(FromEnd(k.n), el) ELSE Qundef
hindsets(x, k, el) ==
    IF IsHash(x) /\ Unredefined("aset", "Hash") /\ ~hsh.cbi
    THEN Eff(Nil, ary, rb_hash_aset(hsh, k, el)) ELSE Qundef

\* Each speculative insn, and the insn it names for re-execution on a miss.
Speculative(i, x, k, el) ==
    CASE i = "aind"     -> aind(x, k)          [] i = "hind"     -> hind(x, k)
      [] i = "aindi"    -> aindi(x, k)         [] i = "hindi"    -> hind(x, k)
      [] i = "hinds"    -> hinds(x, k)         [] i = "aindset"  -> aindset(x, k, el)
      [] i = "hindset"  -> hindset(x, k, el)   [] i = "aindseti" -> aindseti(x, k, el)
      [] i = "hindseti" -> hindset(x, k, el)   [] i = "hindsets" -> hindsets(x, k, el)
Unchangeable ==
    [aind |-> "uind", hind |-> "uind", aindi |-> "uindi", hindi |-> "uindi", hinds |-> "uinds",
     aindset |-> "uindset", hindset |-> "uindset", aindseti |-> "uindseti",
     hindseti |-> "uindseti", hindsets |-> "uindsets"]

(***************************************************************************)
(* Executions.  REF is what the method dispatch does on the heap and the  *)
(* redefinitions of the first attempt; a string literal key is a fresh    *)
(* copy each time Ruby evaluates it.                                       *)
(***************************************************************************)
Complete(e, ref, path) ==
    /\ ary' = e.ary /\ hsh' = e.hsh
    /\ pending' = None
    /\ out' = [got |-> e, ref |-> ref, path |-> path]

Run(x, k, el, ref) ==
    IF insn \in Generic
    THEN LET d == IF site.op = "ind" THEN common_ind(x, k, Forms[insn])
                                     ELSE common_indset(x, k, el, Forms[insn])
         IN  insn' = d.insn /\ Complete(d.eff, ref, d.path)
    ELSE LET r == Speculative(insn, x, k, el)
         IN  IF r = Qundef
             THEN /\ insn' = Unchangeable[insn]
                  /\ pending' = [x |-> x, k |-> k, el |-> el, ref |-> ref]
                  /\ UNCHANGED <<ary, hsh, out>>
             ELSE UNCHANGED insn /\ Complete(r, ref, "spec")

Keys == IF site.imm = None THEN RegKeys ELSE {site.imm}
Stored == IF site.op = "ind" THEN {Nil} ELSE Elems
MethodKey(k) == IF k.t = "str" /\ k.id = "lit" THEN rb_str_resurrect(k) ELSE k

\* The dispatch loop reaches the insn with fresh operands.
Execute ==
    /\ pending = None
    /\ \E x \in Receivers, k \in Keys, el \in Stored :
          Run(x, k, el, op_call(redefined, site.op, x, MethodKey(k), el))
    /\ UNCHANGED <<site, redefined, mjit_bop_redefined_p>>

\* The dispatch loop re-executes the same position after a miss.
Reexecute ==
    /\ pending # None
    /\ Run(pending.x, pending.k, pending.el, pending.ref)
    /\ UNCHANGED <<site, redefined, mjit_bop_redefined_p>>

\* Ruby code between executions: redefine Array#[]/[]= or Hash#[]/[]=,
\* freeze the array, take a shared copy of it, or make the (empty) hash
\* compare by identity.
Redefine ==
    /\ pending = None
    /\ \E p \in ({"Array", "Hash"} \X {"aref", "aset"}) \ redefined :
          redefined' = redefined \cup {p} /\ mjit_bop_redefined_p' = TRUE
    /\ UNCHANGED <<site, insn, ary, hsh, pending, out>>

Freeze ==
    /\ pending = None /\ ~ary.frozen
    /\ ary' = [ary EXCEPT !.frozen = TRUE]
    /\ UNCHANGED <<site, insn, redefined, mjit_bop_redefined_p, hsh, pending, out>>

Share ==
    /\ pending = None /\ ~ary.shared
    /\ ary' = [ary EXCEPT !.shared = TRUE]
    /\ UNCHANGED <<site, insn, redefined, mjit_bop_redefined_p, hsh, pending, out>>

CompareByIdentity ==
    /\ pending = None /\ ~hsh.cbi /\ hsh.entries = {}
    /\ hsh' = [hsh EXCEPT !.cbi = TRUE]
    /\ UNCHANGED <<site, insn, redefined, mjit_bop_redefined_p, ary, pending, out>>

Init ==
    /\ site \in Sites
    /\ insn = site.insn
    /\ redefined = {}
    /\ mjit_bop_redefined_p = FALSE
    /\ ary \in AryInits
    /\ hsh \in HashInits
    /\ pending = None
    /\ out = None

Next == Execute \/ Reexecute \/ Redefine \/ Freeze \/ Share \/ CompareByIdentity

Spec == Init /\ [][Next]_vars /\ WF_vars(Reexecute)

(***************************************************************************)
(* Properties.                                                             *)
(***************************************************************************)
\* Whatever the site has been rewritten to, and whatever the program did to
\* the array, the hash and the operators before, each completed execution
\* returns and stores what Ruby's [] or []= does when the insn is first
\* reached: a speculation miss leaves no trace, a frozen or shared array is
\* never written in place, negative and out-of-range indices read and
\* write where Array#[] and #[]= do, and a string literal key is never
\* used where its identity would show (common_ind, common_indset and the
\* speculative aind ... hindsets).
IndexAgreesWithMethod == out # None => out.got = out.ref

\* A generic insn that takes the hash fast path rewrites itself into its
\* hash speculative insn whenever it has one, as the comment of common_ind
\* says and as the hash_insn_id argument of every []= form (hindset,
\* hindseti, hindsets) asks of common_indset.
HashFastPathSpeculates ==
    [][ (Execute \/ Reexecute) /\ insn \in Generic /\ out' # None /\ out'.path = "hash" /\ Forms[insn].h # Nop
          => insn' = Forms[insn].h ]_vars
====
