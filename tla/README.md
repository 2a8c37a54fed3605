# TLA+ models of rtl-mjit

This project holds model-checked TLA+ specifications of the RTL
(register transfer language) variant of the Ruby VM in `src/`.

- `src/rtl_gen.c` translates a method's stack bytecode (YARV iseq) into
  RTL code.
- `src/rtl_exec.c` implements the RTL instructions that the dispatch
  loop executes.

## The system

| Part | Code | What it does |
|---|---|---|
| Abstract stack analyzer | `rtl_gen.c` 195–1155 | `find_stack_values_on_labels` emulates the VM stack over the iseq. It is a forward dataflow fixpoint over labels. Its slots record where a value lives: a local (`LOC`), `self`, a constant, or a temporary (`TEMP`). At a join, `update_saved_stack_slots` merges the stack saved at a label. Where two paths disagree, it marks the producing insn to write a temporary (`use_only_temp_result_p`). |
| Code generator | `rtl_gen.c` 1160–2990 | `translate` walks the iseq again with the same emulated stack and emits RTL. At labels and before branches, `tune_stack` moves slots into the temporaries that the analysis saved. `opt_case_dispatch` targets and catch-region bounds must need no moves. |
| Driver and tables | `rtl_gen.c` 2890–3169 | `rtl_gen` calls the analyzer and `translate`, then installs `rtl_encoded`. After that it relocates branches and builds the insn-info and catch tables. An allocation failure longjmps to `rtl_gen_jump_buf`. |
| Variable addressing | `rtl_exec.c` 1–330 | Addresses locals and temporaries relative to the frame. The base depends on `mjit_ep_neq_bp_p`. |
| Caches and constants | `rtl_exec.c` 330–480 | Constant and inline caches are checked against the VM's global constant state and the key cref. The JIT tests a copy of the cache. |
| Ivar calls | `rtl_exec.c` 4050–4080 | JIT code calls an `attr_reader`/`attr_writer` by the ivar index kept in the call cache. |
| Comparisons, branches | `rtl_exec.c` 1040–2180 | Compare and compare-and-branch insns, each with generic, speculative (`i…`, `f…`) and unchangeable (`u…`) variants. |
| Arithmetic | `rtl_exec.c` 2180–2830 | `+ - * / %` follow the same three-variant scheme. It is described below. |
| Index, strings, calls | `rtl_exec.c` 2830–4109 | `ind`/`indset` with array and hash speculation, string and array helpers, method calls, returns and the hand-off to JIT code. |

How the parts interact:

- The analyzer decides, for every producing insn, whether it writes a
  temporary.
- The generator relies on the stacks saved by the analyzer being
  reachable by moves alone.
- At run time, a generic insn that takes a fast path rewrites its own
  opcode with `vm_change_insn` into the speculative variant.
- A speculative variant re-checks only the operand tags and the
  redefinition flags. On a miss it sets `*new_insn` to the unchangeable
  variant. The dispatch loop stores that variant and executes the same
  position again. The dispatch loop is not in `src/`; it is described in
  `spec.md` section 4.3.

## Modules

### `StackAnalyzer` — the analysis and what translate needs of it

**State.** The state is the analyzer's global state, gathered in one
record `a`:

- the emulated stack and `loc_stack_count`;
- `pos_stack_free` and `pos_label_type`;
- `saved_stack_slots` and `use_only_temp_result_p`;
- `label_processed_p` and the catch-bound flags;
- the label worklist and `stack_on_label_change_p`.

The other variables are `pc`, a program counter over the phases of
`find_stack_values_on_labels`, and `pos`/`startPos`, the scan position.

**Actions.** Each action is one step of the code:

| Action | Code |
|---|---|
| `SkipCatchEntry`, `SetupCatchEntry`, `CatchTableDone` | one entry of `setup_labels_from_catch_table` each |
| `StartIteration` | the head of the do-while loop |
| `ScanInsn` | one turn of the inner `for`: arrival at a label with the merge or catch-bound forcing, then `update_stack_by_insn` |
| `FallThroughStop` | the `break` on an unchanged, processed label |
| `PopLabel` | taking the smallest queued label and `restore_stack_slots` |
| `EndIteration` | the end of the loop |

**Properties that check the generator.** `Generation` re-runs the walk of
`translate` with the generator's own stack step `GenStep`. `GenStep` reads
`use_only_temp_result_p` as the analysis left it. Its `dup` and `topn`
push a copy of the slot, as `translate_stack_insn` does
(`rtl_gen.c:2311`, `2390`). The analysis's `StackStep` pushes a TEMP there
when the insn's line events cannot be combined. The walk covers:

- `tune_stack` at every label it reaches and before `branchif`/`jump`;
- the restore after unreachable code;
- the exact-stack check of `opt_case_dispatch` targets;
- the all-TEMP check at catch bounds.

`JoinsMaterialized` and `CatchBoundsTemp` check these properties on the
analysis's final state.

**Programs.** `prog` is chosen from `Programs`. `MC_StackAnalyzer` builds
iseq families for these source shapes:

- `c ? x : y`, and the same nested;
- `foo(x, l, (l = y))`, with the call on one line or with the
  assignment's value on a line of its own (so the analysis makes the
  `dup` copy a TEMP and the generator does not);
- a loop assigning a local inside a rescue region;
- swap, `setn` and `expandarray` assignments;
- a rescue continuation with a garbage ensure entry;
- a `case` with `opt_case_dispatch`, with line events that force
  temporaries.

The operands vary over constants, `self` and outer-level and method
locals.

### `SpecInsn` — arithmetic, comparison and not insns and speculative rewriting

**State.** One insn site of the iseq. Sites do not share state other than
the redefinition flags, so one site per behaviour loses nothing. `site`
is its kind (`arith`, `cmp`, `bcmp` for compare-and-branch, or `not`), its
operation, for `bcmp` whether it branches on true (`bt…`) or on false
(`bf…`), and its immediate:

- none, for `plus` and friends;
- a fixnum, for `plusi`;
- a flonum, for `plusf`.

`variant` is one of:

- `gen`, the changeable generic insn;
- `i` or `f`, the speculative insns (`iplus`, `fplusf` …);
- `n`, the speculative `spec_not`;
- `u`, the unchangeable insn (`uplus` …, `unot`).

The other state:

- `redefined`: the classes whose operator has been redefined, that is,
  where `BASIC_OP_UNREDEFINED_P` fails;
- `mjit_bop_redefined_p`;
- `pending`: operands of an execution to repeat after a miss;
- `method_state`, the global method state (`GET_GLOBAL_METHOD_STATE()`);
- `class_serial`, the serial of each class (`RCLASS_SERIAL`), unique
  across classes;
- `cc`, the site's call cache: the method state and class serial it was
  filled under and the `!` it found;
- a ghost `out`: the last result next to what `op2_call` returns on the
  same operands.

**Data.** VALUEs are W-bit words. A fixnum n is `2n+1 mod 2^W`.

- `fix_num_plus` and `spec_fix_num_plus` are modelled on the words with
  the bit operations of the code (the `Bitwise` module).
- The other fixnum paths go through `FIX2LONG`/`LONG2FIX`, with C's
  truncating `/` and `%`.
- Double arithmetic is left uninterpreted. A Float result is the term
  `<<op, d1, d2>>`, so the model tells apart which operation a path
  computes, but not its rounding.
- Whether a double result fits a flonum (`spec_dbl2num`) is a
  nondeterministic choice.
- `op2_call`, the method dispatch, is Ruby's semantics of the operator:
  - floor division;
  - an exception on a zero divisor;
  - the user's method after a redefinition.

**Actions.**

| Action | Code |
|---|---|
| `Execute` | The dispatch loop executes the insn: `do_arithm` or `common_cmp` for `gen`/`u` (with `change_p` for `gen`), `do_spec_fix_arithm`/`common_spec_fix_cmp` for `i`, `do_spec_flo_arithm`/`common_spec_flo_cmp` for `f`. A compare-and-branch insn also records its branch decision (`do_bcmp`, `spec_bcmp_finish`). |
| `Reexecute` | The re-execution of the same position after a miss. |
| `Redefine` | Ruby code redefines the operator of a class (Integer, Float, `==` of NilClass, or `!` of any operand class), which also sets `mjit_bop_redefined_p` and bumps the class's serial (`rb_clear_method_cache_by_class`). |
| `MethodStateBump` | A method defined in Object or Kernel bumps the global method state, which makes every call cache stale. |

**The not insn.** `common_not` looks the method up through the call cache
(`vm_search_method` refills it unless both the method state and the
receiver's class serial match) and, if it is `rb_obj_not`, returns the
negated `RTEST`, rewriting `not` to `spec_not`. Otherwise it dispatches.
`spec_not_f` trusts the cache while `check_cc_attr_p` finds it current;
when it is stale it searches again, and a `!` other than `rb_obj_not` is
a miss that rewrites the insn to `unot`. The lookup functions belong to
the Ruby VM and are modelled from their documented behaviour.

**Comparisons.** `fix_num_cmp` compares the tagged words as signed words,
as the C casts to `SIGNED_VALUE` do. Off the numeric and String paths,
`eq` compares identities while the receiver's `==` is still
`BasicObject#==` (`ObjEqualP`; nil is the operand that reaches it).
`op2_call` returns the built-in comparison, String equality, identity for
nil, or an uninterpreted method call.

### `RtlGenDriver` — line events, the insn info table and the driver

**State.**

- `prog`: the stack code and its `insns_info` table. A stack insn is
  abstracted to what the generator emits for it: the lengths of the
  moves `tune_stack` emits before it (`pre`), of its own RTL (`emit`),
  whether it is reachable (`live`), and its branch target (`br`).
- The generator's arrays: `rtl` (`iseq_rtl`, as insn lengths), `evpos`
  and `evs` (`rtl_insn_event_positions`, `rtl_insn_events`), `offs`
  (`new_insn_offsets`), `brnext` (each branch's `next_insn_pc`).
- The iseq as rtl_gen leaves it: the set `iseq` of fields written,
  the relocated branch operands `brdest`, the info table `table`, and
  `freed`, the blocks freed after being stored.
- `phase`, the step of `rtl_gen`, and `result`.

**Actions.**

| Action | Code |
|---|---|
| `CreateCdData` | `create_cd_data` |
| `Analyze` | the `insn_info_entry_ind` setup and `find_stack_values_on_labels` |
| `TranslateInsn` | one position of `translate_stack_insn` up to its insn switch: `tune_stack`, the unreachable-code exit, `pos_event`, `combined_event_p` or the separating nop, `add_event`, `new_insn_offsets`; then the insn's RTL |
| `VarrFailure` | `varr_malloc_failure`'s longjmp to `rtl_gen_jump_buf` |
| `TranslateDone` | the end of `translate` |
| `AllocRtlEncoded` | allocating and storing `rtl_encoded`, `rtl_size`, `temp_vars_num` |
| `Relocate` | the branch relocation loop and `setup_opt_table` |
| `CreateInsnInfoTable` | `create_rtl_insn_info_table`: size, two allocations, then the table computed by `ShiftedPositions`, `InfoTableSize` (counting pass) and `FillInfoTable` (filling pass) |
| `CreateCatchTable` | `create_rtl_catch_table` |
| `Returned` | the caller of `rtl_gen` after it returned or raised |

Every allocation fails in two ways. It can return NULL, which the code
tests for. It can also raise `NoMemoryError`, which is what CRuby's
`ALLOC_N`, `xmalloc` and `ruby_xmalloc` do; then `rtl_gen` does not
return at all.

### `IndexInsn` — `[]` and `[]=` insns and their array/hash speculation

**State:**

- `site`, the generated insn: `ind`, `indi` or `inds` for `recv[key]`,
  and `indset`, `indseti` or `indsets` for `recv[key] = el`. The key is
  in a register, a fixnum immediate or a string literal. The choice is
  `make_imm_id` in `rtl_gen.c`.
- `insn`, the insn now at the position.
- The redefined pairs `<<class, bop>>`, for `Array`/`Hash` × `[]`/`[]=`,
  and `mjit_bop_redefined_p`.
- The heap: one Array `ary`, which has elements and may be frozen or
  shared, and one Hash `hsh`, which has entries and may compare by
  identity.
- `pending`, which keeps the operands across a miss.
- A ghost `out`.

**Actions:**

- `Execute` runs the insn. Each generic form (`IndForms`, `IndsetForms`)
  passes its flags and its speculative insn ids to `common_ind` or
  `common_indset`, as `ind_f` … `uindsets_f` do.
- A speculative insn (`aind` … `hindsets`) returns its effect, or
  `Qundef` on a miss. On a miss the position gets the insn of
  `Unchangeable`, and `Reexecute` runs it.
- Ruby code between executions is modelled by `Redefine`, `Freeze`,
  `Share` (taking a shared copy) and `CompareByIdentity`. That last one
  happens only on an empty hash, because the identity of string keys
  stored before the switch is not modelled.

**The reference:** `op_call` is Ruby's `Array#[]`, `#[]=`, `Hash#[]`
and `#[]=`:

- `rb_ary_store` pads with nil, raises on a frozen array or an index
  before the start, and unshares;
- a hash not compared by identity keeps a frozen copy of a string key;
- a string literal is a fresh string (`rb_str_resurrect`) each time Ruby
  evaluates it.

`out` records the effect (result, array, hash) and the reference. The
reference is computed when the loop first reaches the insn, so a miss
that changed the heap would show.

### `DispatchInsn` — what an operator insn promises the dispatch loop

`DispatchInsn` is the abstract specification that `SpecInsn` refines. It
has four variables: the site, the set of redefined classes, `inflight`,
and `out`. `inflight` holds the operands of a deferred execution, or
`None`. `out` holds the last result and whether the insn jumped.

Its actions:

- `Call` returns the dispatch result `Dispatch(redefined, bop, x, y)` on
  operands the loop supplies. For an immediate form, the second operand
  is the immediate.
- `Defer` keeps the operands of an execution.
- `Resume` returns the dispatch result on the kept operands.
- `Redefine` adds a class. It happens only when no execution is
  deferred.

A compare-and-branch insn jumps when the truth of the result matches its
sense. The spec carries `WF(Resume)`.

There is no rewriting, no ghost reference and no flag.
`mjit_bop_redefined_p` and `variant` are hidden by the refinement mapping
in `SpecInsn`. The mapping has no other hidden state.

### `ConstCache` and `ConstLookup` — constant caches

`ConstCache` models one constant-loading insn site of `rtl_exec.c` with
the VM state it shares with every other site. Its variables:

- `konst`: the constant's binding in each scope.
- `gs`: `GET_GLOBAL_CONSTANT_STATE()`.
- `mc`: `ruby_vm_const_missing_count`.
- `ic`: the site's cache, with its serial, key cref and value.
- `jit`: the copy of `ic` that JIT code was compiled with.
- `pending`: a `get_inline_cache` miss whose path runs next.
- `out`: the last load.

`site.form` chooses the insn form:

- `"ld"` is `const_cached_val_ld`.
- `"getset"` is `get_inline_cache`, the path, then `set_inline_cache`.

| Action | Code |
|---|---|
| `const_cached_val_ld_f` | the hit test (serial equals state, key cref NULL or equal to the current cref), else `vm_get_ev_const` and the refill (`rtl_exec.c:350–372`) |
| `get_inline_cache_f` | `vm_ic_hit_p`; a miss assigns nil and goes on to the path |
| `set_inline_cache_f` | the path's uncached lookup, then `vm_ic_update`, which stores the same triple as the refill |
| `const_ld_val_f` | another site's uncached load. It calls `const_missing` and raises the count without resetting it. |
| `mjit_const_cached_val_ld` | the JIT copy's test: serial equals state and key cref NULL. On failure the JIT code is dropped. |
| `JitCompile`, `Redefine` | the JIT copying the IC; a constant (re)definition anywhere, which bumps the state |

`Lookups` models `vm_get_ev_const`:

- If the constant is bound, the lookup returns the binding.
- Otherwise it calls `const_missing`. Its Ruby code may rebind a constant,
  which bumps the state. Its result counts in `mc`.

Scopes follow how CRuby skips eval-pushed crefs in a lookup:

- A context under `instance_eval` has its own key cref but the lexical
  binding.
- A context in a `class << obj` body has both its own key cref and its
  own binding.

Serials are taken modulo `2^W`, as `rb_serial_t` wraps.

`ConstLookup` is the abstract specification: what a load promises.

- `Load` returns the binding seen from the load's cref.
- `Missing` runs `const_missing` when there is no binding.
- `Redefine` rebinds.

`ConstCache` instantiates it with the same variables `konst` and `out`.
The cache, the state, the counter and the JIT copy are hidden.

### `IvarCall` — attr_reader and attr_writer in JIT code

`IvarCall` models `mjit_call_ivar` and `mjit_call_setivar`
(`rtl_exec.c:4055–4080`). Their receivers are objects of one class.

- The class's `iv_index_tbl` gives each ivar name an index when any
  object first sets it.
- An object's `ivptr` has `ROBJECT_NUMIV` slots.
- `rb_ivar_set` grows the slots with `Qundef` padding: first to the
  embedded length, then to the index.
- `remove_instance_variable` puts `Qundef` back into a slot.

The actions:

- `CallIvar`: the reader call. It reads the slot at the call cache's
  index, or returns nil past `ROBJECT_NUMIV`. With no index it makes the
  general call, which fills the index.
- `CallSetIvar`: the writer call. `rb_check_frozen` comes first, then the
  in-place write when the slot exists, else the general `rb_ivar_set`.
- `SetIvar`, `RemoveIvar`, `Freeze`: other Ruby code acting on the
  objects.

Each call records what it returned, or the ivars it left, next to what
Ruby's `attr_reader`/`attr_writer` give.

## Runs

| Run | Module / cfg | Expect | What it shows |
|---|---|---|---|
| `stack_analysis` | `MC_StackAnalyzer` / `MC_StackAnalyzer.cfg` | pass | See below. |
| `operator_speculation` | `MC_SpecInsn` / `MC_SpecInsn_ops.cfg` | pass | See below. |
| `dispatch_refinement` | `MC_SpecInsn` / `MC_SpecInsn_refine.cfg` | pass | See below. |
| `rtl_tables` | `MC_RtlGenDriver` / `MC_RtlGenDriver.cfg` | pass | See below. |
| `rtl_partial_install` | `MC_RtlGenDriver` / `MC_RtlGenDriver_partial.cfg` | violation | An allocation failing in the insn info or catch table leaves `rtl_encoded` and a rewritten `param.opt_table` in the iseq (`FailureLeavesNoBytecode`). |
| `info_table_freed` | `MC_RtlGenDriver` / `MC_RtlGenDriver_freed.cfg` | violation | A NULL positions allocation frees the entries block but leaves it in `rtl_insns_info.body` (`NoFreedBlockInstalled`). |
| `index_speculation` | `MC_IndexInsn` / `MC_IndexInsn_index.cfg` | pass | See below. |
| `hindsets_unreachable` | `MC_IndexInsn` / `MC_IndexInsn_hindsets.cfg` | violation | `indsets` takes the hash fast path and stays `indsets`, so `hindsets` is never installed (`HashFastPathSpeculates`). |
| `const_cache` | `MC_ConstCache` / `MC_ConstCache.cfg` | pass | See below. |
| `ivar_writer` | `MC_IvarCall` / `MC_IvarCall_writer.cfg` | pass | See below. |
| `ivar_reader_undef` | `MC_IvarCall` / `MC_IvarCall_reader.cfg` | violation | After `remove_instance_variable`, or for an object that set only a later ivar, `attr_reader` through `mjit_call_ivar` returns `Qundef` (`AttrReaderAgrees`). |
| `heap_float_mod` | `MC_SpecInsn` / `MC_SpecInsn_mod.cfg` | violation | The register `mod` insn on two heap Floats returns their product (`double_num_mod` calls `float_num_mult`, `rtl_exec.c:2256`). |

**`stack_analysis`** finds, on every program family:

- **Termination:** the analysis terminates (`AnalysisTerminates`).
- **Local counts:** `loc_stack_count` always equals the number of `LOC`
  slots of each local on the stack (`LocCountMatchesStack`).
- **No stale aliases:** assigning a method local leaves no `LOC` alias of
  it on the stack (`LocalAssignClearsAliases`).
- **Joins:** every join `translate` reaches can be realised by
  `tune_stack`, and every case target has exactly its saved stack
  (`JoinsMaterialized`).
- **Catch bounds:** every catch bound sees only temporaries
  (`CatchBoundsTemp`).
- **Generator `dup`/`topn`:** both properties hold even though the
  generator's `dup`/`topn` ignore `temp_only_p`. In every modelled shape
  the copy is consumed before the next label or catch bound, and the
  original slot comes from a producer that does honour the mark.

**`operator_speculation`** finds, first for the arithmetic insns:

- **Agreement with dispatch:** for every form (register, fixnum
  immediate −1 or −3, flonum immediate) of `+ - * /`, and of `%` with
  immediates, every execution returns what the method dispatch returns on
  the same operands (`FastPathAgreesWithDispatch`). This holds in every
  variant the site has been rewritten to, and before and after
  redefinitions. The operands are fixnums, flonums, a heap Float and a
  String.

and then for `eq ne lt gt le ge`, each as a
comparison and as a branch on true and on false, with a register, a
fixnum immediate and a flonum immediate, on fixnums, flonums, a heap
Float, a String and nil:

- **Agreement with dispatch:** every execution yields what the method
  dispatch yields, and a compare-and-branch insn branches exactly when
  that value is truthy (`bt…`) or falsy (`bf…`). A miss never branches
  (`FastPathAgreesWithDispatch`).

and for `not`, through `spec_not` and `unot`, with `!` redefined in any
operand class and the global method state bumped: every execution yields
what `!` yields on that receiver. A cache test that ignored the class
serial (`check_cc_attr_p_noclass`) lets `spec_not` answer `rb_obj_not`'s
result for a Float after Float#! was redefined, and the run finds it.

**`dispatch_refinement`** checks `DispatchRefined == Abstract!Spec`. Here
`Abstract` is `INSTANCE DispatchInsn` with these substitutions:

- the abstract `inflight` is `pending`;
- the abstract `out` is `out` without its ghost `ref`;
- `Dispatch` is `MethodDispatch`, the body of `op2_call` with the set of
  redefined classes as a parameter;
- `Truthy` is `RTEST`.

The check covers the arithmetic sites, `btlt bflt bteq bfeq`, all with
their three operand forms, and the `not` site. Its operands are the
fixnums −16, −1, 2 and 15, two flonums, a heap Float, a String and nil:
evaluating the abstract actions for each step enumerates operand pairs,
and these still reach overflow in both directions, both signs of
division and every class a miss needs. It shows four things:

- every step of the detailed site is a step of the abstract insn;
- a completing execution is `Call`;
- a miss is `Defer`, and the re-execution is `Resume`;
- the abstract fairness `WF(Resume)` follows from the dispatch loop's
  `WF(Reexecute)`.

Two mutants show what this adds:

- With the operands kept for the re-execution swapped (`MissSwapped`),
  `FastPathAgreesWithDispatch` still holds: the ghost reference is
  computed on the same swapped operands. The refinement fails: `Resume`
  must return the dispatch result on the deferred operands.
- With a miss that names the speculative insn again (`UInsnSame`), an
  arithmetic site stutters forever in `Defer`, which the abstract
  fairness forbids. The `not` site fails sooner: the miss has refilled
  the call cache, so the repeated `spec_not` finds it current and answers
  `rb_obj_not`'s result for a user-defined `!`, a step no abstract action
  allows. TLC reports that one.

The non-branching comparison sites are not part of the refinement run:
the liveness part of the check over all 72 comparison sites takes about
6 minutes. `operator_speculation` covers them for agreement.

**`index_speculation`** finds `IndexAgreesWithMethod` over every `[]`
and `[]=` site in one run. Every `[]` or `[]=` form returns, and leaves
the array and the hash, as the method does. This holds:

- through rewrites to `aind`, `hindi`, `aindset`, `hindseti` …;
- through misses;
- through redefinitions of either operator of either class;
- through freezing and sharing of the array;
- through a switch of the hash to identity comparison.

The operand values:

- receivers: the array, the hash, a fixnum and a String;
- keys: −1, 1 and a string;
- elements: the empty array, a one-element array and a two-element
  array.

Two mutants are killed:

- a `hind` that does not re-check the redefinition of `Hash#[]`;
- an `aindset` that writes a frozen or shared array in place.

**`rtl_tables`** finds, for every four-insn code and `insns_info` table
of `MC_RtlGenDriver`, through every failure of `rtl_gen`:

- **The table fits its allocation:** the filling pass writes exactly
  the entries the counting pass allocated (`TableFitsAllocation`).
- **Line events are bounded:** positions strictly increase, and a line
  event governs only the RTL insn it was recorded for
  (`LineEventsBounded`).
- **Line events are kept in order:** the lines of the line events in
  the table are those of the reachable stack insns, in order
  (`LinesInOrder`).
- **Branches land on line events:** a relocated branch to a stack insn
  with a line event lands on an RTL insn with that event, also when a
  nop had to separate it from the event before it
  (`BranchLandsOnEvent`).

The filling pass tests a written entry a second time
(`rtl_gen.c:2962`), which repeats the first test. So a wrong switch-off
test does not leave an event unbounded; it makes the pass write more
entries than were allocated. The mutants show this.

**`const_cache`** finds that the lexical site (run plainly and under
`instance_eval`) and the singleton site (run for two objects) each
implement `ConstLookup` (`ConstRefined`). This holds in both
forms, with the JIT copy, and with the constant redefined, removed and
missing, also when other sites call `const_missing`. So:

- no load returns a value cached before a redefinition;
- no load returns `const_missing`'s result as if the constant were bound;
- a cache filled under one singleton cref is never used under another.

Two mutants are killed:

- a refill that ignores `ruby_vm_const_missing_count` caches
  `const_missing`'s result (lexical site);
- a hit test that ignores the key cref hands one object's binding to
  another (singleton site).

**`ivar_writer`** finds that `attr_writer` through `mjit_call_setivar`
leaves the receiver's ivars as `rb_ivar_set` would, and raises exactly
on frozen receivers (`AttrWriterAgrees`). The mutant drops the
`index <= ROBJECT_NUMIV` test, so a write past the slots is lost.

Every property of a passing run has a mutant in `PROJECT.json`: a
plausible bug in the mapped definition that TLC then finds.

## Bounds and why they are enough

- **`StackAnalyzer`:**
  - Two method locals and one outer-level local.
  - Iseqs of 6–14 insns.
  - These families reach every case that matters: a disagreement at a
    join, a local assigned while it is on the stack, a loop back edge,
    catch-region bounds, case dispatch targets, and events that force
    temporaries.
  - The mutants show that the families distinguish the code from
    plausible bugs.
- **`SpecInsn`:**
  - W = 6, so fixnums are −16..15 and C longs are 6-bit words.
  - The fixnum operands −16, −3, −1, 0, 2 and 15 reach:
    - overflow of `+`, `-` and `*` in both directions;
    - `FIXNUM_MIN / -1` and `FIXNUM_MIN % -1`;
    - both signs of dividend and divisor in floor division;
    - a zero divisor.
  - The width is a parameter. The code's overflow tests depend only on
    the sign bit and on `RB_FIXABLE`, so 6 bits behaves like 64.
  - For comparisons, the same operands include pairs of opposite sign,
    whose tagged words order differently as signed and as unsigned
    words. Equal and unequal flonums, and nil against every other
    operand, reach each branch of `common_cmp`.
  - `MaxMethodState` is 2 in `operator_speculation` (one global bump)
    and 1 in the other runs. One bump is enough to make a filled cache
    stale through the method state; redefinitions make it stale through
    a class serial.

- **`RtlGenDriver`:**
  - Four stack insns, from these shapes:
    - one that emits no RTL;
    - one that emits a 2-unit insn;
    - a label with a move;
    - an unreachable insn;
    - a branch back to position 1 or 2, and `leave`.
  - Every `insns_info` table with an entry at 0, and any of four entry
    kinds or none at 1..3.
  - These reach:
    - two events on one RTL position on the same line and on different
      lines;
    - a line event before an insn without an entry, and one at the end;
    - the switch-off entries that `insn_info_entry_ind` drops;
    - a branch to a position whose event follows a nop.
  - The first insn never has moves before it: the stack is empty
    there. So the shift of the first position to 0 (`rtl_gen.c:2924`)
    is not reached, as in real code.

- **`IndexInsn`:**
  - Keys −1 and 1 (and immediates −1 and 1) on arrays of length 0, 1
    and 2. Together they reach:
    - an index from the end;
    - an index past the end;
    - an index before the start, after a store grows the array.
  - `W = 4`: `FIX2ULONG(-1)` is 15, which is past every array, as
    2^64 − 1 is.
  - The hash starts empty, or with a fixnum key and a string key, or
    compared by identity with a register string as key. That reaches
    every branch of the key comparison.
  - One stored value suffices. The element present initially (0) and
    nil tell a write apart from no write.

- **`ConstCache`:** two values, so that a stale value differs from the
  current one.
  - A state up to 3: two redefinitions, or one redefinition and one
    `const_missing` that defines a constant.
  - Up to two `const_missing` calls counted by other sites, so the count
    can exceed what a refill subtracts.
  - `W = 3`: a serial below the state wraps to 5–7, which the state
    never reaches. The wrap is modelled, but it is not a hazard of the
    code: with a 64-bit `rb_serial_t` a wrapped serial could equal a
    later state only after about 2^64 definitions.
  - A site's loads run only under its own contexts, and scopes no
    context of the site sees stay unbound. The run covers both sites in
    about 35 seconds.
- **`IvarCall`:** two objects, two ivar names and two values.
  - The embedded length is scaled down to 1, so that a set can both pad
    the embedded array and grow past it.
  - The two objects can register the names in either order.

## Fairness

- **`StackAnalyzer`:** the pass is sequential code that always takes its
  next step.
  - Every non-final state has a successor; the deadlock check of the run
    certifies this.
  - The final state only stutters, in the `Finished` action.
  - Weak fairness of `Next` is therefore `[]<>(pc = "done") \/
    []<><<Next>>_vars`. It is written in that form so that TLC does not
    re-evaluate `ENABLED` of the whole pass.
- **`SpecInsn`:** weak fairness of `Reexecute` only. A miss returns to
  the dispatch loop, which executes the same position immediately
  (`spec.md` section 4.3). Whether the program ever executes the site
  again is not assumed. `IndexInsn` assumes the same fairness for the
  same reason. The same assumption gives `DispatchInsn`'s
  `WF(Resume)` under the refinement mapping.

- **`ConstCache` and `IvarCall`:** none. Their properties are safety
  properties, and nothing in this code must eventually happen.

## Findings

- **`mjit_call_ivar` returns `Qundef`** (`rtl_exec.c:4062`).
  - It reads `ROBJECT_IVPTR(obj)[index - 1]` whenever the index is within
    `ROBJECT_NUMIV`, and does not turn `Qundef` into nil.
  - A slot holds `Qundef` when the object never set that ivar but has
    slots past it, or removed it. For example, another object of the class
    registered `@a` before `@b`, and this object set only `@b`.
  - `attr_reader` must return nil there; the JIT code returns `Qundef`
    into Ruby.

- **`double_num_mod` computes a product** (`rtl_exec.c:2256`).
  - For two Float objects that are not flonums (large or tiny magnitudes,
    or builds without flonums), `x % y` through the `mod`/`umod`/`smod`
    insns returns `x * y`.
  - The `heap_float_mod` run shows it on 3.0 % 3.0.

- **`rtl_gen` leaves a partial compilation in the iseq**
  (`rtl_gen.c:3090`, `3115`).
  - `rtl_encoded`, `rtl_size` and `temp_vars_num` are stored before
    the insn info and catch tables are allocated.
  - So are the relocated branches and the `param.opt_table` that
    `setup_opt_table` rewrites in place to RTL offsets.
  - If a later allocation fails (NULL or `NoMemoryError`), the iseq
    keeps RTL code and an `opt_table` that no longer indexes its stack
    code.
  - `spec.md` (error class (c)) says a failed compilation leaves no
    partially installed bytecode.
- **A freed block stays in the iseq** (`rtl_gen.c:2943`).
  - When the positions allocation of `create_rtl_insn_info_table`
    returns NULL, the entries block is freed, but
    `rtl_insns_info.body` still points to it.
  - This path needs an allocator that returns NULL, as the code's test
    assumes; CRuby's `ALLOC_N` raises instead.

- **`hindsets` is never installed** (`rtl_exec.c:3053`).
  - `common_indset` rewrites to `hash_insn_id` only when
    `ary_insn_id != BIN(nop)`.
  - `indsets_f` passes `nop` as its array insn, so `h["k"] = v` on a
    Hash stays generic, and `hindsets_f` is dead code.
  - Results are unaffected. Only the speculation is lost.

## Not modelled, and the plan

Ordered by importance:

1. **Ivar speculation of `self`:** `ivar2var_f`, `val2ivar_f`,
   `mjit_ivar2var` and `mjit_check_self_p`. They rest on
   `vm_getivar_spec` and on an `ivar_spec` encoding that the JIT
   produces outside this repository.
2. **`RtlGenDriver` remainders:** the relocation of
   `opt_case_dispatch` hashes (`change_hash_values`) and the contents
   of the relocated catch table.

Out of reach or out of scope:

- the frame layout and `mjit_ep_neq_bp_p` (they belong to the Ruby VM);
- method calls and returns into JIT code;
- thin wrappers over Ruby runtime functions;
- IEEE double arithmetic, and with it NaN and the `+0.0`/`-0.0` flonum
  word test of `float_num_eq` (`rtl_exec.c:1068`);
- the frame push of `op2_call` when the method is written in Ruby, after
  which `do_bcmp` returns without a decision (`rtl_exec.c:1756`): the
  VM loop that runs the pushed frame is not in this repository;
- no interleaving between the three writes of a constant IC's miss path
  (`rtl_exec.c:366–371`): nothing in this repository reads an IC from
  another thread, and `spec.md` section 5 keeps one writer per cache
  slot, so `ConstCache` writes and copies the IC in one step;
- the shift of the first RTL position to 0 in
  `create_rtl_insn_info_table` (`rtl_gen.c:2924`): `translate` starts
  with an empty stack, so no RTL precedes the first event and the shift
  is unreachable;
- the frame pointer speculation (`RTL_GET_BP`, `mjit_ep_neq_bp_p`) and
  the call insns (`call_common`, `mjit_call_finish`, `val_ret`): their
  other half, the frame layout and `vm_exec_core`, is not in this
  repository, so a model of them would be a model of what Ruby does.
