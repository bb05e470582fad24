# A verification project for the clux compiler

TLA+ models of the parts of clux that keep state over time, TLC runs that
check them on small instances, and TLAPS proofs of what matters most for every
value of the constants. Paths below are relative to the repository root,
which `PROJECT.json` calls `src/`: `src/driver/driver.c` here is
`src/src/driver/driver.c` there.

Contents: 1 the system; 2 plan; 3 the modules and how they correspond to the
code; 4 runs, bounds and results; 5 fairness; 6 proofs; 7 what is only
model-checked; 8 findings and other divergences; 9 what is not modelled.

## 1. The system

clux is a compiler written in C. `clux build` reads modules in the clux
language, analyses them, evaluates compile-time code, and writes one C unit
that the system's C compiler builds. It is a single thread; what makes it hard
is not parallelism but callbacks and re-entry: analysis calls constant
evaluation, constant evaluation calls analysis, and analysing an import
compiles another module in the middle of the first one.

| component | state it keeps | operations | used by / talks to | what is hard |
|---|---|---|---|---|
| tracking allocator `core/allocator.c` | doubly linked list of live headers, counters, ceiling | new, new_ex, free, move, clone, set_max_bytes, delete | everything; `dispose_fn`, `move_fn`, `clone_fn` call back | free nests in free; classes owned by objects; unsigned budget arithmetic |
| arena `core/arena.c` | list of blocks, next size, statistics | alloc, calloc, reset, destroy | parser, package, lock file | alignment of addresses, growth, wrap-around |
| red-black tree `core/rbtree.c` | tree with parent pointers, size | insert, remove, find, dispose | omap, strmap | two fixup loops that dereference without tests |
| omap, strmap, vec `core/` | tree plus key vector; array | insert, remove, get, keys | everything | ownership of keys and old values |
| string, stream, json, sha256, ffi_cond `core/` | buffers | read, write, parse | lexer, package, lock file | text |
| lexer, parser `parser/` | token position, tree | one function per construct | driver | backtracking, precedence |
| formatter `parser/fmt*.c` | output buffer, indentation | one function per construct | `clux format` | must not change the meaning |
| desugar `desugar/` | tree, fresh-name counter | foreach, decorators | driver | meaning kept |
| sema passes `sema/sema.c, sema_pass.c, struct_compose.c` | symbols, types, signatures, struct types, latches | passes 0 to 3b, speculative rounds | ctfe, vm, driver | declarations in any order; diagnostics thrown away |
| function bodies `sema/stmt*.c, init_tdz.c` | scopes, defers, `flow_init` of each symbol, field states | build tree, walk, check `__init__` | ctfe, C back end | joins of paths, jumps, re-ordering by defer |
| generics `sema/sema_generic.c`, `sema_cross.c` | instance caches, scopes, depth, a queue of bodies per module | instantiate, infer, drain | driver worklist over all modules, ctfe | nested instantiation, context of the owner module, termination |
| expressions, assignment `sema/expr*.c, stmt_var.c, stmt_assign.c, coerce.c, magic*.c` | none beyond the tree, which it rewrites | one function per construct | vm (on shadows), ctfe, C back end | three stages that must agree on every conversion |
| ctfe `ctfe/` | scopes, budget, depth, pending jump, return value | evaluate, place, call | sema, vm | operands lent and read late, values that outlive scopes |
| vm `vm/type*.c, value.c` | interned types, values | layout, conversions, operators of each type | all | widths, const, which operations a type has |
| escape diagnosis `vm/ctfe_mem.c` | block and provenance tables, quarantine | on_alloc, on_free, note_addr, check, quarantine, reset | vm values, ctfe pointers and slices | address reuse, tables that fill up |
| driver `driver/driver.c` | module table, path stack, module order, export tables, diagnostics | compile a module, resolve an import | sema Pass 0 calls back | recursion over imports, failure in the middle |
| C back end `cbackend/` | C unit, name tables, temporaries | lower, write | after the driver | what C leaves open; order of definitions |
| packages `module/package.c, module_path.c` | descriptor | load, find, resolve a path | driver, commands | search upwards |
| install and lock file `cmd/install.c, module/lockfile.c` | files: `clux.mod`, scripts, artifacts, `.clux/postinstall.ok`, `clux.lock` | install, `--locked` | build, file system, hooks | crashes, overlapping invocations, stale caches |
| commands `cmd/` | files and child processes | build, run, test, fmt | driver | temporary files, crashed tests |
| diagnostics `diag/` | list, error count | report | all | shared by all modules |

What makes each component correct:

* **allocator**: the live list is the set of live objects at every call of
  `dispose_fn`; counters agree with it; no block is freed twice; the ceiling holds.
* **arena**: what is handed out is inside its block, aligned, disjoint.
* **rbtree**: it is the ordered map of `rbtree.h`, and its loops end.
* **install**: a marker or lock only vouches for hooks that succeeded;
  `--locked` decides exactly whether the lock describes the tree.
* **function bodies**: whatever passes the analyses reads nothing unassigned,
  returns what it should, runs its defers once each, in order.
* **sema passes**: independent of the order of declarations; nothing ready
  without reason; no error lost and none invented.
* **driver**: importers get finished modules; the module order is topological;
  export tables are exact; errors stop the compilation.
* **generics**: the instances are those the program means, each body is walked
  once, whatever a nested instantiation changed is given back, the worklist ends.
* **expressions, vm, ctfe, C back end**: what sema accepts fails in neither of
  the two executions for its types; both end with the same values wherever C
  settles the outcome; const variables keep theirs.
* **escape diagnosis**: a pointer whose value is gone is reported when it is
  followed, and no other pointer is.
* **parser and formatter**: operators group as their table says; formatting
  followed by parsing is the identity on trees.

## 2. Plan

Done, in this order: `Install`, `Allocator`, `Arena`, `RBTree` over
`OrderedMap`, `FuncBody`, `SemaPasses`, `ModuleLoad`; then `Generics` with
`GenericInfer` and the reference `GenericMeaning`; `Syntax`, `Parser` and
`Formatter`; `Types`, `Values`, `Typing`, `Places`, `Evaluation`, `Compiled`
and their composition `Statements`; `CtfeMem`; and the proofs of eight of them.
What is left, the most important first:

1. Control statements (loops, `switch`, `defer`, calls as statements) in
   `Statements`, so that `FuncBody` and `Compiled` meet; constructions without
   a type and through `__init__`; scopes and hoisting of what a call returns.
2. Proofs: `DefersOnExit` of `FuncBody`, for bodies without the jumps that call
   defers too early. `Generics` is written with RECURSIVE operators and has to be
   split (the queue and the drain apart from the reading of types) before its
   worklist can be proved about.
3. `KeyMap`: omap and strmap as `RBTree` plus the key vector, with ownership
   from `Allocator`; abstract specification `OrderedMap` with insertion order.
4. The lexer; `Desugar` (foreach against the loop it stands for); the order of
   type definitions in the C unit; the parentheses of the C writer.
5. The test runner's fall-back to one process per test; package lookup.

## 3. The modules

Each module `X.tla` models a component; `MCX.tla` gives its constants values;
`XProofs.tla` holds theorems. `map` in `PROJECT.json` names the lines of every
definition. A definition whose comment begins with "mutant" is a plausible bug
in the definition that follows it and is used by no specification; it shows
that a property notices.

**Install** (`cmd/install.c`, `module/lockfile.c`). State: the files of the
package tree (`mod`, `script`, `art`, `marker`, `lock`) and, for each
overlapping invocation, a record with the program counter, the C stack of
`install_tree` or `collect_packages`, and the flags. One action per access to
the file system, so that another invocation, a crash or, between invocations,
the user's edit may come between any two. `MarkOpen`/`MarkWrite` and
`LockOpen`/`LockWrite` are `fopen "wb"` and the write after it: in between the
file is torn. The marker's write is not checked by the code, the lock's is.
A digest is represented by what it was computed from (SHA-256 is injective);
`ran` is a history variable. A command's hook may fail and may or may not write
the native artifact.

**Allocator** (`core/allocator.c`, `core/panic.c`). The list is modelled with
its `prev`/`next` links; `freeing` is the stack of nested `allocator_free`
calls, since `dispose_fn` frees what an object holds; `holds` says which
object that is. Sizes are taken modulo a symbolic `SizeMax + 1`.

**Arena** (`core/arena.c`). Blocks with base address, capacity and fill;
`allocs` is a history of what was handed out since the last reset. Sizes wrap;
`malloc` chooses the base.

**RBTree** (`core/rbtree.c`) with the abstract **OrderedMap**
(`include/core/rbtree.h`). One action for the part of `rbtree_insert` and
`rbtree_remove` before the fixup and one for each iteration of its loop. The
refinement mapping reads the map off the tree through `Find`, the code's own
descent.

**FuncBody** (`sema/stmt_build*.c`, `stmt*.c`, `stmt_flow.c`, `init_tdz.c`,
`ctfe/ctfe_stmt.c`). A function body is a tree of statements in which one
storage location matters: a local declared `undefined`, or the field of `self`
in `__init__`. The first two steps are Pass 3a (defer rewriting, return paths,
well-formedness) and Pass 3b (definite assignment, or the field check), both as
recursive functions of the blocks that nest at most `Nesting` deep. If nothing is
reported the body runs: a stack machine follows the statement evaluator step by
step, with each condition free. `k` holds the blocks that are being executed,
innermost last; a loop stays at the head of its block, and `part` says which part
of it comes next. `ran` and `due` compare the defers that ran with those that
should have.

**SemaPasses** (`sema/sema.c`, `sema_pass.c`, `struct_compose.c`,
`comptime.c`, `ctfe/ctfe_call.c`). Declarations 1..N with the names they read
at different times; a step is a visit of one declaration in one pass, in source
order. `ready` is what later visits may use, `open` the struct types that are
materialised but not sealed. Speculative rounds drop their diagnostics; the
final passes keep them in `errs`. `Resolvable`, the least set closed under
possible evaluations, is the reference the properties compare with.

**ModuleLoad** (`driver/driver.c`, Pass 0 of `sema/sema_pass.c`). The
recursion `compile_module_impl` -> `sema_analyze` -> Pass 0 ->
`driver_resolve_import` -> `compile_module_impl` is a stack of frames. The path
stack holds borrowed strings with a flag that says whether their owner has
freed them (the resolver frees the string of a module that failed while the
path stack keeps it): a comparison with a freed string may turn out either way.

**Generics**, **GenericInfer**, **GenericMeaning** (`sema/sema_generic.c`,
`sema_cross.c`, `comptime.c`, `sema.c`, parts of `expr_call.c` and
`expr_access.c`, the worklist of `driver.c`). Instantiation nests: while a body
is walked, a call asks for an instance, its signature for types, their fields
for more types. `stack` holds what is under way, `ctx` what the code saves and
restores around each level (owner, depth, visible module), `scopes` the scopes
that bind type parameters, `queue` the bodies of each module that wait to be
walked, and `insts` the instances with their mangled names. A body is a
sequence of requests in postfix; a request may be refused, found in the cache
or made. Speculative rounds and calls evaluated at compile time walk bodies
early. `GenericInfer` has the pure parts: constants with their bits, and what
parameters are bound to by the arguments written and the types passed.
`GenericMeaning` is the reference: what a program asks for according to
`docs/whitepaper/06-generics.md` and `08-modules.md`, without caches, queues or
contexts; `InstancesExact` and `FailsForAReason` compare the two.

**Syntax**, **Parser**, **Formatter** (`parser/parse_*.c`, `parser/fmt_*.c`).
`Syntax` is the grammar: for each parse function the sequence of what it
expects. `Parser` reads tokens by recursive descent with precedence climbing,
look-ahead and the choices each function makes. `Formatter` has a template for
each case of `render_stmt`, `render_expr` and `render_decl` and the rule of
`need_paren`. The one action formats the file. Layout and comments are left out.

**Types**, **Values**, **Typing**, **Places**, **Evaluation**, **Compiled**,
**Statements**. Three programs interpret a clux statement and have to agree:
sema types it by running the vm on shadows (values with a type and no data) and
rewrites what is sugar; constant evaluation runs the rewritten tree with the vm
on real values; the C back end writes C from it. `Types` is layout, equality
and upcasts of `vm/type*.c`; `Values` the vtables of each kind of type, the
same operators for shadows and real values; `Typing` is `sema/expr*.c`,
`coerce.c` and the magic methods; `Places` says where a value lies (a variable
and a path into it) and what is read and written there; `Evaluation` is
`ctfe/`, in which an operand that lies somewhere is lent and read when the
operation is done; `Compiled` is the meaning of the emitted C: promotion to
int, overflow and the other undefined behaviour, and operands taken from the
left or from the right (constant `Order`); it knows what of the emitted C is an
lvalue (`IsLvalue`) and which types have bytes that belong to no part of them
(`Padded`), so that the equality of tuples, a `memcmp`, is left open where only
those could decide it. `Statements` composes them: a step is one statement, accepted by sema or not, run by constant evaluation on
`folded` and by the compiled program, in both orders, on `ran`. A statement
whose outcome C leaves open ends the comparison.

**CtfeMem** (`vm/ctfe_mem.c`, the allocation and disposal of `vm/value.c` and
`vm/scope.c`, the places in `ctfe/ctfe_composite.c` that take, copy or follow an
address). `objs` and `ptrs` are what is really there; `blk`, `prov`,
`quarantine`, `nextId` and `disabled` are the tables of the code, which has to
give its verdict from them alone. One action for each operation that records an
address, with the test it makes first. Which block an array inside a value is
recorded under depends on the expression; `part` chooses. The scratch blocks
that `ptr_clone_block` frees behind the back of the tables are `Scratch`.

The modules meet in this way: `Statements` runs `Typing`, `Evaluation` and
`Compiled` on the same statement. `ModuleLoad`'s "analysis of a module" is
`SemaPasses` with the import pass taken out, and `Generics` goes on where both
end, with the bodies that wait in each module. `SemaPasses`' "walk of a body"
and "evaluation of a call" are `FuncBody`, whose conditions are the expressions
of `Typing`. The pointers of `Evaluation` are those `CtfeMem` keeps account of.
`Install`'s descriptor is what packages resolve to. Where they do not extend
one another they exchange single facts (failed or not, resolved or not), which
each model leaves open, so that each is checked for all behaviours of the
other.

## 4. Runs

| run | states | properties | what it shows |
|---|---|---|---|
| `install_overlap` | two overlapping invocations on a root and one dependency, one edit | `MarkerImpliesRan`, `LockedHooksRan`, `DepsFirst` | markers and locks vouch only for hooks that succeeded; dependencies before parents |
| `install_alone` | one invocation after another on a chain of three packages whose last links back to the root, one edit | `ExitCodeTrue`, `CommandsEnd` | `--locked` is exact; a successful install leaves a fresh lock; commands end |
| `allocator` | four blocks, four allocations, one owned class, 4-bit sizes | `ListIntact`, `CountersExact`, `HoldsLive` | list, counters, ceiling, no double free, also inside nested frees |
| `arena` | four allocations, 6-bit sizes, bases of different parity | `InBounds`, `Disjoint`, `Aligned` | what is handed out is inside its block, disjoint, aligned |
| `rbtree` | all insert/remove sequences over eight keys | `RedBlackTree`, `ImplementsMap`, `FixupClimbs` | shape in every state, red-black between calls, refinement of the ordered map, loops climb |
| `func_body` | 73,000 bodies, every condition both ways | `NoUninitRead`, `AlwaysReturns`, `FieldsAssigned`, `DefersOnExit` | definite assignment, return paths, field check, defers |
| `sema_passes` | every module of three declarations | `Grounded`, `SettledExact`, `VerdictRight`, `Terminates` | groundedness, fixpoint, no lost or invented errors, termination |
| `module_load` | every program of three modules with short import lists | `ImportersGetPrepared`, `StubsInAnalysis`, `OrderTopological`, `ExportsExact`, `VerdictRight`, `Terminates` | prepared imports, stubs, topological order, exact exports, compiled once or failed for a reason, termination |
| `generics` | 940 programs of three modules | `Restored`, `WalkedOnce`, `InstancesExact`, `FailsForAReason`, `Terminates` | contexts given back, bodies walked once, the instances are the meant ones, no refusal without reason, termination |
| `formatter` | 18,000 files | `FormatKeeps`, `Precedence` | every expression form in every position, with and without parentheses, survives formatting unless listed; operators group as their table says |
| `statements` | seven programs, every two statements after their declarations | `Sound`, `Agrees`, `ConstKept` | sema, constant evaluation and the emitted C agree |
| `ctfe_mem` | two values in four cells, two pointers, tables of three entries | `LiveAccepted`, `StaleReported` | stale pointers are reported and no others, also when tables fill up and blocks are freed early |

Seven more configurations stand beside the runs. Each checks what a document,
a comment or a test says, on an instance that includes what the runs above leave
out, and TLC finds it violated by what the code does: `MCFuncBodyContinue`
(`NoUninitRead`), `MCSemaPromised` (`BodiesChecked` and `OrderFree`,
each of them), `MCModuleReexport` (`ReexportsForwarded`), `MCGenericsTwice`
(`OneDefinition`), `MCGenericsInferred` (`InstancesExact`), `MCFormatterTree`
(`FormatKeepsTree`) and `MCStatementsConst` (`ConstHolds`). Section 8 says what
they show; `tlc -config MCStatementsConst.cfg MCStatements` runs the last one.

Bounds, and why they are enough:

* `Install`: `MaxRuns = 2` and `MaxEdits = 1` give install/edit/`--locked`, two
  overlapping installs, and install/crash/`--locked`; a third invocation meets
  only files the first two can leave. The depth limits are 1 instead of 8, so
  that a tree of depth 2 exceeds them. The manifests are a package with no
  hook, one with a script, one with a tool and an artifact. In
  `install_alone` all scripts are equal at first; the edit makes one differ.
* `Allocator`: `MaxNews = 4` fills the heap and still reuses blocks after
  frees; an object can hold one that holds another. `Limits = {13}` is lower
  than the range of `size_t` so that the ceiling and the sum meet; it is not
  lowered while in use. No owned class can be moved (see 8).
* `Arena`: blocks of 5 bytes, requests of 0, 3, 12 and 45 bytes: smaller than,
  larger than and far larger than a block, and never within reach of a wrap.
* `RBTree`: eight keys give black height 3 and every case of both fixups, with
  their mirror images.
* `FuncBody`: an optional first statement, one compound statement whose blocks
  have up to two statements (the first possibly under an `if`), an optional
  last one; blocks nest `Nesting = 3` deep. The instance leaves out what the code is known to get wrong, so
  that the rest is checked: `continue` only in `while` bodies, no defer around a
  loop with a jump, no defer behind an `if` that holds a jump, and no `for`,
  `switch` or `do-while` in `__init__`. `Budget` ends evaluations of loops.
* `SemaPasses`: three declarations of every kind, each mentioning up to two
  others; at most one mention of an undeclared name; functions called at
  compile time call no others. `MaxRounds = 2` in the passing run (8 in the
  code): with three declarations, two rounds separate "settled" from "cut off",
  and the properties that need the former say so. `MCSemaPromised` uses 8.
* `ModuleLoad`: three modules are enough for self-imports, cycles of two and
  three, diamonds, and a failure in the middle of each; the import lists are in
  `MCModuleLoad`. One exported symbol decides conflicts.
* `Generics`: the programs put together seventeen uses of generics pairwise in
  two modules, and nineteen calls that leave arguments out pairwise in one:
  twice the same instance, two that differ, one inside the other, one refused
  and one not. `MaxRounds = 3` and `MaxDepth = 4` (8 and 128 in the code) are
  what it takes to be cut off and not to be; `MaxProxy = 2` (16) two re-exports
  in a row. Integer types have 3, 4 and 6 bits for 8, 32 and 64.
* `Formatter`: one expression in another in every statement and declaration;
  two levels bring each operator under each other on both sides, which is what
  parentheses depend on.
* `Statements`: a byte has two bits (`ByteBits = 2`), so that an `i8` is -2..1
  and an `i32` -128..127: sums and products wrap, conversions truncate, and C's
  promotion makes a difference. Arrays are not longer than half the range of
  their index type. `MaxSteps = 2` statements follow the declarations: one to
  make an alias, a pointer or a changed member, one to use it. Statements in
  which the stages are known to part (`Known`: an operand cut by a byte-wise
  copy, an equality the vm does not have, a tuple index that is no constant, an
  option given what cannot become one of its kind, the operand of `len` that C
  does not run, a compound assignment to a variable without a value) are typed
  but not run; section 8 lists them.
* `CtfeMem`: four cells, values of one and two: a value can lie over the inside
  of a dead one. Three entries let a table fill while the other still has room.
  TLC also finds no error with six cells and sizes one and three.

Deadlock is not checked where the system stops by design: all commands ended
(`Install`), heap deleted (`Allocator`), arena destroyed, function body at
its end, statements run (`Statements`). `RBTree`, `CtfeMem` and `Formatter` are
checked for deadlock; `SemaPasses`, `ModuleLoad` and `Generics` state
termination instead and stutter at the end.

## 5. Fairness

Safety runs assume none. `Install.FairSpec` is weak fairness of the steps of
each running command: the operating system schedules it and its hook ends. The
crash is not fair: nothing forces it. `SemaPasses`, `ModuleLoad` and `Generics`
are one sequential thread whose next step is always enabled until it has
finished, so weak fairness of `Next` says no more than that the program runs. No strong
fairness is used anywhere.

## 6. Proofs

All proofs are checked by TLAPS without omitted steps, from the named
assumptions on the constants only (`InstallAssumption`, `AllocatorAssumption`,
`ArenaAssumption`, `RBTreeAssumption`, `PassesAssumption`, `LoadAssumption`,
`CtfeMemAssumption`, `FuncBodyAssumption`), which TLC evaluates for the instances;
two theorems of `FuncBodyProofs` have premises about the functions besides, given there.

* **InstallProofs**: `TypeCorrect`, and `MarkerCorrect`: a complete marker names
  a hook that succeeded. The property is not inductive, since the marker is
  written two steps after the hook ended from a local hash; `HookKeyed` carries
  it: the hash belongs to the hook being run, and has succeeded by the time
  the marker is opened. Any tree, any number of overlapping invocations.
  `LockCorrect`: what a complete `clux.lock` lists has succeeded. `install_tree`
  passes silently over what lies too deep and `collect_packages` fails on it;
  `WalkInv` joins the two recursions: every package near the root (`Near`, by
  paths through `deps/`) is done or owed by a call on the stack (`Covered`),
  as long as nothing has failed, so that when the walk has ended all that
  `collect_packages` lists is done. This needs `LockMaxDepth <=
  InstallMaxDepth`: both are 8 (`cmd/install.c:27,319`, `module/lockfile.c:212`),
  and a lock that went deeper would list hooks that never ran. `OrderCorrect`,
  that dependencies come first, needs `ChildrenFirst` of the same invariant: a
  dependency of a package on the stack is done, still to come, or the next
  call. The other invocations only ever add to `ran`.
* **AllocatorProofs**: `ListCorrect`, `CountCorrect`, `HoldsCorrect`. The list
  alone is not inductive, because that only listed objects are unlinked follows
  from the discipline of `dispose_fn`; `Inv` joins both, and orders the list by
  age (`BornBefore`) so that it cannot become circular. Any heap and nesting.
  `BytesWrappedCorrect`: `total_bytes` is the sum of the sizes of the live
  objects modulo the width of size_t, under any ceilings. What is subtracted
  is read again from the header and its class, so the proof needs that the
  class of a live object is still there and still its own (`ClassesHeld`); this
  is false for a class that is owned and moved (section 8), and the hypothesis
  `OwnedStay` says that no caller does that. `CountersCorrect`: the counters
  are exact and within the ceiling. It adds `OneCeiling`, a ceiling that is
  not 0 and is never changed: when it is 0 the guard is off and the sum may
  wrap, and lowering it below the bytes in use makes `max_bytes - total_bytes`
  wrap (`core/allocator.c:133`); nothing under `src/` calls
  `allocator_set_max_bytes`. Both theorems go through `Ledger`, which says what
  any call does to the books, and through a small theory of finite sums
  (`Total`): a sum exists, does not depend on the order of its elements, and
  changes by the element that is added or taken away.
* **ArenaProofs**: `BoundsCorrect` and `DisjointCorrect` under `NoWrap`, which
  says that no size computed comes near `SIZE_MAX`; without it they are false
  (see 8). Disjointness needs `InUsed`: every earlier allocation ends inside
  the used part of its block. `AlignedCorrect` needs no such hypothesis: the
  padding is computed from the address, so it is right even where sizes wrap
  (`AlignInv`).
* **RBTreeProofs**: `MapCorrect`, the refinement: through every insertion and
  removal, step by step of both fixups, the tree implements `OrderedMap`, for
  any number of keys. `ShapeCorrect`: the pointers are inverse to each other and
  the keys ordered. That the stored keys are ordered along the walk from the
  root cannot be used as it is written, by recursion; `Search` says it without
  one: every node has bounds `lo` and `hi` that contain it, each child inherits
  the bounds and its parent's key, and bounds of nodes that do not lie on one
  path do not overlap (`Spans`, `Apart`, `Ended`). A rotation moves the bounds
  of two nodes; removal of an inner node is the unlinking of its successor
  (`Dropped`) followed by a change of names (`Renamed`). Each descent narrows
  the bounds, so it ends (`DownEnds`) and finds what is stored (`Recursion`
  ties the recursive functions of the module to it). `RedBlackTreeCorrect` adds
  the colours and `size`: between calls the tree is balanced, and no fixup
  dereferences NULL. Again no recursion is used: there are numbers `H` of the
  nodes, each larger than those of both children by one if the node is black
  (`Heights`), with the black node that an unlinking took away counted where it
  is missing. In `insert_fixup` one red node may have a red parent (`Rising`); in
  `delete_fixup` one black node is missing beside `x` (`Falling`; `Lacking` once
  the loop has found `x` black and below the root), so that the sibling has a
  black node below it and exists; between calls nothing is wrong (`Level`).
  `Cut` says what every unlinking, of a node or of its successor, does to the
  colours, and each case of the two loops has a lemma of its own (`Rise...`,
  `Lack...`). Only at the end is `H` compared with the count down the leftmost
  path in `Balanced` (`BlackHeightIs`).
* **SemaPassesProofs**: `TypeCorrect`, `GroundedCorrect`, `SettledCorrect` for
  modules of any size. That a round without progress is a fixpoint is not
  visible at its end alone; `Tried` says it of the declarations the round has
  passed so far, and `Opened` that all structs are nameable by then.
  `VerdictCorrect` is about the verdict, for modules whose rounds settled.
  `Diagnosed` says that a declaration the real passes have visited and not found
  ready has an error of its own, except a struct, which waits without a word
  for the structs it embeds and the fields that are not sealed. Following what
  is waited for never ends, and in a finite graph that is a cycle
  (`CycleReached`, by taking a vertex whose own reach is least), which is
  reported unless it mixes fields and embeddings. `PassesAssumption` takes the
  well-formed programs only (`WellFormed`): only structs embed, and only structs
  or names nobody declares; only functions have bodies; field types call no
  function and a function that is called calls none. The last is a bound of the
  model, in which such calls are not described.
* **ModuleLoadProofs**: `TypeCorrect`, `ImportersGetPreparedCorrect`,
  `StubsCorrect`, `OrderCorrect` for any import graph. `OnStack` is why the test
  of the path stack before the table suffices: as long as nothing failed, path
  stack and frames agree, and the stubs are exactly the frames. `Visited`
  makes the order topological: imports already passed are in it.
  `ExportsExactCorrect` and `VerdictRightCorrect` rest on a second invariant,
  `Inv2`. Tables are filled while other modules are in analysis, so that the
  table of one module is exact needs `PreparedClosed`: a finished module imports
  finished modules only. For the verdict, no error, no NULL and no freed path
  comes without one of the four reasons (`Failures`); a module in analysis is
  reached from the imports of those below it (`Traced`), so that meeting one
  again is a cycle of imports; and the outermost call is that of the entry
  (`Rooted`).
* **CtfeMemProofs**: `TypeCorrect`, `LiveAcceptedCorrect` and
  `StaleReportedCorrect` for any memory, sizes and limits. The verdict is taken
  from the tables alone, so the invariant says how they mirror what is there:
  every value has its entry (`Tracked`), a dead entry is that of a value
  (`Fresh`), and an address and the block recorded for it lie in one value
  (`Origins`). This holds only because no address comes up twice: what died is
  in quarantine (`KeptDead`), so that no two values overlap (`Apart`), and the
  quarantine has room because each block in it has an entry of its own and
  `MaxEntries <= MaxQuarantine`. The assumption is what the constants of the
  code say (2,000,000 and 4,000,000); once a table is full the diagnosis is off
  and nothing is claimed.
* **FuncBodyProofs**: `AlwaysReturnsCorrect`, `NoUninitReadCorrect` and
  `FieldsAssignedCorrect` for bodies of any length and nesting, any budget and any
  outcome of the conditions. The proof of the return paths has three parts. First,
  what the recursive functions over blocks compute: a block is made of smaller
  ones (`Parts`: its tail and the blocks in its head), so that an equation whose
  right side looks only at these has one solution (`BlockRecursion`, by the least
  level at which two would differ), and `BuildIs` and `DesugarIs` give each
  function its equation. Then the machine: `Shape` says what a stack of entered
  blocks looks like, and every step of the evaluation either goes on in one of
  them, dropping those inside it that it has finished or jumped out of, or enters
  one block more (`Goes`, `Enters`, `Coarsely`). Last, the invariant: the rest of
  every entered block is well formed with the loops that are really around it
  (`Placed`), and some entered block outside all loops, the outermost if no other,
  is still sure to return (`Returning`). A jump cannot skip that block, since it
  stays inside its loop, which counts as nothing that returns.

  The other two theorems follow the execution only as long as the location is
  unassigned, since afterwards every read is right. Of an analysis they use two sets
  (`Judges`): G, the blocks it accepts in that state, and F, those whose end it takes
  to be reached with the location still unassigned. `WalkJudges` and `TdzJudges` give
  them for `walk_block` and `check_block`, so that one argument serves both. The
  invariant (`Clean`) says that the rest of an entered block is in G as soon as the
  blocks inside it, up to the next loop, are all in F (`Reach`): a jump may come from
  anywhere in a loop body, so a loop's block needs no such reason. For `__init__`
  it adds that the end of the whole body is not reached so (`Comes`).
  Both have premises about the functions, because the code is wrong without them.
  `LooksBehind`: no `continue` goes to a condition of a do-while or an update of a
  `for` that reads the variable, which is the first divergence of section 8.
  `LooksInside`: no `__init__` holds a `for`, do-while or `switch`, which
  `check_stmt` has no case for (`init_tdz.c:317`). TLC evaluates both for the
  checked bodies (`CheckedAssumption` of `MCFuncBody`), and `MCFuncBodyContinue` is
  the run without the first. `LooksInside` serves the read of the field,
  `LooksBehind` that of the variable.

## 7. Only model-checked

Liveness (`CommandsEnd`, the three `Terminates`), which needs ENABLED, and
`FixupClimbs` of `RBTree`, whose measure is recursive. `DefersOnExit` of `FuncBody`,
which holds only of bodies without a jump past a defer outside its loop
(section 8), without a defer behind a jump, and with at most `DeferCap` defers: its
proof would be one about the premises. `Generics`, `Formatter` and `Statements` entirely: they or the references they are compared
with are recursive operators over trees, types and tokens, and what a recursive
definition computes for every input is an induction over data. (Sums over finite
sets, in `AllocatorProofs`, paths down a finite tree, in `RBTreeProofs`, and blocks
of bounded nesting, in `FuncBodyProofs`, are as far as least counterexamples have
been taken here.) `ExitCodeTrue` of
`Install`, which compares `--locked` with a reference by depth; it and
`CommandsEnd` are checked for invocations that do not overlap.

## 8. Findings and other divergences

The expressions, types and statements of section 3 were also compared with the
compiler itself: programs of the instances were built and run, and evaluated
with `comptime`. What is listed as seen was seen there.

### What the extra configurations show

1. `MCFuncBodyContinue`: a `continue` in a `do-while` (likewise in a `for`
   with an update) reaches a condition that definite assignment checked in the
   state after the whole body (`sema/stmt_flow.c:198`); an unassigned variable
   is read, unlike `include/sema/symbol.h:145`.
2. `MCSemaPromised`, `BodiesChecked`: a body walked during a speculative round
   is not walked again (`ctfe/ctfe_call.c:41`); what was wrong with it is never
   reported, unlike `sema/sema_pass.c:77`. The same holds of a function first
   called from a `comptime var`.
3. `MCSemaPromised`, `OrderFree`: whether a program is accepted can depend on
   the order of its declarations (`sema/sema.c:415`), since a round that only
   materialises struct types counts as no progress, and since there are at most
   eight rounds; unlike `sema/sema.c:409`.
4. `MCModuleReexport`: `export * from` a package forwards nothing
   (`driver/driver.c:531`), unlike `docs/whitepaper/08-modules.md:27,47`.
5. `MCGenericsTwice`: two importers of a generic function that use the same
   instance get two functions with one mangled name, and the C does not compile
   (`sema/sema_generic.c:1229`), unlike `docs/whitepaper/06-generics.md:109`.
6. `MCGenericsInferred`: inference sees less than `06-generics.md:69-76` says.
   `Box[T]` of another module is deduced only if the calling module has named
   that very `Box` before (`sema_generic.c:2619-2640`), and not if another
   module made the instance first (1985-1999); a call of an imported generic
   whose parameter has a type of a third module fails with "not an imported
   module" (2662-2665); a `comptime bool` that is written while the rest is
   inferred becomes false (2446-2484).
7. `MCFormatterTree`: the formatter changes the program, unlike
   `docs/whitepaper/12-tooling.md:28-36`, `parser/fmt.c:88-90` and
   `fmt_expr.c:90`. `for (; c; u)` loses its `;`; `comptime foreach` its
   `comptime`; an interface's `func g();` and `[[d]] export func` words. Lost
   parentheses: `(b ? b : b) ? 1 : 2`, `(b = true) ? 1 : 2`, `<(Vec[i32]), T>`,
   `(func() -> T) == y`, `extends <(?)>`, `(-a)[1:2]`, `(a extends b) | c`,
   `a as *(b as T)`, `([4]T).x`, `const (a + b)`, `(1).x`.
8. `MCStatementsConst`: const guards one level. `o.i.a = v` and `o.n[0] = v` are
   accepted for a const `o` (`sema/stmt_assign.c:1047`), also through a pointer
   to const, const fields and elements; the comment at 1045 says a const field
   is not writable, `docs/whitepaper/03-declarations.md:91` that a qualifier
   must not be lost. Const is also lost through the address of a part (`s.a.&`,
   `sema/expr_ops.c:744-771`) and when `k.m = v` is a call of `__assign__`.

### Declarations, modules, instances

* `clux install --force` without `--allow-scripts` never runs a hook
  (`cmd/install.c:263`), unlike `docs/port-packages.md:178`.
* `break` and `continue` run all defers of the function, which run again later
  (`sema/stmt_build_defer.c:175`, with a TODO), unlike
  `docs/whitepaper/04-statements.md:163`.
* A recursion of structs by value through an alias, or through a mixture of
  embedding and fields, is dropped without a diagnostic. The mixture is the
  exception `VerdictRight` of `SemaPasses` names. A generic struct that holds
  itself by value is accepted and gives broken C.
* A module that failed leaves a freed string on the path stack: importing it a
  second time usually adds a bogus "circular" error. `VerdictRight` of
  `ModuleLoad` shows that a program that compiles is never hit.
  `sema->module_path` outlives the string it borrows (`driver.c:763`).
* `clux build main.cx` with a bare file name finds no package root
  (`module_path.c:257`).
* A constant that is converted is neither extended by its sign nor truncated
  (`sema_generic.c:765`); type names are shared by all modules
  (`vm/scope.c:137-143`, `vm/type.c:36`), unlike `08-modules.md:12`; an
  instantiation refused in a speculative round stays refused
  (`sema.c:405-406`); a module's own `Box[i32]` and the one another module made
  of it are two types (`sema_cross.c:150-153`); mangled names can collide
  through `$`; what a template leaves undeclared is looked up in the scope of
  its user; a compile-time call of another module's generic fails, and one of a
  function from its own body walks for ever (`ctfe_call.c:30-40`).
* Of several `default` branches the last is taken (`parse_switch.c:55-74`);
  decorators before `;`, an embedded struct or the end of the file are dropped
  (`parser.c:358-364`, `parse_struct_def.c:116-142`).

### Expressions and assignment

* Accepted by sema, refused by the C compiler: `?i32 = ?i8`, `.?i32{o}` of an
  option, `?i8` from i32 as an argument, `a[0] += s` for structs, `1 + opt`,
  `[]i8 = []i32`, `ptr == slice`, `s = 5` for a `str`, `.U{.p = nil}`, a tuple
  index in an assignment that is no constant, a call of a function value
  (`c_writer_expr.c:331`), `f == g` of function values, `for (i = 0; ...)` with
  an assignment as its first part. `var p: *i32 = a(u8)` and `u8` to `f32` are
  accepted.
* Refused without need: `?i32` from i8 or `const i32`, `f(nil)`, `s.g(nil)` and
  `a[0] = nil`, although variables and fields take nil; a `const func` where a
  `func` is wanted; `len` of a const array. `&=` and `|=` are no tokens.
* Different at compile time and at run time: `t[1] = z` for `<i32, i8>` and
  `?i8` from i32 (truncated; an error at compile time); an i8 index -1 of a
  `[256]i32` (`vm/type_array.c:52-65` reads the last element; the program
  panics); `==` of tuples with array or option elements and of structs with
  array fields; `(a + b) / c` of narrow integers, which C promotes
  (`vm/type_int.c:378-379`); `5000000000 as i64`; `sizeof` of a union, whose
  tag is one byte in `vm/type_union.c:341-374` and a `uint32_t` in
  `c_writer_types.c:132`; a slice of a member array, which is an alias in C
  and a copy at compile time (`ctfe_composite.c:634`).
* `==` and `!=` of tuples are a `memcmp` of the whole object in C
  (`c_lower_expr.c:1246-1250`, `c_writer_expr.c:434-442`), with the padding that
  `c_writer_types.c:254-257` takes care not to compare in structs; the vm compares
  part by part (`vm/type_tuple.c:123-143`). Two equal tuples with padding between
  their parts, as `<i32, i8>`, are equal at compile time and may differ at run time.
  `Compiled` leaves this open (`TuplesIn`), so that `Agrees` ends there; tuples whose
  parts differ, or without padding, and a variable compared with itself, are
  settled. A tuple inside a struct is compared part by part. For a `str` in a
  tuple C compares the pointers and the vm the text (strings are not modelled).
* Accepted by sema and refused by C, because it is no lvalue there: a call's
  result, a conditional or an unwrapped option as an operand of the `==` of tuples
  (`memcmp` takes its address); the address of an element of a tuple that is one of
  these; and the target `o.!.a = v`, which constant evaluation writes into the
  option, and which in C is the copy made by the statement expression of
  `c_writer_expr.c:202-209`. A method called on `o.!` gets `&(o).value` without the
  check for nil (`c_lower_expr.c:1515-1522`): constant evaluation panics, C goes
  on with what lies there. The programs of `MCStatements` have none of these;
  `Compiled` has the first three refused by C, and the last left open.
* Operands are lent and read late at compile time: `x + inc(x.&) * 10` takes the
  new x; C leaves the order of arguments open. The operand of `len` of an array
  or tuple is evaluated at compile time only (`c_writer_expr.c:93-106`); a
  slice `==` evaluates both operands twice in C (`c_lower_expr.c:1247-1254`); a
  call as the first part of a `for` is dropped by the C back end.
* Enum constants are read as signed by their width (`comptime.c:71-79`); two
  enums with the same variants are one type (`vm/type_enum.c:234-300`); a
  member reached through `__deref__` does not dispatch `__assign__`; `var x: i32
  = undefined; x += 1;` is accepted; unsigned numbers are accepted for every
  wider type; `insert_cast` of `coerce.c:36-51` never inserts one.
* By design, and not a divergence: volatile folds to its type; two operators of
  a struct are trusted to keep the contracts `OperatorContracts` states.

### Memory

* Moving or cloning an object made by `allocator_new_ex` leaves it with a class
  that its source frees (`core/allocator.c:207,224`); no caller does it.
* `arena_alloc` wraps for sizes within a few bytes of `SIZE_MAX`
  (`core/arena.c:163`).
* When two million blocks or addresses are recorded, escape diagnosis is off
  without a word (`vm/ctfe_mem.c:143,212`) and blocks are freed at once. "Reuse
  can only miss, never report falsely" (`include/vm/ctfe_mem.h:43-48`) rests on
  the tables being full before the quarantine is: if the quarantine filled
  first, `ctfe_slice_expr` would test an address before it records it anew, and
  `data()` would record a stale owner again. A `realloc` that fails in
  `ctfe_mem_quarantine` has that effect; it is not modelled.
* Blocks that `ptr_clone_block` frees stay alive in the tables
  (`vm/type_ptr.c:410-437`), and a pointer to what lay there later goes
  unreported: the exceptions `StaleReported` names. `make(p, n)` with n beyond
  the value is the programmer's error and not among the inputs.

### Suspected, not seen

`u32 << u64`; the length of a tuple as u64 where usize is meant; structs of
different identity with equal fields convert by value; the copy of a struct to
a prefix of a larger one may overwrite its tail padding; `INT64_MIN / -1` at
compile time; an uncast smaller value in `make_aggregate`; `.*` of a pointer
whose own type is const.

## 9. Not modelled

The rows of `components` with status `not_modelled` give the reason for each.
In short: maps, lexer, desugaring, packages, the order of definitions in the C
unit and the test runner are planned (section 2); wording of diagnostics, text
buffers, ICU, command-line parsing and the layout of the generated C are not,
because no property is about them; the standard library and conformance suite
are programs in the language, not behaviour of the compiler.

Within the modelled components: `rbtree_clone_cb` in `RBTree`; name lookup and
types in `FuncBody`; struct members, enums, unions, metadata and extern
declarations in `SemaPasses`; test blocks and the back end in `ModuleLoad`; the
JSON text of `clux.lock` in `Install`; methods with generics of their own, the
fit of what is passed to a signature and the spread of arrays in `Generics`;
layout and comments in `Formatter`; in `Statements` control statements, C
unions, bit fields, closures, embedded structs, extern calls, strings as
values, construction without a type or through `__init__`, default and named
arguments, and reflection; in `CtfeMem` a `realloc` that fails and the wrap of
the 32-bit block ids, which takes four thousand million blocks and so comes
after the tables are full.

Hazards of `PROJECT.json` without a property: the bodies of `for`, `do-while` and
`switch` in an `__init__` (`sema/init_tdz.c:317`) and the assignment of a const
after an `if` (`sema/stmt_assign.c:519`), where the code is known to accept what it
should not. Of four others the instance of their property leaves a case out, as
their notes say: a lowered ceiling (`core/allocator.c:133`), sizes that wrap
(`core/arena.c:163`), a `continue` to a do-while condition or an update
(`sema/stmt_flow.c:252`, shown by `MCFuncBodyContinue`), and a jump out of a block
with a defer (`sema/stmt_build_defer.c:388`).
