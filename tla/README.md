# A TLA+ development for VMIR

VMIR loads LLVM bitcode, transforms each function in several passes into the
code of a register machine, and interprets it (or, on 32 bit ARM, partly
compiles it). The guest lives in one block of memory with its own heap, stack,
file descriptors and C library. Everything runs in one host thread; what is hard
is not concurrency but long sequences of state changes that must agree with each
other: a parser whose value numbers must match the writer's although values are
used before they are defined, a dozen passes that rewrite one graph, a register
allocator that adjusts its counts while it merges values, an emitter and an
interpreter that agree by convention only, a heap driven by any sequence of
calls, calls that nest through external functions and are cut short by `longjmp`.

The modules here model those parts, TLC checks them on small instances, and
TLAPS proves the main invariants of some for every instance. `PROJECT.json` maps
each definition to the source lines it stands for.

## The system and its parts

| Part | State | Operations | Model |
|---|---|---|---|
| Bitstream reader (`vmir_bitstream.c`) | position, bits left of a byte | read fields, align | `Bitstream` |
| Bitcode parser (`vmir_bitcode_parser.c`) | block stack, abbreviations, records | enter and leave blocks, define abbreviations, expand records | `Bitcode` |
| Type and value tables (`vmir_type.c`, `vmir_value.c`) | `iu_types`, `iu_values`, globals | add, look up, forward reference, lay out, evaluate | `IrUnit` |
| Instruction parser (`vmir_instr_parse.c`) | the function's blocks | one handler for each record | `InstrParse` |
| Unit lifecycle (`vmir.c`) | the unit | `vmir_load` with its error exit, `vmir_destroy` | `Bitcode`, `FdTable` |
| Combining and legalisation (`vmir_transform.c`) | instructions and their uses | `replace_*`, `combine_*`, `legalize_*` | `Rewrite` |
| Control flow graph passes (`vmir_transform.c`) | blocks, edges, PHIs | `construct_cfg`, `break_crtitical_edges`, `exit_ssa`, `eliminate_dead_code`, `coalesce`, `remove_empty_bb` | `Cfg` |
| Leaving SSA form (`exit_ssa_edge`) | a list of nodes and a list of moves | retire moves, break cycles | `PhiLift` |
| Call preparation and register allocation (`vmir_transform.c`) | liveness sets, interference matrix, `iv_edges`, colours, registers | `prepare_calls`, `liveness_update`, `coalesce`, `reg_alloc`, `finalize_call_args` | `RegAlloc` |
| Emitter (`vmir_vm.c`) | text, block offsets, fix-ups | `emit_*`, `instr_emit`, `branch_fixup` | `Words`, `Emit` |
| Interpreter (`vm_exec`) | instruction pointer, register frame | one handler for each opcode | `VmExec`, `Bytecode` |
| Calls (`vmir_vm.c`) | host stack, `iu_err_jmpbuf`, alloca stacks, `iu_stack_stash` | `vmir_vm_function_call`, call, invoke, return, resume, alloca, `vm_stop` | `VmCall` |
| C++ exceptions (`vmir_libc.c`) | `iu_exception`, headers of exceptions | allocate, throw, rethrow, begin and end of a catch, free | `CxxException` |
| Built-in heap (`vmir_libc.c`, build without TLSF) | queue of block headers | malloc, calloc, free, realloc | `Heap`, `Allocator` |
| Descriptors and streams (`vmir_libc.c`, `vmir.c`) | `iu_vfds`, its free list, `iu_vfiles` | open, close, fopen, fdopen, fclose, `vmir_fd_create`, `vmir_fd_close`, `vmir_destroy` | `FdTable` |

How they interact. `vmir_load` reads the file block by block (`Bitcode` over
`Bitstream`), fills the tables (`IrUnit`), and at the end of each function body
(`InstrParse`) calls `transform_function` and `vm_emit_function`.
`transform_function` first replaces and combines instructions (`Rewrite`), then
runs `Cfg`'s passes in order; `exit_ssa` calls `exit_ssa_edge` (`PhiLift`) for each
edge; `prepare_calls` runs between `exit_ssa` and `eliminate_dead_code`, and
`Rewrite`'s last pass after it; liveness, coalescing and colouring (`RegAlloc`)
follow, and `coalesce` ends with `remove_empty_bb`, again a pass of `Cfg`.
`vm_emit_function` (`Emit`) writes the words that `vm_exec` reads (`VmExec`);
`Bytecode` composes the two. The interpreter takes each call's alloca stack from the
heap, external functions (libc, the embedder's) call back into the machine
(`VmCall`), the C++ run time throws through these calls (`CxxException` extends
`VmCall`), and streams are heap objects that own a descriptor (`FdTable`).

What makes each part correct: a file is loaded as it was written; a rewritten
function computes what the parsed one did, in the same order; edges, branches
and PHIs agree; moves have the effect of a simultaneous assignment; every
instruction finds its operands in its registers; the words do what the
instruction means; a stop returns to the innermost call, and an exception
reaches the invoke it belongs to and is freed once; the heap's blocks tile the
memory and a guest owns what it was given; a descriptor in use is never handed
out again. `PROJECT.json` lists under "hazards" where in the code each of these
can go wrong.

## Not modelled

* ARM JIT: its result is machine code, and a model would need one of the CPU. With it
  go the parts of the allocator and of the emitter under `VMIR_VM_JIT`.
* TLSF: vendored; the wrappers in `vmir_libc.c` add and subtract block sizes.
* printf, strings, clock: functions of their arguments that call the host's.
* The byte order functions of `vmir_mem.c` (for a host of the other order).
* Floating point arithmetic: the host's. Comparisons are modelled, with
  unordered operands.
* Reading, writing and seeking on descriptors; file names.
* The host's side of a call (`va_list`), statistics, printing, `main.c`.

## The modules

**Bitstream, IrUnit, InstrParse, Bitcode** load a file. A stream is a position;
the readers are functions of it, and return 0 at the end of the input as
`read_bits` does. The handlers of records take a unit and a record's arguments
and give the unit after it; an operand is relative to the next value number, in
`UintBits` bits, and one that is not defined yet carries its type. `Bitcode` is the
state machine: `calls` is the recursion of `ir_parse_blocks`, one step one turn of its
loop; `parser_error` ends it in the error exit of `vmir_load`; a NULL dereference, a
read outside an object or a failed assertion ends it in "crash", and what the code would do after
one (or with `NDEBUG`) is left open. Two modules are the reference: **BitWriter** encodes a program
into bytes the way LLVM's writer does, and **BitProgram** says what the program
is. Neither shares a definition with the loader. The passes over a function
appear only as what the loader sees of them: temporaries in the value
table (`TmpMax`), which must be gone before the next function, and callees marked as used.

**Rewrite** takes functions as the parser leaves them. Each step is one
iteration of one loop of `replace_instructions`, `combine_instructions`,
`legalize_temporary_values` or `legalize_instructions`. `Run` executes a function of
either form and knows nothing of the passes; `Preserved` compares the function
parsed with the function now. `Run` enters blocks through PHIs, has memory, calls, traps
and unwinding, and reading a temporary whose instruction was destroyed gives `DEAD`.

**Cfg** takes a function of `NumBBs` blocks with every choice of terminators, of
blocks with PHIs, of blocks that hold instructions besides PHIs and the
terminator, and of INVOKEs with by-value arguments. Blocks execute tokens, so what is
executed can be compared before and after. `todo` is what the current pass still
has to visit: the code walks lists that it changes. Which moves are gone
before `remove_empty_bb` (`eliminate_dead_code_in_bb` destroys those of a PHI nobody reads,
`coalesce` those within one register) is a nondeterministic choice here, of any set of them;
`RegAlloc` makes `coalesce`'s.

**PhiLift** is one call of `exit_ssa_edge`. The node list is modelled with its
`next` and `prev` pointers because the code unlinks some nodes twice, and
`LIST_REMOVE` leaves the pointers of a removed node in place: the effect depends on
them. `regs` executes the moves as they are emitted.

**RegAlloc** takes straight or looping code as `eliminate_dead_code` leaves it: a
temporary is defined once, or only by moves (it was a PHI). `Shapes` says
which functions: their number of instructions, of operands, of arguments and of branches,
how many operands the condition of a branch has, how many temporaries are wide, whether calls go
through a temporary, and which instructions may have a result that nobody uses: a call always may,
the others when what used them was destroyed after they were looked at. It follows the
passes up to the registers, then executes the result: `val` is what the
program says each temporary holds, `reg` what the register frame holds. The
interference matrix is a set of pairs; `iv_edges` is kept separately, as in the
code. `qsort` leaves ties in any order, and so does `ColorNext`. The colour table has
`WordBits` bits to a word, 32 in the code. A callee finds its arguments below its
own frame, as `value_alloc_function_arg` and the call instructions place it.
Left out: STACKCOPY, moves from constants or arguments, and JIT registers.

**Words, Emit, VmExec, Bytecode**. Words hold the scaled integer types and the 16
bit words of the text; a word remembers the width and part it was written with,
so an operand read at the wrong place or with the wrong width gives `Garbage`.
`Emit` has one operator for each `emit_` function, `VmExec` one for each group of
handlers. `Bytecode` emits a function instruction by instruction, resolves its branches and runs
it. `Meaning` says what an instruction of the intermediate code does from its types and
operands; it uses neither opcodes nor words. `Claimed` leaves out what LLVM leaves
undefined (`Poison`) and the deviations listed below (`Deviates`).

**VmCall**. `stack` is the host's stack of activations (`vmir_vm_function_call`,
`vm_exec`, external functions); a `jmp_buf` is a position in it. Return values
travel through `pending`. `vm_stop` cuts the stack at `iu_err_jmpbuf` and leaves
its reason in `pending`: exit, abort and `std::terminate` stop from an external function
(`ExtReasons`), where the last gives the reason of an uncaught exception with none in flight, and
`vm_exec` stops by itself (`ExecReasons`). `Reported` is what the host should learn of a call. `IndirectThrows` says
whether external functions called through a pointer may throw (see below).

**CxxException** adds to each activation what its registers hold of exceptions
(`regs`), to each address an exception can be placed at its header (`header`), and
the unit's `iu_exception`. The guest is C++ as a compiler translates it: it cleans up in
landing pads, ends a handler before it leaves it, returns with none open.
`carried` is the exception in flight as C++ has it, kept apart from `iu_exception`: a
landing pad must receive it. Two calls end the process (`crashed`): an allocation when the heap is full,
whose header is cleared through NULL, and a throw with a destructor, which an assertion refuses.

**Heap** follows the `#else` branch of `VMIR_USE_TLSF`. `h_blocks` is the queue
of `heap_block_t` headers; `Take` is the cut in `vmir_heap_malloc`, `MergeNext`
and `FreeBlock` are `vmir_heap_merge_next` and `vmir_heap_free`, and `Realloc` has one
alternative for each way through `vmir_heap_realloc`. `live` is the guest's view: what
it asked for and may use. A failed `assert` and the read below NULL of
`realloc(NULL, n)` end the behaviour in `crash`. The guest frees and reallocates
only what it owns. A size is an `int` in `vmir_heap_malloc`, and `Need` wraps around as it does;
`SizesAssumption` says that the sizes the guest asks for, calloc's products included, fit with their
header, for the code does not check it and with larger ones the heap is damaged. The
Makefile builds with TLSF unless it is told not to; `src/README.md` calls the
built-in allocator the default. **Allocator** is the abstract specification: the
regions a guest owns lie in the heap and never overlap, and a failed call takes
nothing away. `Heap` implements it with `live` mapped to itself.

**FdTable**. `fh` and `freelist` share memory in `vmir_fd_t`; here they are one
field `u`, so an entry closed twice or handed out while open damages the list as
it does in C. `vmir_fd_close` calls the release callback before it puts the entry
on the free list; closing is therefore two steps, and in between the callback
may close other descriptors (`closing` is that stack). The guest and the embedder
close what they were given, once.

**HeapProofs**, **PhiLiftProofs**, **VmCallProofs**, **RegAllocProofs**,
**FdTableProofs**, **CxxExceptionProofs** and **CfgProofs** hold the theorems;
**SeqLemmas** has what several of them need: `InsertAt`, `RemoveAt` and `FlattenSeq`
element by element, and induction over the naturals. The MC modules hold constants,
the programs and files to run, and symmetry.

## The runs

| Run | Bounds | Shows |
|---|---|---|
| `load` | 4 programs in 8 encodings each, a file that ends early, 11 programs and one file to refuse, 10 the loader does not survive | types, values, bodies, memory, names and constructors are what the writer wrote; a file ends in success, error or crash as it must; every step consumes input or ends a block |
| `rewrite` | 324 functions of one to three blocks, offsets up to 5, 40 cells of memory | every rewrite keeps what is computed, nothing is left that the emitter cannot handle, the passes end |
| `cfg` | every function of 3 blocks, 2 with several targets | graph, PHIs and behaviour over all passes, their end |
| `phi_copy` | 5 values, 4 PHIs | the moves are one parallel assignment, the loop ends |
| `phi_only_cycles` | 6 values, 5 PHIs, symmetry | violation: the cycle loop starts off a cycle |
| `regalloc` | 3 temporaries; 4 instructions with calls of 2 arguments, one of 64 bits, direct or not, results unused; 4 with two operands or a branch on a condition; 5 with a branch anywhere | liveness, edge counts, colours; everything read is right; the passes end |
| `bytecode` | 1,960 functions, with and without block instrumentation, 10 register files, widths 3, 4, 5, 10 for 8, 16, 32, 64 | the words do what the instruction means, and control goes where the program says |
| `bytecode_uge` | same | violation: unordered-or-greater-or-equal tests less-or-equal |
| `vm_call` | 7 activations, 3 stacks, 2 allocas, stops for 4 reasons | `jmp_buf` chain, alloca stacks, exceptions, what the host learns |
| `cxx_exceptions` | 6 activations, 2 stacks, 3 exceptions, symmetry | landing pads receive the right exception; none is freed in use or left behind |
| `heap` | 200 bytes, headers of 24, requests 0, 20, 44, calloc of 2, ints up to 1023 | the invariants of the heap, moves of realloc, refinement of `Allocator` |
| `fd_table` | 3 handles, 3 entries | free list, ownership, end of `vmir_destroy` |

Why the bounds are enough.

* `load`: the four programs between them have every kind of type, constant, call and instruction, a
  forward reference of each kind, globals that point to each other, two
  functions whose numbering must restart, and a module symbol table before or
  behind the bodies. An address has 20 bits (`W32`), more than any address in the
  programs. Memory starts out as `Leftover`, so what is not initialised shows.
* `rewrite`: one function for each rewrite and for each reason not to do it (other
  uses, a redefinition or a block boundary between the two, an offset just beyond
  `ImmMax`). A value that is used in another block, a chain of address computations
  and an aggregate passed through PHIs, calls and memory are among them.
* `bytecode`: one function for each instruction, type and class of operand
  (register, constant, global), and functions whose branches go to every place. The
  widths are different, so that sign extension, truncation and the halves of a
  64 bit slot are told apart, and small, so that every carry and sign
  occurs in the ten register files. `OffMax` words of offset and `TextMax` words of
  text are reached: some functions must be refused.
* The heap holds up to four blocks, so a free block can have free or allocated
  neighbours on both sides, a block can be cut, taken whole or be too small, and
  the end of the heap is reached.
* Three descriptors give every shape of free list with a callback that closes a
  second one.
* Four PHIs hold a cycle of two next to a chain of two; the damage to the node
  list first shows with five.
* Seven activations hold two calls nested in a third through external functions.
  Three exceptions can be in flight, caught and about to be thrown at once.
* Three blocks give critical edges, loops, unreachable code, diamonds without a
  join block and empty blocks that branch to empty blocks; new blocks come on top.
* Three temporaries with argument slots give chains of merges and common
  neighbours; with one bit to a word (`WordBits`) the colour table grows word by
  word as it would at 32 values.

Deadlock is checked in `load`, `rewrite` and `bytecode`, where a step that is stuck
would be a case the code forgot; their end states stutter explicitly. The other parts may
stop (the passes are done, the guest makes no more calls, the unit is destroyed).

Fairness. `PhiLift`, `Cfg`, `RegAlloc` and `Rewrite` are loops in one thread that
wait for nothing: weak fairness of `Next` says the host goes on executing them. In
`FdTable` only the steps of a close under way and of `vmir_destroy` are fair, for
the same reason; nothing says a guest ever makes a call. The loader needs no
fairness for its end: `Advances` gives a measure that every step lowers or ends a
phase with, and no step is stuck. `Heap`, `VmCall`, `CxxException` and `Bytecode` state no liveness.

### What the violations show

* `phi_only_cycles`: a node removed from the list twice brings a removed
  neighbour back, and with five PHIs the cycle loop starts from a retired node.
  It takes a chain and a cycle on one edge (`PhiLiftParallelCopy`).
* `bytecode_uge`: UGE on doubles and floats, with registers and with constants,
  tests `<=`.

### Limits the passing properties name

Where a passing property leaves a case out, the model has it as a constant or
as a named condition:

* `BehaviourKept` (`HasEntryFar`, `EntryBared`): `remove_empty_bb` removes empty blocks at the
  start, and the function then starts at whatever block is first. That is wrong when it
  starts with empty blocks, each branching to the next, up to one that branches past the
  next, or when the last of them held moves into PHIs and these are removed (`EntryBared`). Nothing
  else changes behaviour (`CfgBehaviourKept`). With three blocks only the
  entry itself can branch past the next; the proof showed that the others matter.
* `Accepted`: `exit_ssa_edge` refuses PHIs with two entries for one predecessor
  (a switch with two cases to one block), which LLVM requires there; and
  `bb_change_branch` aborts on a block whose INVOKE has by-value arguments,
  because `prepare_call` puts STACKSHRINK after the terminator. Nothing else is refused.
* `LiveCodeReturns`: an unreachable block that branches to itself and has
  other instructions is merged with itself for ever. Nothing else loops.
* `IndirectThrows` is FALSE: JSR_R ignores what an external function returned
  (`vmir_vm.c` 672), so an exception thrown by one called through a pointer is lost.
* `Rethrows` is {FALSE}: with BOOLEAN both properties of `cxx_exceptions` fail, for
  `__cxa_rethrow` reads the exception from arguments, and a compiler passes it none.
* `SelfAdd` is FALSE: `combine_binop_add_mul` turns x = a*b; x + x into a
  multiply-add whose other operand is the x it destroys (`vmir_transform.c` 2403).
* `realloc(NULL, n)` of the built-in heap reads a header below NULL (`ReallocNull`);
  and `vmir_heap_free` merges a freed block with its predecessor without asking
  whether that is free, so the block is lost until the predecessor is freed
  (`EmptyHeapIsWhole` is proved: no longer than that). `FailsOnlyWhenFull` counts it as allocated.
* `Ownership` lets a failed `fdopen` take the guest's descriptor, as the code does (`vmir_libc.c` 740).
* `MemoryRight` has no array of a struct that is laid out later.
* `vmir_destroy` closes streams but not descriptors without one: what is in
  `hostopen` at `TerminateDone` stays open.
* `Deviates` in `Bytecode`: UGE as above; UNO tests its first operand twice; a
  truncation to i1 and a load of i1 test the byte where bit 0 is asked for; a pointer
  converted to i64 emits nothing; UDIV, UREM, LSHR and SHL of i1, i8 and i16 use the
  whole slot, whose upper bits may be dirty; what tests or stores an i1 needs a clean
  slot; a load's multiplier is cut to 16 bits; and JSR_R as above.

Met while modelling and outside what is claimed: `parse_switch` masks 64 bit
cases with `~1ULL` (`vmir_instr_parse.c` 1090); global addresses are signed 32 bit; UMULO32 without the
compiler's builtin multiplies in 32 bits; STACKSHRINK after an INVOKE never runs,
and STACKCOPY aligns where STACKSHRINK does not; VM_NOP makes
`replace_instructions` skip the next instruction; nested constant aggregates are
split at the top level only; constants that name later aggregates are refused (`vmir_bitcode_parser.c` 554);
binary and compare constant expressions evaluate before their operands do
(`vmir_value.c` 883); arrays of structs that are declared later are sized from
fields not set yet (`vmir_type.c` 664); a file that ends at a block boundary is
accepted; a parse error leaks the text buffer and block list (`vmir.c` 903); the function with number 0
has address 0 (`vmir_value.c` 297); sizes above `INT_MAX` wrap in `vmir_heap_malloc` (`vmir_libc.c` 182);
`__cxa_allocate_exception` does not test for NULL (`vmir_libc.c` 1558); a negative struct index passes the test for
one that is too large (`vmir_instr_parse.c` 738, 1202); an integer attribute without its value makes `argc` wrap
(`vmir_bitcode_parser.c` 269); a PHI without nodes gets one (`vmir_instr_parse.c` 846); constant expressions
dereference entries nobody filled (`vmir_value.c` 892, 936, 972); `vmir_fd_create` before `vmir_load` takes entry 0
of an empty table (`vmir_libc.c` 425); `iu_stdout` is stale after the guest closes it
(`vmir_libc.c` 931); `iu_current_frame` is stale after a `longjmp` (`vmir_vm.c` 551).

## What is proved

All constants are arbitrary within the named assumptions (`HeapAssumption`,
`SizesAssumption`, `PhiAssumption`, `PhiNames`, `VmAssumption`, `RegAllocAssumption`, `ShapesAssumption`,
`FdAssumption`, `CxxAssumption`, `CfgAssumption`), which TLC evaluates in the runs.

*Heap.* `HeapTiled`, `HeapCoalesced`, `HeapGuestOwnsAllocated`, `HeapAssertsHold`,
`HeapTypeOK` from the invariant `HeapInv`. Tiling says that each block ends where
the next begins; to know that distinct blocks have distinct payloads, and that
a pointer identifies its block, the order of all pairs (`InOrder`) is carried along. That
free blocks are never neighbours needs the two merges of one free together:
after the first, the block and its successor are separated, after the second
the predecessor too. `HeapEmptyIsWhole` follows: with nothing owned no block is
allocated, no two free ones are neighbours, so there is one, and it is the
heap. `HeapImplementsAllocator` shows each call to be a step of `Allocator` or none:
a new payload lies in a block that was free, hence apart from the owned ones.
`HeapFailsOnlyWhenFull`: a failed call left no free block that is large enough
(`LastFailed`); a stretch without allocated blocks touches at most one free block, since
free ones are never neighbours, so it lies within that block and is too small.
`HeapMoveKeepsContents` compares the block `malloc` returned inside `realloc` with the one
that is freed afterwards.

*PhiLift.* `PhiLiftPassesParallel`: for any number of PHIs in any order, with
whatever damage to the node list, the passes emit a move only when its
destination is no longer read. `LiftInv` adds that pending moves have distinct
destinations, that a pass visits pending moves only, and that no pending move
reads a value already written. `PhiLiftTypeOK`. `PhiLiftParallelCopy`: for any number
of PHIs in any order, the emitted moves are one parallel assignment and nothing is read
through NULL, unless a chain (a value written and read off a cycle, `NoChain`) and a
cycle (`NoCycle`) are both on the edge. It delimits the error `phi_only_cycles` shows:
without a chain no node is unlinked twice, and without a cycle the node list is not
looked at again. `CopyInv` says that in the first case the pointers always form a list
of exactly the nodes pending moves name (`ListOf`, with an age for every node so
that none is off the list), that what the passes leave are the values both written
and read, which the moves permute, and that a walk has removed its cycle from `start` up to
`cur`; and that in the second a pass without progress cannot leave a move (`PassComplete`).

*VmCall.* `CallJmpbufInnermost`, `CallStacksAccounted`, `CallTypeOK` at every depth. `CallInv`
adds `Nesting`: a call into the machine sits on an external function, no
instruction runs in `vmir_vm_function_call` itself. Without it the innermost
call could not be told from what a return uncovers. `CallAllocasDisjoint` adds
`FramesOK`: frames that share a block lie in the order of the activations, and a
block belongs to the innermost call below them, which is what a `longjmp` cuts back to.
`CallExceptionsArrive` has two parts. From `FlightInv`, an exception in flight
always stands at an instruction that looks at what its callee returned, so it only unwinds. And
the host learns how each call ended (`Reported`), although exceptions, stops and returns share
one integer and `std::terminate` gives the number of an uncaught exception: what comes without a
`longjmp` is 0 or 1 (`PlainReturns`), 1 only with an exception. Its hypothesis
`~IndirectThrows` is the limit named above.

*CxxException.* Its actions are those of `VmCall` or leave the variables of the machine
alone, so the invariants above carry over (`CxxCalling`). `CxxPadsRight` from `PadsInv`: `iu_exception` is
the exception last thrown or resumed even while none is in flight, because a
cleanup that runs in between may throw and catch its own. `CxxAccounted` from `CxxInv`: each
exception is in one place only (`Unique`), counts a handler exactly while it
is handled (`Fits`), and the list of caught exceptions has those being handled
in the order of the activations, innermost first, among those that stopped calls
left there (`Listed`); so `__cxa_end_catch`, which takes the head of the list, takes
the one it means. `Waits` says what a caller may hold at a call without a landing
pad. The counts are sums over the activations (`Held`, `New`), unfolded step by step.

*FdTable.* `FdFreeListSound`, `FdOwnership` from `FdInv`. The free list is a
sequence that the invariant states to exist: each closed descriptor once, linked through
`u`. An entry being closed is on neither side until the callback has returned
(`closing`), and the callbacks that nest are distinct descriptors.

*Cfg.* `CfgGraphConsistent` and `CfgAccepted` from `CfgInv`, for functions of any
size. Agreement of branches, edges and PHIs is not inductive: `break_crtitical_edges`
walks the edges that were there before the first was split. That a listed edge is still
there needs lists without repetitions, and that an id is left for each new block needs the
branches still to be visited to be counted (`EdgesListed`). That the passes after
`exit_ssa` may move edges without looking at PHIs needs these to be gone, which
`exit_ssa` does block by block (`PhisLeft`); and that it fails only for two entries of one
edge needs the entries to be those that were parsed (`EntriesParsed`). One lemma for
each of the five ways the graph is rewritten (`SplitGraph`, `SplitPhis`,
`DestroyGraph`, `MergeGraph`, `RemoveGraph`) is about graphs as such and names no state.
`CfgBehaviourKept`, also for any size, is about what is executed. What the blocks of the
function as parsed execute solves one equation for each block: its tokens, the moves of
the edge it takes, then what the next block executes. A solution `V` is built once
(`SolutionExists`, from the traces), and any solution agrees with the traces up to
`Horizon` (`SolutionTraced`) if the blocks that execute nothing are ranked by the
jumps to one that does (`R`); without the rank, blocks that jump to each other for ever would
solve their equations with anything. `FlowInv` says that the same `V` solves the equations
of the graph as it now is, so each pass has to keep only the equations it touches. Up to
`exit_ssa` the moves are on the edges (`EarlyFlow`), after it in the blocks (`LateFlow`); the
step between is right because an edge into a block with PHIs is then its block's
only way out (`Settled`, what `break_crtitical_edges` is for). Which moves
will be removed is not known before, so `FlowInv` holds for every choice. Where the
function starts is an argument of its own: blocks that nothing is executed before
(`Leads`) stay at the front of the list (`Leading`), and one of them is left at the end, because
one that executes nothing goes on to the next (`EntryHeld`, where `HasEntryFar` and `EntryBared` enter).

*RegAlloc.* All for every function: any number of instructions, calls, branches and
loops. `EdgeCountsRight`, `ColoringProper`, `ColorAlwaysFound` from `AllocInv`. The
count is the heart: when `killed` is merged into `saved`, a common
neighbour loses one edge, another neighbour keeps its number, and `saved` gains
those it did not have (`MergeCounts`). Hence no value has more neighbours than
`graph_degree`, the table has one colour more than that (`ColorTableSize`), and
one is left (`ColorLeft`). `LivenessRight`: while the rounds run, what is stored as
live is contained in every set that has the uses of a value and goes back over what
does not define it (`LiveLeast`), and when a round changes nothing the equations hold
(`LiveFixed`); the least solution is what `Wanting` finds, because following edges between
n places n times finds everything (`FoundFacts`). `ReadsAlwaysRight` joins the passes.
`Compiled` says that there are a code, the places where its blocks start and a renaming
such that the instructions are the code, renamed, without the moves that the renaming made
trivial (`RenamedTo`), that a temporary is renamed to one of its width or, with 32
bits, to an argument slot (`RepGood`), and that what an instruction defines still
interferes, renamed, with what is live after it (`ApartIn`). A merge changes the
renaming and keeps all three (`CompiledMerge`). `RegsOK` says that values of one width share
a register exactly if they share a colour and that all others are apart, the slots at
the end of the frame included. Then `Running` holds at every step: what is live is in the
register of the value it was renamed to, and the arguments moved so far are
where the callee looks for them. What is live but not defined on every way would
break it at the first instruction; that nothing is (`EntryClean`) is what
`WellFormed` gives.

Induction over positions and lengths is done with two lemmas of `SeqLemmas`
(`LeastNatural`, `NatSetInduction`) instead of the library's induction theorems, whose
parameter is an operator. They also unfold recursive functions (`FlattenUnfolds`).

Only model-checked: everything that is liveness (`Terminates`, `DestroyReturns`,
`LiveCodeReturns`, `AllocationEnds`, `TransformEnds`), which is beyond the prover; the modules
of the emitter, the interpreter, the rewriting passes and the loader, whose
operators are RECURSIVE or use bit operations; and `ParallelCopy` where an edge has both
a chain and a cycle, which is right with four PHIs and not in general.

## Plan

Done: `Heap` with `Allocator`, `PhiLift`, `FdTable`, `VmCall`, `Cfg`, `RegAlloc`; the
emitter and interpreter, the rewriting passes, the loader and the C++ exceptions; and
theorems about every module whose definitions the prover can handle.

Next, in this order:

1. printf's arguments, TLSF accounting, descriptors made before a load.
