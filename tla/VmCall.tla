------------------------------- MODULE VmCall -------------------------------
(***************************************************************************)
(* Calls into, inside and out of the virtual machine: the embedder's       *)
(* vmir_vm_function_call, the interpreter's vm_exec with its call and      *)
(* invoke instructions, external functions that call back into the VM, C++ *)
(* exceptions as return value 1, and vm_stop, which longjmps to the        *)
(* innermost vmir_vm_function_call (vmir_vm.c).                            *)
(*                                                                         *)
(* The host's stack is the sequence stack of activations, the last one     *)
(* running.  A jmp_buf is the position of the activation it belongs to, an *)
(* alloca stack is a heap block, and allocaptr an offset into it.          *)
(***************************************************************************)
EXTENDS Integers, Sequences, SequencesExt

CONSTANTS
  Blocks,          \* addresses at which the heap can place an alloca stack
  MaxDepth,        \* bound: activations on the host's stack
  MaxAlloca,       \* bound: alloca bytes of one stack, in allocations
  IndirectThrows   \* whether external functions called by pointer may throw

ASSUME VmAssumption ==
  /\ Blocks \subseteq Nat \ {0}
  /\ MaxDepth \in Nat
  /\ MaxAlloca \in Nat
  /\ IndirectThrows \in BOOLEAN

NULL == 0

VM_STOP_OK                 == 0
VM_STOP_EXIT               == 1
VM_STOP_ABORT              == 2
VM_STOP_UNREACHABLE        == 3
VM_STOP_UNCAUGHT_EXCEPTION == 6
VM_STOP_BAD_ARGUMENTS      == 8
VM_STOP_OUT_OF_MEMROY      == 9

(* The reasons external functions give to vm_stop: exit, abort and          *)
(* std::terminate.                                                         *)
ExtReasons == {VM_STOP_EXIT, VM_STOP_ABORT, VM_STOP_UNCAUGHT_EXCEPTION}

(* Those vm_exec gives: VM_STOP_UNREACHABLE stands for a bad instruction   *)
(* and a function that is not resolved too.                                *)
ExecReasons == {VM_STOP_UNREACHABLE}

StopReasons == ExtReasons \cup ExecReasons

Codes == StopReasons \cup {VM_STOP_OK, VM_STOP_BAD_ARGUMENTS, VM_STOP_OUT_OF_MEMROY}

RUN == -1   \* no return value is being delivered

Kinds == {"call", "exec", "ext"}   \* vmir_vm_function_call, vm_exec, external
Sites == {"none", "jsr", "jsr_r_ext", "invoke"}

VARIABLES
  stack,           \* activations, outermost first
  pending,         \* return value on its way to the last activation, or RUN
  jumped,          \* it came from vm_stop through longjmp
  iu_err_jmpbuf,   \* position of the activation vm_stop jumps to, or NULL
  iu_stack_stash,  \* alloca stack kept for the next call, or NULL
  inheap,          \* alloca stacks allocated from the heap
  flying,          \* an exception has been thrown and not been caught
  result           \* what vmir_vm_function_call returned last

vars == <<stack, pending, jumped, iu_err_jmpbuf, iu_stack_stash, inheap, flying, result>>

(* lo, hi: allocaptr on entry and now; block, prevjb: locals of            *)
(* vmir_vm_function_call; site: the instruction waiting for its callee.    *)
Activation == [kind : Kinds, site : Sites, lo : Nat, hi : Nat, block : Nat, prevjb : Nat]

Act(kind, site, lo, hi, block, prevjb) ==
  [kind |-> kind, site |-> site, lo |-> lo, hi |-> hi, block |-> block, prevjb |-> prevjb]

Top == stack[Len(stack)]
Pop == SubSeq(stack, 1, Len(stack) - 1)

(* The running activation with its site or its allocaptr changed. *)
Waiting(site) ==
  [stack EXCEPT ![Len(stack)] = Act(Top.kind, site, Top.lo, Top.hi, Top.block, Top.prevjb)]
Moved(hi) ==
  [stack EXCEPT ![Len(stack)] = Act(Top.kind, Top.site, Top.lo, hi, Top.block, Top.prevjb)]

Running(kind) == pending = RUN /\ stack # <<>> /\ Top.kind = kind

Init ==
  /\ stack = <<>>
  /\ pending = RUN
  /\ jumped = FALSE
  /\ iu_err_jmpbuf = NULL
  /\ iu_stack_stash = NULL
  /\ inheap = {}
  /\ flying = FALSE
  /\ result = VM_STOP_OK

-----------------------------------------------------------------------------
(* vmir_vm_function_call *)

(* Called by the embedder, or by an external function. *)
MayCall == pending = RUN /\ (stack # <<>> => Top.kind = "ext")

(* setjmp, then vm_exec or the external function at once.  The caller's    *)
(* own frame F holds allocaptr.                                            *)
Enter(block, kind) ==
  /\ Len(stack) + 2 <= MaxDepth
  /\ stack' = stack \o <<Act("call", "none", 0, 0, block, iu_err_jmpbuf),
                         Act(kind, "none", 0, 0, block, NULL)>>
  /\ iu_err_jmpbuf' = Len(stack) + 1
  /\ UNCHANGED <<pending, jumped, flying, result>>

(* Mutant of StashTaken: the stash keeps pointing to the stack in use. *)
StashTakenKept == iu_stack_stash

(* iu->iu_stack_stash = 0 *)
StashTaken == NULL

CallWithStash(kind) ==
  /\ MayCall
  /\ iu_stack_stash # NULL
  /\ Enter(iu_stack_stash, kind)
  /\ iu_stack_stash' = StashTaken
  /\ UNCHANGED inheap

(* vmir_mem_alloc(iu, iu->iu_asize, NULL) *)
CallWithNewStack(kind, block) ==
  /\ MayCall
  /\ iu_stack_stash = NULL
  /\ block \notin inheap
  /\ Enter(block, kind)
  /\ inheap' = inheap \cup {block}
  /\ UNCHANGED iu_stack_stash

(* A parameter whose type cannot be passed: return before anything changes. *)
CallBadArguments ==
  /\ MayCall
  /\ result' = VM_STOP_BAD_ARGUMENTS
  /\ UNCHANGED <<stack, pending, jumped, iu_err_jmpbuf, iu_stack_stash, inheap, flying>>

CallOutOfMemory ==
  /\ MayCall
  /\ iu_stack_stash = NULL
  /\ result' = VM_STOP_OUT_OF_MEMROY
  /\ UNCHANGED <<stack, pending, jumped, iu_err_jmpbuf, iu_stack_stash, inheap, flying>>

(* Mutant of Outcome: a longjmp with VM_STOP_EXIT is taken for an exception. *)
OutcomeAnyOne(viajump, r) == IF r = 1 THEN VM_STOP_UNCAUGHT_EXCEPTION ELSE r

(* if(r == 1) r = VM_STOP_UNCAUGHT_EXCEPTION, inside if(!setjmp) *)
Outcome(viajump, r) == IF ~viajump /\ r = 1 THEN VM_STOP_UNCAUGHT_EXCEPTION ELSE r

(* Mutant of Unwound: the previous jmp_buf is not restored. *)
UnwoundNot(prevjb) == iu_err_jmpbuf

(* Mutant of Unwound: one too low. *)
UnwoundBelow(prevjb) == prevjb - 1

(* iu->iu_err_jmpbuf = prevjb *)
Unwound(prevjb) == prevjb

Stashed(block) == IF iu_stack_stash = NULL THEN block ELSE iu_stack_stash

(* The end of vmir_vm_function_call, however it was reached. *)
CallReturns ==
  /\ pending # RUN
  /\ Top.kind = "call"
  /\ result' = Outcome(jumped, pending)
  /\ iu_err_jmpbuf' = Unwound(Top.prevjb)
  /\ iu_stack_stash' = Stashed(Top.block)
  /\ inheap' = IF iu_stack_stash = NULL THEN inheap ELSE inheap \ {Top.block}
  /\ stack' = Pop
  /\ pending' = RUN
  /\ jumped' = FALSE
  /\ flying' = FALSE

-----------------------------------------------------------------------------
(* vm_exec *)

(* ALLOCA, ALLOCAD, STACKCOPY *)
Alloca ==
  /\ Running("exec")
  /\ Top.hi < MaxAlloca
  /\ stack' = Moved(Top.hi + 1)
  /\ UNCHANGED <<pending, jumped, iu_err_jmpbuf, iu_stack_stash, inheap, flying, result>>

(* STACKRESTORE of what STACKSAVE read in this frame, and STACKSHRINK *)
StackRestore(p) ==
  /\ Running("exec")
  /\ p \in Top.lo..Top.hi
  /\ stack' = Moved(p)
  /\ UNCHANGED <<pending, jumped, iu_err_jmpbuf, iu_stack_stash, inheap, flying, result>>

(* Mutant of CalleeAlloca: the callee starts where its caller started. *)
CalleeAllocaReused(f) == f.lo

(* vm_frame_t F = *P *)
CalleeAlloca(f) == f.hi

(* JSR, JSR_VM, JSR_R and INVOKE, INVOKE_VM, INVOKE_R of a guest function *)
ExecCalls(site) ==
  /\ Running("exec")
  /\ Len(stack) < MaxDepth
  /\ stack' = Append(Waiting(site),
                     Act("exec", "none", CalleeAlloca(Top), CalleeAlloca(Top), Top.block, NULL))
  /\ UNCHANGED <<pending, jumped, iu_err_jmpbuf, iu_stack_stash, inheap, flying, result>>

(* The same instructions, of an external function *)
ExecCallsExt(site) ==
  /\ Running("exec")
  /\ Len(stack) < MaxDepth
  /\ stack' = Append(Waiting(site),
                     Act("ext", "none", Top.hi, Top.hi, Top.block, NULL))
  /\ UNCHANGED <<pending, jumped, iu_err_jmpbuf, iu_stack_stash, inheap, flying, result>>

(* RET, or an external function's return 0 *)
Returns ==
  /\ pending = RUN
  /\ stack # <<>>
  /\ stack' = Pop
  /\ pending' = 0
  /\ UNCHANGED <<jumped, iu_err_jmpbuf, iu_stack_stash, inheap, flying, result>>

(* The frame below an external function called it through a pointer. *)
ByPointer == Len(stack) > 1 /\ stack[Len(stack) - 1].site = "jsr_r_ext"

(* RESUME, or an external function's return 1 (__cxa_throw) *)
Throws ==
  /\ pending = RUN
  /\ stack # <<>>
  /\ (Top.kind = "ext" /\ ByPointer) => IndirectThrows
  /\ stack' = Pop
  /\ pending' = 1
  /\ flying' = TRUE
  /\ UNCHANGED <<jumped, iu_err_jmpbuf, iu_stack_stash, inheap, result>>

(* if(r) return r *)
JsrPropagates ==
  /\ pending = 1
  /\ Top.kind = "exec"
  /\ Top.site = "jsr"
  /\ stack' = Pop
  /\ UNCHANGED <<pending, jumped, iu_err_jmpbuf, iu_stack_stash, inheap, flying, result>>

(* The next instruction is executed: after a call that returned 0; JSR_R   *)
(* does not look at what an external function returned.                    *)
GoesOn(site, r) == (site = "jsr" /\ r = 0) \/ site = "jsr_r_ext"

JsrContinues ==
  /\ pending # RUN
  /\ Top.kind = "exec"
  /\ GoesOn(Top.site, pending)
  /\ stack' = Waiting("none")
  /\ pending' = RUN
  /\ UNCHANGED <<jumped, iu_err_jmpbuf, iu_stack_stash, inheap, flying, result>>

(* I[3 + r]: the normal label, or the landing pad that takes the exception *)
InvokeContinues ==
  /\ pending # RUN
  /\ Top.kind = "exec"
  /\ Top.site = "invoke"
  /\ stack' = Waiting("none")
  /\ pending' = RUN
  /\ flying' = IF pending = 1 THEN FALSE ELSE flying
  /\ UNCHANGED <<jumped, iu_err_jmpbuf, iu_stack_stash, inheap, result>>

(* vm_stop, in the innermost external function or vm_exec *)
Stop(reason) ==
  /\ pending = RUN
  /\ stack # <<>>
  /\ reason \in (IF Top.kind = "ext" THEN ExtReasons ELSE ExecReasons)
  /\ iu_err_jmpbuf \in 1..Len(stack)
  /\ stack' = SubSeq(stack, 1, iu_err_jmpbuf)
  /\ pending' = reason
  /\ jumped' = TRUE
  /\ UNCHANGED <<iu_err_jmpbuf, iu_stack_stash, inheap, flying, result>>

Next ==
  \/ \E kind \in {"exec", "ext"} : CallWithStash(kind)
  \/ \E kind \in {"exec", "ext"}, block \in Blocks : CallWithNewStack(kind, block)
  \/ CallBadArguments
  \/ CallOutOfMemory
  \/ CallReturns
  \/ Alloca
  \/ \E p \in 0..MaxAlloca : StackRestore(p)
  \/ \E site \in {"jsr", "invoke"} : ExecCalls(site)
  \/ \E site \in {"jsr", "jsr_r_ext", "invoke"} : ExecCallsExt(site)
  \/ Returns
  \/ Throws
  \/ JsrPropagates
  \/ JsrContinues
  \/ InvokeContinues
  \/ \E reason \in StopReasons : Stop(reason)

Spec == Init /\ [][Next]_vars

-----------------------------------------------------------------------------
TypeOK ==
  /\ stack \in Seq(Activation)
  /\ pending \in {RUN, 0, 1} \cup StopReasons
  /\ jumped \in BOOLEAN
  /\ iu_err_jmpbuf \in Nat
  /\ iu_stack_stash \in Blocks \cup {NULL}
  /\ inheap \subseteq Blocks
  /\ flying \in BOOLEAN
  /\ result \in Codes

IsCall(i) == i \in 1..Len(stack) /\ stack[i].kind = "call"

(* j is the innermost vmir_vm_function_call below position n, or NULL. *)
InnermostBelow(j, n) ==
  /\ j = NULL \/ (j < n /\ IsCall(j))
  /\ \A k \in 1..(n - 1) : IsCall(k) => k <= j

(* vm_stop always jumps into the innermost vmir_vm_function_call that is   *)
(* still active, whatever nesting of calls, returns, exceptions and        *)
(* earlier jumps came before, and every call restores what it found.       *)
JmpbufIsInnermost ==
  /\ InnermostBelow(iu_err_jmpbuf, Len(stack) + 1)
  /\ \A i \in 1..Len(stack) : IsCall(i) => InnermostBelow(stack[i].prevjb, i)

(* The alloca stacks in the heap are exactly those of the active calls and *)
(* the stashed one: none leaks and no two calls share one.                 *)
StacksAccounted ==
  /\ inheap = {stack[i].block : i \in {k \in 1..Len(stack) : IsCall(k)}}
                \cup ({iu_stack_stash} \ {NULL})
  /\ \A i, j \in 1..Len(stack) : IsCall(i) /\ IsCall(j) /\ stack[i].block = stack[j].block => i = j
  /\ \A i \in 1..Len(stack) : IsCall(i) => stack[i].block # iu_stack_stash

(* What a callee puts on the alloca stack lies above everything its        *)
(* callers on that stack have put there.                                   *)
AllocasDisjoint ==
  \A i, j \in 1..Len(stack) :
    /\ i < j
    /\ stack[i].kind = "exec" /\ stack[j].kind = "exec"
    /\ stack[i].block = stack[j].block
    => stack[i].hi <= stack[j].lo

(* The inductive invariant behind JmpbufIsInnermost and StacksAccounted:   *)
(* calls into the VM come from the embedder or from an external function,  *)
(* and no instruction runs in vmir_vm_function_call itself.                *)
Nesting ==
  /\ stack # <<>> => stack[1].kind = "call"
  /\ \A i \in 2..Len(stack) : stack[i].kind = "call" => stack[i-1].kind = "ext"
  /\ pending = RUN /\ stack # <<>> => Top.kind # "call"
  /\ pending # RUN => stack # <<>>
  /\ \A i \in 1..Len(stack) : stack[i].block \in Blocks

CallInv == TypeOK /\ Nesting /\ JmpbufIsInnermost /\ StacksAccounted

(* The inductive invariant behind AllocasDisjoint, of a stack s: frames     *)
(* grow upwards, every activation is on the alloca stack of a call below   *)
(* it, and a JSR_R waits for an external function only.                    *)
FramesOK(s) ==
  /\ \A i \in 1..Len(s) : s[i].lo <= s[i].hi
  /\ \A i \in 1..Len(s) : \E c \in 1..i : s[c].kind = "call" /\ s[c].block = s[i].block
  /\ \A i, j \in 1..Len(s) :
       i < j /\ s[i].kind = "exec" /\ s[j].kind = "exec" /\ s[i].block = s[j].block
       => s[i].hi <= s[j].lo
  /\ \A i \in 1..Len(s) :
       s[i].site = "jsr_r_ext" => s[i].kind = "exec" /\ (i < Len(s) => s[i+1].kind = "ext")

(* "1 - Exception thrown": while an exception is in flight the value 1 is  *)
(* being returned, down to an invoke or to vmir_vm_function_call; no code  *)
(* runs as if nothing had happened.                                        *)
ExceptionUnwinds == flying <=> pending = 1 /\ ~jumped

(* The inductive invariant behind ExceptionsArrive: longjmp arrives in a   *)
(* vmir_vm_function_call, no exception is on its way to a JSR_R, and what  *)
(* is returned without a longjmp is 0 or 1 (PlainReturns).                 *)
FlightInv ==
  /\ ExceptionUnwinds
  /\ jumped => pending # RUN /\ Top.kind = "call"
  /\ pending = 1 /\ ~jumped => Top.site # "jsr_r_ext"

PlainReturns == ~jumped => pending \in {RUN, 0, 1}

(* What vmir_vm_function_call reports: an exception that got this far is   *)
(* uncaught, a stop has its own reason (an exit() is no exception, and     *)
(* std::terminate is reported like one), and anything else has returned.   *)
Reported ==
  IF flying THEN VM_STOP_UNCAUGHT_EXCEPTION ELSE IF jumped THEN pending ELSE VM_STOP_OK

(* An exception travels to its invoke or to the host, and the host learns  *)
(* of every call how it ended: by an exception, by a stop and which, or by *)
(* returning, although all three arrive as one integer.                    *)
ExceptionsArrive == []ExceptionUnwinds /\ [][CallReturns => result' = Reported]_vars
=============================================================================
