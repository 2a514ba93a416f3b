---------------------------- MODULE CxxException ----------------------------
(***************************************************************************)
(* C++ exceptions (vmir_libc.c) on top of the calls of VmCall: what        *)
(* __cxa_allocate_exception, throw, begin_catch, end_catch and             *)
(* free_exception do to iu_exception and to the headers in front of the    *)
(* exceptions, and how LANDINGPAD and RESUME hand an exception to guest    *)
(* code (vmir_vm.c), while calls nest, return, throw and are stopped.      *)
(*                                                                         *)
(* The guest is C++ as a compiler translates it: code that has to clean up *)
(* calls with invoke, a function returns with no handler open, and an      *)
(* exception that leaves a handler ends that handler first.                *)
(***************************************************************************)
EXTENDS VmCall, FiniteSets

CONSTANTS
  Exceptions,   \* addresses at which the heap can place an exception
  Rethrows      \* {FALSE}, or BOOLEAN when the guest also uses "throw;"

ASSUME CxxAssumption ==
  /\ NULL \notin Exceptions /\ IsFiniteSet(Exceptions)
  /\ Rethrows \subseteq BOOLEAN

VARIABLES
  iu_exception, \* [exception, uncaught, caught] of the unit
  header,       \* vmir_cxx_exception_t of each address, and whether it is allocated
  regs,         \* for each activation what its registers hold of exceptions
  carried,      \* the exception in flight, as C++ has it
  lost,         \* how many exceptions went with stopped calls or to the host
  crashed       \* the process has ended inside an external function

cxx  == <<iu_exception, header, regs, carried, lost>>
cxxvars == <<vars, cxx>>
allvars == <<cxxvars, crashed>>

(* Address 0 is guest memory too; its "header" is never an exception.      *)
Addresses == Exceptions \cup {NULL}

(* new: allocated and not thrown yet; open: innermost last, exceptions     *)
(* that arrived at a landing pad ("pad") or are being handled ("handler"), *)
(* with the value in the register and the one C++ means.                   *)
Idle == [new |-> NULL, open |-> <<>>]
Open(role, exc, meant) == [role |-> role, exc |-> exc, meant |-> meant]

CxxInit ==
  /\ Init
  /\ iu_exception = [exception |-> NULL, uncaught |-> 0, caught |-> NULL]
  /\ header = [a \in Addresses |-> [alloc |-> FALSE, handlers |-> 0, next |-> NULL]]
  /\ regs = <<>>
  /\ carried = NULL
  /\ lost = [thrown |-> 0, other |-> 0]
  /\ crashed = FALSE

Mine        == regs[Len(regs)]
MineIs(r)   == regs' = [regs EXCEPT ![Len(regs)] = r]
Below       == SubSeq(regs, 1, Len(regs) - 1)
TopIs(role) == Mine.open # <<>> /\ Mine.open[Len(Mine.open)].role = role
LastOpen    == Mine.open[Len(Mine.open)]

-----------------------------------------------------------------------------
(* Calls *)

CxxEnter ==
  /\ \/ \E kind \in {"exec", "ext"} : CallWithStash(kind)
     \/ \E kind \in {"exec", "ext"}, block \in Blocks : CallWithNewStack(kind, block)
  /\ regs' = regs \o <<Idle, Idle>>
  /\ UNCHANGED <<iu_exception, header, carried, lost>>

(* Code that has a handler to end, a cleanup to go on with or an object to *)
(* free calls with invoke what may throw; __cxa_throw itself needs none of *)
(* that for the object it is given.                                        *)
CxxCalls ==
  /\ \/ ExecCalls("jsr") /\ Mine = Idle
     \/ ExecCalls("invoke")
     \/ \E site \in {"jsr", "jsr_r_ext"} : ExecCallsExt(site) /\ Mine.open = <<>>
     \/ ExecCallsExt("invoke")
  /\ regs' = Append(regs, Idle)
  /\ UNCHANGED <<iu_exception, header, carried, lost>>

CxxReturns ==
  /\ Returns
  /\ Mine = Idle
  /\ regs' = Below
  /\ UNCHANGED <<iu_exception, header, carried, lost>>

CxxPropagates ==
  /\ JsrPropagates
  /\ regs' = Below
  /\ UNCHANGED <<iu_exception, header, carried, lost>>

CxxContinues ==
  /\ JsrContinues \/ (InvokeContinues /\ pending = 0)
  /\ UNCHANGED cxx

(* vmir_vm_function_call returns; nobody frees an uncaught exception. *)
CxxCallReturns ==
  /\ CallReturns
  /\ regs' = Below
  /\ lost' = IF flying THEN [lost EXCEPT !.thrown = @ + 1] ELSE lost
  /\ UNCHANGED <<iu_exception, header, carried>>

(* The exceptions of a role that the activations r hold from k on, each by *)
(* its place, and the activations with an object that is not thrown yet.   *)
HeldBy(r, k, role) ==
  UNION {{<<i, j>> : j \in {n \in 1..Len(r[i].open) : r[i].open[n].role = role}} : i \in k..Len(r)}
NewBy(r, k) == {i \in k..Len(r) : r[i].new # NULL}

Held(k, role) == Cardinality(HeldBy(regs, k, role))
New(k)        == Cardinality(NewBy(regs, k))

(* vm_stop, for whatever reason, that of std::terminate included: the      *)
(* activations it skips never free what they hold, and iu_exception stays  *)
(* as it is.                                                               *)
CxxStop ==
  /\ \E reason \in StopReasons : Stop(reason)
  /\ regs' = SubSeq(regs, 1, iu_err_jmpbuf)
  /\ LET k == iu_err_jmpbuf + 1
     IN  lost' = [thrown |-> lost.thrown + Held(k, "pad"),
                  other  |-> lost.other + Held(k, "handler") + New(k)]
  /\ UNCHANGED <<iu_exception, header, carried>>

-----------------------------------------------------------------------------
(* vmir___cxa_allocate_exception: the header is set to 0 *)
Allocate(e) ==
  /\ Running("exec")
  /\ Mine.new = NULL
  /\ ~header[e].alloc
  /\ header' = [header EXCEPT ![e] = [alloc |-> TRUE, handlers |-> 0, next |-> NULL]]
  /\ MineIs([Mine EXCEPT !.new = e])
  /\ UNCHANGED <<vars, iu_exception, carried, lost>>

(* The heap has no room: the header is set to 0 through NULL.              *)
AllocateFails == Running("exec") /\ Mine.new = NULL

(* vmir___cxa_free_exception: the constructor of the object threw *)
FreeNew ==
  /\ Running("exec")
  /\ Mine.new # NULL /\ TopIs("pad")
  /\ header' = [header EXCEPT ![Mine.new].alloc = FALSE]
  /\ MineIs([Mine EXCEPT !.new = NULL])
  /\ UNCHANGED <<vars, iu_exception, carried, lost>>

(* vmir___cxa_throw, and vmir___cxa_rethrow, which reads its arguments     *)
(* although it is called without any: whatever is in the registers there.  *)
(* The exception has no destructor.                                        *)
Throw(again, e) ==
  LET caller == regs[Len(regs) - 1]
  IN  /\ Throws
      /\ Top.kind = "ext" /\ stack[Len(stack) - 1].kind = "exec"
      /\ IF again THEN caller.open # <<>> /\ Last(caller.open).role = "handler"
                  ELSE e # NULL /\ caller.new = e
      /\ iu_exception' = [iu_exception EXCEPT !.exception = e, !.uncaught = @ + 1]
      /\ carried' = IF again THEN Last(caller.open).meant ELSE e
      /\ regs' = [Below EXCEPT ![Len(Below)].new = IF again THEN @ ELSE NULL]
      /\ UNCHANGED <<header, lost>>

(* assert(exc->destructor == 0), of an object that has one, or of whatever *)
(* is in the register that __cxa_rethrow takes it from                     *)
ThrowAsserts(again) ==
  LET caller == regs[Len(regs) - 1]
  IN  /\ Running("ext")
      /\ stack[Len(stack) - 1].kind = "exec"
      /\ IF again THEN caller.open # <<>> /\ Last(caller.open).role = "handler"
                  ELSE caller.new # NULL

(* INVOKE with r = 1, and the LANDINGPAD it goes to *)
LandingPad ==
  /\ InvokeContinues /\ pending = 1
  /\ MineIs([Mine EXCEPT !.open = Append(@, Open("pad", iu_exception.exception, carried))])
  /\ UNCHANGED <<iu_exception, header, carried, lost>>

(* Mutant of Resumed: RESUME only returns 1. *)
ResumedNot(e) == iu_exception.exception

(* iu->iu_exception.exception = R32(0) *)
Resumed(e) == e

(* RESUME, at the end of the cleanups of a function *)
Resume ==
  /\ Throws
  /\ Top.kind = "exec"
  /\ Mine.new = NULL /\ Len(Mine.open) = 1 /\ TopIs("pad")
  /\ iu_exception' = [iu_exception EXCEPT !.exception = Resumed(LastOpen.exc)]
  /\ carried' = LastOpen.meant
  /\ regs' = Below
  /\ UNCHANGED <<header, lost>>

(* vmir___cxa_begin_catch of what the landing pad received *)
BeginCatch ==
  /\ Running("exec")
  /\ Mine.new = NULL /\ TopIs("pad")
  /\ LET e     == LastOpen.exc
         h     == header[e].handlers
         again == h < 0
     IN  /\ header' = [header EXCEPT ![e].handlers = IF again THEN 1 - h ELSE h + 1,
                                     ![e].next = iu_exception.caught]
         /\ iu_exception' = [iu_exception EXCEPT
                               !.caught = e, !.uncaught = IF again THEN @ ELSE @ - 1]
  /\ MineIs([Mine EXCEPT !.open[Len(Mine.open)].role = "handler"])
  /\ UNCHANGED <<vars, carried, lost>>

(* Mutant of Unlinked: the list of caught exceptions keeps its head. *)
UnlinkedNot(e) == e

(* iu->iu_exception.caught = exc->next *)
Unlinked(e) == header[e].next

(* vmir___cxa_end_catch, at the end of a handler, or on the way out of it  *)
(* of another exception                                                    *)
EndCatch ==
  /\ Running("exec")
  /\ Mine.new = NULL
  /\ LET k    == IF TopIs("pad") THEN Len(Mine.open) - 1 ELSE Len(Mine.open)
         top  == iu_exception.caught
         left == header[top].handlers - 1
     IN  /\ k > 0 /\ Mine.open[k].role = "handler"
         /\ header' = [header EXCEPT ![top].handlers = left,
                                     ![top].alloc = @ /\ left # 0]
         /\ iu_exception' = [iu_exception EXCEPT !.caught = IF left = 0 THEN Unlinked(top) ELSE @]
         /\ MineIs([Mine EXCEPT !.open = RemoveAt(@, k)])
  /\ UNCHANGED <<vars, carried, lost>>

(* A failed call, alloca and stackrestore leave all this alone; VmCall has *)
(* them.                                                                   *)
CxxStep ==
  \/ CxxEnter \/ CxxCalls \/ CxxReturns \/ CxxPropagates \/ CxxContinues
  \/ CxxCallReturns \/ CxxStop
  \/ \E e \in Exceptions : Allocate(e)
  \/ FreeNew
  \/ \E again \in Rethrows, e \in Addresses : Throw(again, e)
  \/ LandingPad \/ Resume \/ BeginCatch \/ EndCatch

(* The two calls that do not come back. *)
Crash ==
  /\ AllocateFails \/ \E again \in Rethrows : ThrowAsserts(again)
  /\ crashed' = TRUE
  /\ UNCHANGED cxxvars

CxxNext == ~crashed /\ ((CxxStep /\ UNCHANGED crashed) \/ Crash)

CxxSpec == CxxInit /\ [][CxxNext]_allvars

-----------------------------------------------------------------------------
(* A landing pad receives the exception that reached it, whatever was      *)
(* thrown and caught by the cleanups in between: iu_exception is one for   *)
(* the whole unit, and RESUME has to put it back.                          *)
PadsRight ==
  /\ flying => iu_exception.exception = carried
  /\ \A i \in 1..Len(regs) : \A j \in 1..Len(regs[i].open) :
       regs[i].open[j].exc = regs[i].open[j].meant

(* The exceptions that an activation holds or that are in flight *)
InUse ==
  ((UNION {{regs[i].new} \cup {regs[i].open[j].exc : j \in 1..Len(regs[i].open)} : i \in 1..Len(regs)})
     \cup {IF flying THEN iu_exception.exception ELSE NULL}) \ {NULL}

(* No exception is freed while it is in use, although end_catch frees the  *)
(* head of the list and a stopped call leaves its own there; each one that *)
(* leaves use is freed once, so that as many stay behind as were cut off;  *)
(* and uncaught counts those thrown and not yet caught.                    *)
ExceptionsAccounted ==
  /\ \A e \in InUse : header[e].alloc
  /\ Cardinality({e \in Exceptions : header[e].alloc})
       = Held(1, "pad") + Held(1, "handler") + New(1) + (IF flying THEN 1 ELSE 0)
           + lost.thrown + lost.other
  /\ iu_exception.uncaught = Held(1, "pad") + (IF flying THEN 1 ELSE 0) + lost.thrown
=============================================================================
