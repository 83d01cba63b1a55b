------------------------------ MODULE WriteBack ------------------------------
(***************************************************************************)
(* Completing the stores of a 68040 access error (src/src/wb040.s).  The   *)
(* processor does not repeat a faulted store: a format-7 frame carries up  *)
(* to three pending write-backs, and usrxmemflt or krnxmemflt performs     *)
(* them, in order, once the resolver has mapped the page.  Each is itself  *)
(* a store that can fault, and then k_trap calls the wrapper again.        *)
(*                                                                         *)
(* A process is a stack of such faults.  It gives up the processor only    *)
(* while a resolver sleeps, or between system calls.  The destination      *)
(* function code register is not switched; u_nofault is in the u-area of   *)
(* each process; the owner of the landing pad is one global pair of words. *)
(***************************************************************************)
EXTENDS Naturals, Sequences

CONSTANTS
    Proc,       \* processes
    Frames,     \* the write-back fields a fault may carry: [Wb -> TM \cup {None}]
    User, Sup,  \* transfer modifiers: user space, supervisor space
    None,       \* no write-back, no pad, no owner
    Copy,       \* the landing pad of lcopyin and lcopyout
    Pad,        \* the landing pad Lwb_fail
    Interrupts, \* may an interrupt handler fault while the pad is armed?
    MaxDepth    \* bound: faults nested on one kernel stack

TM == {User, Sup}
Wb == 1..3

ASSUME WriteBackAssumption ==
    /\ Proc # {}
    /\ Frames \subseteq [Wb -> TM \cup {None}]
    /\ User # Sup /\ Copy # Pad /\ None \notin {User, Sup, Copy, Pad}
    /\ Interrupts \in BOOLEAN
    /\ MaxDepth \in Nat \ {0}

VARIABLES
    cpu,      \* the process that runs
    copying,  \* processes inside lcopyin or lcopyout
    stack,    \* the faults on each kernel stack, the innermost last
    nofault,  \* u_nofault of each process
    dfc,      \* the destination function code register
    owner,    \* wbf_own_cookie, wbf_own_sp: the stack the pad belongs to
    panic     \* why the kernel stopped, None while it runs

vars == <<cpu, copying, stack, nofault, dfc, owner, panic>>

Depth == Len(stack[cpu])
Top == stack[cpu][Depth]
AtTop(at) == panic = None /\ Depth > 0 /\ Top.at = at
SetTop(rec) == stack' = [stack EXCEPT ![cpu][Depth] = rec]

\* The stack pointer of a replay.  Every kernel stack has the same address,
\* so two processes at the same depth have the same one.
Sp == Depth

\* A fault: its wrapper, whether an interrupt handler took it, what k_trap and
\* the wrapper saved, what became of each write-back.
Fault(wrap, irq, pad, wb) ==
    [wrap |-> wrap, irq |-> irq, pad |-> pad, fc |-> dfc, wb |-> wb,
     out  |-> [i \in Wb |-> IF wb[i] = None THEN "none" ELSE "pending"],
     at   |-> "resolve", slot |-> 0, nf |-> None, own |-> None, ret |-> 0]

Init ==
    /\ cpu \in Proc
    /\ copying = {}
    /\ stack = [p \in Proc |-> <<>>]
    /\ nofault = [p \in Proc |-> None]
    /\ dfc \in TM
    /\ owner = None
    /\ panic = None

-----------------------------------------------------------------------------
(* External: the processor, lcopyout, k_trap.                              *)

\* Another process runs: this one is in user mode, or its resolver sleeps.
Switch(p) ==
    /\ panic = None /\ p # cpu
    /\ IF Depth = 0 THEN cpu \notin copying
       ELSE Top.at = "resolve" /\ ~Top.irq
    /\ cpu' = p
    /\ UNCHANGED <<copying, stack, nofault, dfc, owner, panic>>

\* lcopyout: arm its pad, set DFC once, then loop.
CopyBegin ==
    /\ panic = None /\ Depth = 0 /\ cpu \notin copying
    /\ copying' = copying \cup {cpu}
    /\ nofault' = [nofault EXCEPT ![cpu] = Copy]
    /\ dfc' = User
    /\ UNCHANGED <<cpu, stack, owner, panic>>

CopyEnd ==
    /\ panic = None /\ Depth = 0 /\ cpu \in copying
    /\ copying' = copying \ {cpu}
    /\ nofault' = [nofault EXCEPT ![cpu] = None]
    /\ UNCHANGED <<cpu, stack, dfc, owner, panic>>

\* u_trap: u_nofault is not its business.
UserFault(wb) ==
    /\ panic = None /\ Depth = 0 /\ cpu \notin copying
    /\ \A i \in Wb : wb[i] # Sup
    /\ stack' = [stack EXCEPT ![cpu] = <<Fault("usr", FALSE, None, wb)>>]
    /\ UNCHANGED <<cpu, copying, nofault, dfc, owner, panic>>

\* k_trap under a pad: it chooses the resolver by the transfer modifier and
\* takes the pad down while the resolver works.
KTrap(tm, irq, wb) ==
    /\ Depth < MaxDepth
    /\ stack' = [stack EXCEPT ![cpu] = Append(@,
                   Fault(IF tm = User THEN "usr" ELSE "krn", irq, nofault[cpu], wb))]
    /\ nofault' = [nofault EXCEPT ![cpu] = None]
    /\ UNCHANGED <<cpu, copying, dfc, owner, panic>>

CopyFault(tm, wb) ==
    /\ panic = None /\ Depth = 0 /\ cpu \in copying
    /\ KTrap(tm, FALSE, wb)

\* The store of a replay faults; its own write-back is in WB3.
StoreFault ==
    /\ AtTop("store")
    /\ KTrap(Top.wb[Top.slot], FALSE, [i \in Wb |-> IF i = 3 THEN Top.wb[Top.slot] ELSE None])

\* An interrupt handler faults while the pad is armed.
InterruptFault ==
    /\ Interrupts
    /\ AtTop("store")
    /\ KTrap(Sup, TRUE, [i \in Wb |-> None])

-----------------------------------------------------------------------------
(* The wrappers.                                                           *)

(* usrxmemflt_orig or krnxmemflt_orig returns.  Unresolved: the replay is  *)
(* skipped, and the wrapper returns the failure.                           *)
Resolved ==
    /\ AtTop("resolve")
    /\ SetTop([Top EXCEPT !.at = "replay"])
    /\ UNCHANGED <<cpu, copying, nofault, dfc, owner, panic>>

Unresolved ==
    /\ AtTop("resolve")
    /\ SetTop([Top EXCEPT !.at = "exit", !.ret = 1])
    /\ UNCHANGED <<cpu, copying, nofault, dfc, owner, panic>>

Pending == {i \in Wb : Top.out[i] = "pending"}

\* Mutant of Slot: the last pending write-back first.
SlotLast == CHOOSE i \in Pending : \A j \in Pending : i >= j

Slot == CHOOSE i \in Pending : \A j \in Pending : i <= j

\* What Lwb_do saves in d2, a0 and a1 before it arms the pad.
Arm(rec) == [rec EXCEPT !.at = "store", !.nf = nofault[cpu], !.own = owner]

(* Lwb_do: take the write-back's function code, save the outer pad and     *)
(* owner, become the owner, arm the pad.                                   *)
StoreBegin ==
    /\ AtTop("replay") /\ Pending # {}
    /\ SetTop(Arm([Top EXCEPT !.slot = Slot]))
    /\ dfc' = Top.wb[Slot]
    /\ owner' = Sp
    /\ nofault' = [nofault EXCEPT ![cpu] = Pad]
    /\ UNCHANGED <<cpu, copying, panic>>

\* Mutant of Disarm: the pad stays armed.
DisarmOwnerOnly ==
    /\ nofault' = nofault
    /\ owner' = Top.own

Disarm ==
    /\ nofault' = [nofault EXCEPT ![cpu] = Top.nf]
    /\ owner' = Top.own

(* The store completed, by itself or by the replay of its own fault.       *)
StoreDone ==
    /\ AtTop("store")
    /\ SetTop([Top EXCEPT !.at = "replay", !.out[Top.slot] = "done"])
    /\ Disarm
    /\ UNCHANGED <<cpu, copying, dfc, panic>>

ReplayDone ==
    /\ AtTop("replay") /\ Pending = {}
    /\ SetTop([Top EXCEPT !.at = "exit"])
    /\ UNCHANGED <<cpu, copying, nofault, dfc, owner, panic>>

-----------------------------------------------------------------------------
(* The end of a fault: the wrapper gives the interrupted code its function *)
(* code back and k_trap its pad; a failure lands on the pad.               *)

Outer == stack[cpu][Depth - 1]
Popped == SubSeq(stack[cpu], 1, Depth - 1)

\* Mutant of Restored: the function code of the replay survives.
RestoredNot == dfc

\* wb_dfc_on: the function code the wrapper found.
Restored == Top.fc

Return ==
    /\ AtTop("exit") /\ Top.ret = 0
    /\ stack' = [stack EXCEPT ![cpu] = Popped]
    /\ nofault' = [nofault EXCEPT ![cpu] = Top.pad]
    /\ dfc' = Restored
    /\ UNCHANGED <<cpu, copying, owner, panic>>

\* A failed fault of user mode raises a signal, one of a copy ends the copy.
ReturnFailed ==
    /\ AtTop("exit") /\ Top.ret # 0 /\ Depth = 1
    /\ stack' = [stack EXCEPT ![cpu] = <<>>]
    /\ copying' = copying \ {cpu}
    /\ nofault' = [nofault EXCEPT ![cpu] = None]
    /\ dfc' = Restored
    /\ UNCHANGED <<cpu, owner, panic>>

\* Is the pad entered on the stack of the replay that owns it?
OwnLanding == ~Top.irq /\ owner = Depth - 1

\* Mutant of Denied: the remaining write-backs run.
DeniedSkipping(rec) ==
    [rec EXCEPT !.out[rec.slot] = "denied", !.at = "replay"]

\* Lwb_fail drops Lwb_do's return address: the replay ends.  usrxmemflt turns
\* a denied user store into a signal; krnxmemflt counts it.
Denied(rec) ==
    [rec EXCEPT !.out[rec.slot] = "denied", !.at = "exit",
                !.ret = IF rec.wrap = "usr" THEN 1 ELSE 0]

(* Lwb_fail: the store of the replay below could not be resolved.          *)
Land ==
    /\ AtTop("exit") /\ Top.ret # 0 /\ Depth > 1
    /\ OwnLanding
    /\ Outer.wb[Outer.slot] = User
    /\ stack' = [stack EXCEPT ![cpu] = Append(SubSeq(Popped, 1, Depth - 2), Denied(Outer))]
    /\ nofault' = [nofault EXCEPT ![cpu] = Outer.nf]
    /\ owner' = Outer.own
    /\ dfc' = Restored
    /\ UNCHANGED <<cpu, copying, panic>>

\* Lwbf_alien, and a supervisor store that is denied.
LandPanic ==
    /\ AtTop("exit") /\ Top.ret # 0 /\ Depth > 1
    /\ ~OwnLanding \/ Outer.wb[Outer.slot] # User
    /\ panic' = IF OwnLanding THEN "kernel store denied" ELSE "alien"
    /\ UNCHANGED <<cpu, copying, stack, nofault, dfc, owner>>

Next ==
    \/ \E p \in Proc : Switch(p)
    \/ CopyBegin
    \/ CopyEnd
    \/ \E wb \in Frames : UserFault(wb) \/ (\E tm \in TM : CopyFault(tm, wb))
    \/ StoreFault
    \/ InterruptFault
    \/ Resolved
    \/ Unresolved
    \/ StoreBegin
    \/ StoreDone
    \/ ReplayDone
    \/ Return
    \/ ReturnFailed
    \/ Land
    \/ LandPanic

Spec == Init /\ [][Next]_vars

-----------------------------------------------------------------------------
(* "DFC is a caller's register": whatever faults a copy loop or a replay   *)
(* took, and whoever ran meanwhile, its next store uses its own function   *)
(* code (ISSUE-22).                                                        *)
DfcKept ==
    panic = None =>
        /\ Depth = 0 /\ cpu \in copying => dfc = User
        /\ Depth > 0 /\ Top.at = "store" => dfc = Top.wb[Top.slot]

(* The pad a fault lands on is that of the code that took it: a copy gets  *)
(* lcopyout's back after any nesting of replays, and user mode none.       *)
NofaultKept ==
    panic = None =>
        \A p \in Proc :
            IF stack[p] = <<>>
            THEN nofault[p] = IF p \in copying THEN Copy ELSE None
            ELSE nofault[p] = IF stack[p][Len(stack[p])].at = "store" THEN Pad ELSE None

(* Write-backs are performed in the order WB1, WB2, WB3, and none after    *)
(* one that was denied (ISSUE-42).                                         *)
InOrder ==
    \A p \in Proc : \A n \in 1..Len(stack[p]) : \A i, j \in Wb :
        i < j /\ stack[p][n].out[j] \in {"done", "denied"}
            => stack[p][n].out[i] \in {"none", "done"}

Complete(rec) == \A i \in Wb : rec.out[i] \in {"none", "done"}
Exiting(p) == stack[p] # <<>> /\ stack[p][Len(stack[p])].at = "exit"

(* usrxmemflt reports success only when every store of the frame has been  *)
(* performed: a process never continues after half of an access.           *)
UserSuccessIsComplete ==
    \A p \in Proc : Exiting(p) =>
        LET rec == stack[p][Len(stack[p])]
        IN  rec.wrap = "usr" /\ rec.ret = 0 => Complete(rec)

(* The alien panic is for "landings on the pad that did NOT belong to a    *)
(* replay": the denial of a replay's own store is never taken for one.     *)
AlienIsForeign == panic = "alien" => Top.irq
=============================================================================
