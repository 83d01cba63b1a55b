--------------------------- MODULE WriteBackProofs ---------------------------
(***************************************************************************)
(* Proofs about WriteBack, for any number of processes, any write-backs    *)
(* and any nesting: the function code and the landing pad survive every    *)
(* nesting of faults and every sleep, stores are replayed in order, and a  *)
(* success of usrxmemflt is one of the whole frame.                        *)
(*                                                                         *)
(* The properties speak of the running process and of the innermost fault. *)
(* The inductive invariant says what every fault of every kernel stack has *)
(* saved: the function code and the pad of the code below it.              *)
(***************************************************************************)
EXTENDS WriteBack, SequenceTheorems, TLAPS

Rec == [wrap : {"usr", "krn"}, irq : BOOLEAN, pad : {None, Copy, Pad}, fc : TM,
        wb   : [Wb -> TM \cup {None}],
        out  : [Wb -> {"none", "pending", "done", "denied"}],
        at   : {"resolve", "replay", "store", "exit"}, slot : 0..3,
        nf   : {None}, own : Nat \cup {None}, ret : {0, 1}]

TypeInv ==
    /\ cpu \in Proc
    /\ copying \subseteq Proc
    /\ stack \in [Proc -> Seq(Rec)]
    /\ nofault \in [Proc -> {None, Copy, Pad}]
    /\ dfc \in TM
    /\ owner \in Nat \cup {None}

Performed(r, i) == r.out[i] \in {"none", "done"}

\* A fault's replay: done in order, nothing denied while it goes on, and a
\* store under way is the first that has not been performed.
RecOK(r) ==
    /\ \A i \in Wb : r.out[i] = "none" <=> r.wb[i] = None
    /\ \A i, j \in Wb : i < j /\ r.out[j] \in {"done", "denied"} => Performed(r, i)
    /\ r.at = "store" => /\ r.slot \in Wb /\ r.out[r.slot] = "pending"
                         /\ \A i \in Wb : i < r.slot => Performed(r, i)
    /\ \A i \in Wb : r.out[i] = "denied" =>
                        r.at = "exit" /\ (r.wrap = "usr" => r.ret = 1)
    /\ r.at = "exit" /\ r.wrap = "usr" /\ r.ret = 0 => Complete(r)

\* What a fault saved is what the code it interrupted had: the copy loop or
\* user mode for the first, the store of the replay below for another.
SavedFirst(r, c) == /\ r.pad = IF c THEN Copy ELSE None
                    /\ c => r.fc = User
SavedOver(r, below) == /\ below.at = "store"
                       /\ r.pad = Pad
                       /\ r.fc = below.wb[below.slot]

StackOK(s, c) ==
    \A n \in 1..Len(s) :
        /\ RecOK(s[n])
        /\ n = 1 => SavedFirst(s[n], c)
        /\ n > 1 => SavedOver(s[n], s[n - 1])

StacksOK == \A p \in Proc : StackOK(stack[p], p \in copying)

\* A process that does not run is in user mode, or its resolver sleeps.
Elsewhere ==
    panic = None =>
        \A p \in Proc \ {cpu} :
            IF stack[p] = <<>> THEN p \notin copying
                               ELSE stack[p][Len(stack[p])].at = "resolve"

IInv == TypeInv /\ StacksOK /\ Elsewhere /\ DfcKept /\ NofaultKept

-----------------------------------------------------------------------------
(* Stacks.                                                                 *)

LEMMA EmptyIsZero ==
    ASSUME NEW s \in Seq(Rec)
    PROVE  Len(s) \in Nat /\ (Len(s) = 0 <=> s = <<>>)
<1>1. Len(s) \in Nat
  BY LenProperties
<1>2. s # <<>> => Len(s) \in Nat \ {0}
  BY EmptySeq
<1>3. s = <<>> => Len(s) = 0
  OBVIOUS
<1> QED
  BY <1>1, <1>2, <1>3

\* Another record on top, with what the fault saved unchanged.
LEMMA TopReplaced ==
    ASSUME NEW s \in Seq(Rec), NEW c \in BOOLEAN, s # <<>>, StackOK(s, c),
           NEW r \in Rec, RecOK(r),
           r.pad = s[Len(s)].pad, r.fc = s[Len(s)].fc
    PROVE  LET t == [s EXCEPT ![Len(s)] = r]
           IN  /\ t \in Seq(Rec) /\ Len(t) = Len(s) /\ t # <<>>
               /\ t[Len(t)] = r /\ StackOK(t, c)
<1> DEFINE t == [s EXCEPT ![Len(s)] = r]
<1>1. Len(s) \in Nat /\ Len(s) \in 1..Len(s)
  BY EmptySeq
<1>2. t \in Seq(Rec) /\ Len(t) = Len(s)
      /\ \A j \in 1..Len(s) : t[j] = IF j = Len(s) THEN r ELSE s[j]
  BY <1>1, ExceptSeq
<1>3. t # <<>>
  BY <1>1, <1>2, EmptySeq
<1> HIDE DEF t
<1>4. ASSUME NEW n \in 1..Len(t)
      PROVE  /\ RecOK(t[n])
             /\ n = 1 => SavedFirst(t[n], c)
             /\ n > 1 => SavedOver(t[n], t[n - 1])
  <2>1. /\ RecOK(s[n])
        /\ n = 1 => SavedFirst(s[n], c)
        /\ n > 1 => SavedOver(s[n], s[n - 1])
    BY <1>2 DEF StackOK
  <2>2. n > 1 => n - 1 \in 1..Len(s) /\ n - 1 # Len(s)
    BY <1>1, <1>2
  <2> QED
    BY <1>1, <1>2, <2>1, <2>2 DEF SavedFirst, SavedOver
<1> QED
  BY <1>1, <1>2, <1>3, <1>4 DEF StackOK, t

\* A fault on top of a stack.
LEMMA Pushed ==
    ASSUME NEW s \in Seq(Rec), NEW c \in BOOLEAN, StackOK(s, c),
           NEW r \in Rec, RecOK(r),
           s = <<>> => SavedFirst(r, c),
           s # <<>> => SavedOver(r, s[Len(s)])
    PROVE  LET t == Append(s, r)
           IN  /\ t \in Seq(Rec) /\ Len(t) = Len(s) + 1 /\ t # <<>>
               /\ t[Len(t)] = r /\ StackOK(t, c)
<1> DEFINE t == Append(s, r)
<1>1. /\ t \in Seq(Rec) /\ Len(s) \in Nat /\ Len(t) = Len(s) + 1
      /\ \A j \in 1..Len(s) : t[j] = s[j]
      /\ t[Len(s) + 1] = r
  BY AppendProperties, LenProperties
<1>2. t # <<>> /\ (Len(s) = 0 <=> s = <<>>)
  BY <1>1, AppendProperties, EmptyIsZero
<1> HIDE DEF t
<1>3. ASSUME NEW n \in 1..Len(t)
      PROVE  /\ RecOK(t[n])
             /\ n = 1 => SavedFirst(t[n], c)
             /\ n > 1 => SavedOver(t[n], t[n - 1])
  <2>1. CASE n = Len(t)
    BY <1>1, <1>2, <2>1
  <2>2. CASE n # Len(t)
    <3>1. n \in 1..Len(s) /\ (n > 1 => n - 1 \in 1..Len(s))
      BY <1>1, <2>2
    <3> QED
      BY <1>1, <3>1 DEF StackOK
  <2> QED
    BY <2>1, <2>2
<1> QED
  BY <1>1, <1>2, <1>3 DEF StackOK, t

\* The stack below the innermost fault.
LEMMA PoppedOK ==
    ASSUME NEW s \in Seq(Rec), NEW c \in BOOLEAN, s # <<>>, StackOK(s, c)
    PROVE  LET t == SubSeq(s, 1, Len(s) - 1)
           IN  /\ t \in Seq(Rec) /\ Len(t) = Len(s) - 1 /\ StackOK(t, c)
               /\ t = <<>> <=> Len(s) = 1
               /\ t = <<>> => SavedFirst(s[Len(s)], c)
               /\ t # <<>> => /\ t[Len(t)] = s[Len(s) - 1]
                              /\ SavedOver(s[Len(s)], t[Len(t)])
<1> DEFINE t == SubSeq(s, 1, Len(s) - 1)
<1>1. Len(s) \in Nat \ {0} /\ \A i \in 1..Len(s) : s[i] \in Rec
  BY EmptySeq, LenProperties
<1>2. /\ t \in Seq(Rec) /\ Len(t) = Len(s) - 1
      /\ \A i \in 1..(Len(s) - 1) : t[i] = s[i]
  <2> DEFINE n == Len(s) - 1
  <2>1. /\ n \in Int /\ 1 \in Int /\ n >= 0 /\ 1..n \subseteq 1..Len(s)
        /\ \A i \in 1..n : s[i] \in Rec
    BY <1>1
  <2> HIDE DEF n
  <2>2. /\ SubSeq(s, 1, n) \in Seq(Rec)
        /\ Len(SubSeq(s, 1, n)) = IF 1 <= n THEN n - 1 + 1 ELSE 0
        /\ \A i \in 1..(n - 1 + 1) : SubSeq(s, 1, n)[i] = s[1 + i - 1]
    BY <2>1, SubSeqProperties
  <2>3. Len(SubSeq(s, 1, n)) = n /\ \A i \in 1..n : SubSeq(s, 1, n)[i] = s[i]
    BY <2>1, <2>2
  <2> QED
    BY <2>2, <2>3 DEF n
<1> HIDE DEF t
<1>3. t = <<>> <=> Len(s) = 1
  BY <1>1, <1>2, EmptyIsZero
<1>4. ASSUME NEW n \in 1..Len(t)
      PROVE  /\ RecOK(t[n])
             /\ n = 1 => SavedFirst(t[n], c)
             /\ n > 1 => SavedOver(t[n], t[n - 1])
  <2>1. /\ n \in 1..Len(s) /\ n \in 1..(Len(s) - 1)
        /\ n > 1 => n - 1 \in 1..(Len(s) - 1)
    BY <1>1, <1>2
  <2> QED
    BY <1>2, <2>1 DEF StackOK
<1>5. t # <<>> => /\ t[Len(t)] = s[Len(s) - 1]
                  /\ SavedOver(s[Len(s)], t[Len(t)])
  <2> HAVE t # <<>>
  <2>1. Len(t) \in 1..(Len(s) - 1) /\ Len(s) \in 1..Len(s) /\ Len(s) > 1
    BY <1>1, <1>2, <1>3
  <2> QED
    BY <1>2, <2>1 DEF StackOK
<1>6. t = <<>> => SavedFirst(s[Len(s)], c)
  <2> HAVE t = <<>>
  <2>1. Len(s) = 1 /\ 1 \in 1..Len(s)
    BY <1>1, <1>3
  <2> QED
    BY <2>1 DEF StackOK
<1> QED
  BY <1>2, <1>3, <1>4, <1>5, <1>6 DEF StackOK, t

-----------------------------------------------------------------------------
(* The records.                                                            *)

\* A new fault.
LEMMA FaultOK ==
    ASSUME TypeInv, NEW wrap \in {"usr", "krn"}, NEW irq \in BOOLEAN,
           NEW pad \in {None, Copy, Pad}, NEW wb \in [Wb -> TM \cup {None}]
    PROVE  LET r == Fault(wrap, irq, pad, wb)
           IN  /\ r \in Rec /\ RecOK(r)
               /\ r.pad = pad /\ r.fc = dfc /\ r.at = "resolve"
BY DEF TypeInv, Fault, Rec, RecOK, Performed, Complete, Wb

\* The slot a replay takes.
LEMMA SlotIsFirst ==
    ASSUME AtTop("replay"), Top \in Rec, RecOK(Top), Pending # {}
    PROVE  /\ Slot \in Wb /\ Top.out[Slot] = "pending" /\ Top.wb[Slot] \in TM
           /\ \A i \in Wb : i < Slot => Performed(Top, i)
<1>1. \E i \in Pending : \A j \in Pending : i <= j
  BY DEF Pending, Wb
<1>2. Slot \in Pending /\ \A j \in Pending : Slot <= j
  BY <1>1 DEF Slot
<1>3. \A i \in Wb : Top.out[i] \in {"none", "pending", "done"}
  BY DEF Rec, RecOK, AtTop
<1>4. /\ Slot \in Wb /\ Top.out[Slot] = "pending"
      /\ \A i \in Wb : i < Slot => Top.out[i] # "pending"
  BY <1>2 DEF Pending, Wb
<1>5. Top.wb[Slot] \in TM
  BY <1>4 DEF Rec, RecOK
<1> QED
  BY <1>3, <1>4, <1>5 DEF Performed

\* The store of a replay ends well.
LEMMA StoredOK ==
    ASSUME NEW r \in Rec, RecOK(r), r.at = "store"
    PROVE  LET q == [r EXCEPT !.at = "replay", !.out[r.slot] = "done"]
           IN  q \in Rec /\ RecOK(q) /\ q.at = "replay" /\ q.pad = r.pad /\ q.fc = r.fc
<1> DEFINE o == [r.out EXCEPT ![r.slot] = "done"]
           q == [r EXCEPT !.at = "replay", !.out = o]
<1>1. /\ r.slot \in Wb /\ r.out \in [Wb -> {"none", "pending", "done", "denied"}]
      /\ o \in [Wb -> {"none", "pending", "done", "denied"}]
      /\ \A i \in Wb : o[i] = IF i = r.slot THEN "done" ELSE r.out[i]
  BY DEF Rec, RecOK
<1> HIDE DEF o
<1>2. q \in Rec /\ q.at = "replay" /\ q.out = o /\ q.wb = r.wb
      /\ q.pad = r.pad /\ q.fc = r.fc
  BY <1>1 DEF Rec
<1>3. RecOK(q)
  BY <1>1, <1>2 DEF RecOK, Performed, Wb
<1> QED
  BY <1>2, <1>3 DEF o

\* The store of a replay is denied.
LEMMA DeniedOK ==
    ASSUME NEW r \in Rec, RecOK(r), r.at = "store"
    PROVE  LET q == Denied(r)
           IN  q \in Rec /\ RecOK(q) /\ q.at = "exit" /\ q.pad = r.pad /\ q.fc = r.fc
<1> DEFINE o == [r.out EXCEPT ![r.slot] = "denied"]
           ret == IF r.wrap = "usr" THEN 1 ELSE 0
           q == [r EXCEPT !.out = o, !.at = "exit", !.ret = ret]
<1>1. /\ r.slot \in Wb /\ r.out \in [Wb -> {"none", "pending", "done", "denied"}]
      /\ o \in [Wb -> {"none", "pending", "done", "denied"}]
      /\ \A i \in Wb : o[i] = IF i = r.slot THEN "denied" ELSE r.out[i]
      /\ ret \in {0, 1} /\ (r.wrap = "usr" => ret = 1)
  BY DEF Rec, RecOK
<1>2. q = Denied(r)
  BY DEF Denied
<1> HIDE DEF o, ret
<1>3. q \in Rec /\ q.at = "exit" /\ q.out = o /\ q.wb = r.wb /\ q.ret = ret
      /\ q.wrap = r.wrap /\ q.pad = r.pad /\ q.fc = r.fc
  BY <1>1 DEF Rec
<1>4. RecOK(q)
  BY <1>1, <1>3 DEF RecOK, Performed, Wb
<1> QED
  BY <1>2, <1>3, <1>4

-----------------------------------------------------------------------------
(* Steps.                                                                  *)

\* What IInv says of the innermost fault of the process that runs.
LEMMA TopFacts ==
    ASSUME IInv, Depth > 0
    PROVE  /\ stack[cpu] \in Seq(Rec) /\ stack[cpu] # <<>>
           /\ StackOK(stack[cpu], cpu \in copying)
           /\ Depth \in Nat \ {0} /\ Top = stack[cpu][Len(stack[cpu])]
           /\ Top \in Rec /\ RecOK(Top)
<1>1. stack[cpu] \in Seq(Rec) /\ StackOK(stack[cpu], cpu \in copying)
  BY DEF IInv, TypeInv, StacksOK
<1>2. Depth \in Nat \ {0} /\ stack[cpu] # <<>> /\ Len(stack[cpu]) \in 1..Len(stack[cpu])
  BY <1>1, EmptyIsZero DEF Depth
<1>3. Top \in Rec
  BY <1>1, <1>2, ElementOfSeq DEF Top, Depth
<1> QED
  BY <1>1, <1>2, <1>3 DEF StackOK, Top, Depth

\* A step of the process that runs, which leaves it with the stack s, the pad
\* n, and inside a copy or not.
LEMMA StepOf ==
    ASSUME IInv, panic = None, cpu' = cpu, panic' = panic,
           NEW s \in Seq(Rec), NEW n \in {None, Copy, Pad}, NEW c \in BOOLEAN,
           stack' = [stack EXCEPT ![cpu] = s],
           nofault' = [nofault EXCEPT ![cpu] = n],
           copying' \subseteq Proc, cpu \in copying' <=> c,
           \A p \in Proc \ {cpu} : p \in copying' <=> p \in copying,
           dfc' \in TM, owner' \in Nat \cup {None},
           StackOK(s, c),
           s = <<>> => /\ n = IF c THEN Copy ELSE None
                       /\ c => dfc' = User,
           s # <<>> => LET t == s[Len(s)]
                       IN  /\ n = IF t.at = "store" THEN Pad ELSE None
                           /\ t.at = "store" => dfc' = t.wb[t.slot]
    PROVE  IInv'
<1>1. /\ stack'[cpu] = s /\ nofault'[cpu] = n
      /\ \A p \in Proc \ {cpu} : stack'[p] = stack[p] /\ nofault'[p] = nofault[p]
      /\ TypeInv'
  BY DEF IInv, TypeInv
<1>2. StacksOK'
  <2>1. ASSUME NEW p \in Proc PROVE StackOK(stack'[p], p \in copying')
    <3>1. CASE p = cpu
      BY <1>1, <3>1 DEF StackOK, SavedFirst
    <3>2. CASE p # cpu
      <4>1. StackOK(stack[p], p \in copying)
        BY DEF IInv, StacksOK
      <4> QED
        BY <1>1, <3>2, <4>1 DEF StackOK, SavedFirst
    <3> QED
      BY <3>1, <3>2
  <2> QED
    BY <2>1 DEF StacksOK, StackOK
<1>3. Elsewhere'
  BY <1>1 DEF IInv, Elsewhere
<1>4. NofaultKept'
  BY <1>1 DEF IInv, NofaultKept
<1>5. DfcKept'
  <2>1. Len(s) \in Nat /\ (Len(s) = 0 <=> s = <<>>)
    BY EmptyIsZero
  <2> QED
    BY <1>1, <2>1 DEF DfcKept, Depth, Top
<1> QED
  BY <1>1, <1>2, <1>3, <1>4, <1>5 DEF IInv

\* The same when it only changes what its innermost fault records.
LEMMA TopStep ==
    ASSUME IInv, panic = None, Depth > 0, NEW r \in Rec, RecOK(r), SetTop(r),
           r.pad = Top.pad, r.fc = Top.fc,
           NEW n \in {None, Copy, Pad}, nofault' = [nofault EXCEPT ![cpu] = n],
           UNCHANGED <<cpu, copying, panic>>,
           dfc' \in TM, owner' \in Nat \cup {None},
           n = IF r.at = "store" THEN Pad ELSE None,
           r.at = "store" => dfc' = r.wb[r.slot]
    PROVE  IInv'
<1> DEFINE s == [stack[cpu] EXCEPT ![Len(stack[cpu])] = r]
           c == cpu \in copying
<1>0. c \in BOOLEAN
  OBVIOUS
<1>1. s \in Seq(Rec) /\ s # <<>> /\ s[Len(s)] = r /\ StackOK(s, c)
  <2> HIDE DEF c
  <2>1. /\ stack[cpu] \in Seq(Rec) /\ stack[cpu] # <<>> /\ StackOK(stack[cpu], c)
        /\ r.pad = stack[cpu][Len(stack[cpu])].pad /\ r.fc = stack[cpu][Len(stack[cpu])].fc
    BY TopFacts DEF c
  <2> QED
    BY <1>0, <2>1, TopReplaced
<1>2. stack' = [stack EXCEPT ![cpu] = s]
  BY DEF SetTop, Depth
<1>3. copying' \subseteq Proc /\ (cpu \in copying' <=> c)
  BY DEF IInv, TypeInv
<1> HIDE DEF s, c
<1> QED
  BY <1>0, <1>1, <1>2, <1>3, StepOf

\* The pad of a process whose innermost fault is not in a store.
LEMMA NoPad ==
    ASSUME IInv, panic = None, Depth > 0, Top.at # "store"
    PROVE  nofault[cpu] = None /\ nofault = [nofault EXCEPT ![cpu] = None]
BY TopFacts DEF IInv, TypeInv, NofaultKept

LEMMA InitIInv == Init => IInv
BY WriteBackAssumption DEF Init, IInv, TypeInv, StacksOK, StackOK, Elsewhere,
   DfcKept, NofaultKept, Depth, TM

LEMMA SwitchStep == ASSUME IInv, NEW p \in Proc, Switch(p) PROVE IInv'
<1>1. /\ panic = None /\ panic' = None /\ p # cpu /\ cpu' = p
      /\ UNCHANGED <<copying, stack, nofault, dfc, owner>>
  BY DEF Switch
<1>2. TypeInv' /\ StacksOK' /\ NofaultKept'
  BY <1>1 DEF IInv, TypeInv, StacksOK, StackOK, NofaultKept
<1>3. \A q \in Proc : Len(stack[q]) \in Nat /\ (Len(stack[q]) = 0 <=> stack[q] = <<>>)
  BY EmptyIsZero DEF IInv, TypeInv
<1>4. Elsewhere'
  BY <1>1, <1>3 DEF Switch, IInv, TypeInv, Elsewhere, Depth, Top
<1>5. DfcKept'
  BY <1>1, <1>3 DEF IInv, Elsewhere, DfcKept, Depth, Top
<1> QED
  BY <1>2, <1>4, <1>5 DEF IInv

LEMMA CopyStep == ASSUME IInv, CopyBegin \/ CopyEnd PROVE IInv'
<1>1. /\ panic = None /\ UNCHANGED <<cpu, panic, stack, owner>>
      /\ stack[cpu] = <<>> /\ stack = [stack EXCEPT ![cpu] = <<>>]
      /\ <<>> \in Seq(Rec) /\ owner \in Nat \cup {None} /\ cpu \in Proc /\ copying \subseteq Proc
  BY EmptyIsZero, EmptySeq DEF CopyBegin, CopyEnd, Depth, IInv, TypeInv
<1>2. \A c \in BOOLEAN : StackOK(<<>>, c)
  BY DEF StackOK
<1>3. CASE CopyBegin
  <2>1. /\ copying' \subseteq Proc /\ cpu \in copying' /\ dfc' = User /\ User \in TM
        /\ \A p \in Proc \ {cpu} : p \in copying' <=> p \in copying
        /\ nofault' = [nofault EXCEPT ![cpu] = Copy]
    BY <1>1, <1>3 DEF CopyBegin, TM
  <2> QED
    BY <1>1, <1>2, <2>1, StepOf
<1>4. CASE CopyEnd
  <2>1. /\ copying' \subseteq Proc /\ cpu \notin copying' /\ dfc' \in TM
        /\ \A p \in Proc \ {cpu} : p \in copying' <=> p \in copying
        /\ nofault' = [nofault EXCEPT ![cpu] = None]
    BY <1>1, <1>4 DEF CopyEnd, IInv, TypeInv
  <2> QED
    BY <1>1, <1>2, <2>1, StepOf
<1> QED
  BY <1>3, <1>4

\* k_trap pushes a fault that saved the pad and the function code in force.
LEMMA KTrapStep ==
    ASSUME IInv, panic = None, panic' = panic, NEW tm \in TM, NEW irq \in BOOLEAN,
           NEW wb \in [Wb -> TM \cup {None}], KTrap(tm, irq, wb),
           Depth = 0 => cpu \in copying, Depth > 0 => Top.at = "store"
    PROVE  IInv'
<1> DEFINE r == Fault(IF tm = User THEN "usr" ELSE "krn", irq, nofault[cpu], wb)
           c == cpu \in copying
           s == Append(stack[cpu], r)
<1>1. /\ TypeInv /\ stack[cpu] \in Seq(Rec) /\ StackOK(stack[cpu], c)
      /\ nofault[cpu] \in {None, Copy, Pad} /\ c \in BOOLEAN
      /\ cpu' = cpu /\ copying' = copying /\ dfc' = dfc /\ owner' = owner
      /\ copying \subseteq Proc /\ dfc \in TM /\ owner \in Nat \cup {None}
      /\ stack' = [stack EXCEPT ![cpu] = s] /\ nofault' = [nofault EXCEPT ![cpu] = None]
  BY DEF IInv, TypeInv, StacksOK, KTrap
<1>2. r \in Rec /\ RecOK(r) /\ r.pad = nofault[cpu] /\ r.fc = dfc /\ r.at = "resolve"
  BY <1>1, FaultOK
<1>3. stack[cpu] = <<>> => SavedFirst(r, c)
  <2> HAVE stack[cpu] = <<>>
  <2>1. Depth = 0 /\ c
    BY <1>1, EmptyIsZero DEF Depth
  <2>2. nofault[cpu] = Copy /\ dfc = User
    BY <1>1, <2>1 DEF IInv, NofaultKept, DfcKept, TypeInv
  <2> QED
    BY <1>2, <2>1, <2>2 DEF SavedFirst
<1>4. stack[cpu] # <<>> => SavedOver(r, stack[cpu][Len(stack[cpu])])
  <2> HAVE stack[cpu] # <<>>
  <2>1. Depth > 0 /\ Top = stack[cpu][Len(stack[cpu])] /\ Top.at = "store"
    BY <1>1, EmptyIsZero DEF Depth, Top
  <2>2. nofault[cpu] = Pad /\ dfc = Top.wb[Top.slot]
    BY <1>1, <2>1 DEF IInv, NofaultKept, DfcKept, TypeInv
  <2> QED
    BY <1>2, <2>1, <2>2 DEF SavedOver
<1> HIDE DEF r, c
<1>5. s \in Seq(Rec) /\ s # <<>> /\ s[Len(s)] = r /\ StackOK(s, c)
  BY <1>1, <1>2, <1>3, <1>4, Pushed
<1>6. \A p \in Proc \ {cpu} : p \in copying' <=> p \in copying
  BY <1>1
<1>7. cpu \in copying' <=> c
  BY <1>1 DEF c
<1> HIDE DEF s
<1> QED
  BY <1>1, <1>2, <1>5, <1>6, <1>7, StepOf

LEMMA UserFaultStep ==
    ASSUME IInv, NEW wb \in [Wb -> TM \cup {None}], UserFault(wb)
    PROVE  IInv'
<1> DEFINE r == Fault("usr", FALSE, None, wb)
           s == Append(<<>>, r)
<1>1. /\ TypeInv /\ panic = None /\ stack[cpu] = <<>> /\ cpu \notin copying
      /\ UNCHANGED <<cpu, copying, nofault, dfc, owner, panic>>
      /\ copying \subseteq Proc /\ dfc \in TM /\ owner \in Nat \cup {None} /\ cpu \in Proc
  BY EmptyIsZero DEF UserFault, Depth, IInv, TypeInv
<1>2. nofault = [nofault EXCEPT ![cpu] = None]
  BY <1>1 DEF IInv, TypeInv, NofaultKept
<1>3. r \in Rec /\ RecOK(r) /\ r.pad = None /\ r.fc = dfc /\ r.at = "resolve"
  BY <1>1, FaultOK
<1>4. SavedFirst(r, FALSE) /\ StackOK(<<>>, FALSE) /\ <<>> \in Seq(Rec)
  <2> HIDE DEF r
  <2>1. SavedFirst(r, FALSE)
    BY <1>3 DEF SavedFirst
  <2>2. StackOK(<<>>, FALSE)
    BY DEF StackOK
  <2> QED
    BY <2>1, <2>2, EmptySeq
<1>5. stack' = [stack EXCEPT ![cpu] = s]
  BY DEF UserFault
<1> HIDE DEF r
<1>6. s \in Seq(Rec) /\ s # <<>> /\ s[Len(s)] = r /\ StackOK(s, FALSE)
  BY <1>3, <1>4, Pushed
<1> HIDE DEF s
<1> QED
  BY <1>1, <1>2, <1>3, <1>5, <1>6, StepOf

\* The faults a step may take.
LEMMA FaultsStep ==
    ASSUME IInv,
           \/ \E wb \in Frames : UserFault(wb) \/ \E tm \in TM : CopyFault(tm, wb)
           \/ StoreFault
           \/ InterruptFault
    PROVE  IInv'
<1> USE WriteBackAssumption
<1>1. CASE \E wb \in Frames : UserFault(wb)
  BY <1>1, UserFaultStep
<1>2. CASE \E wb \in Frames : \E tm \in TM : CopyFault(tm, wb)
  <2>1. PICK wb \in Frames, tm \in TM : CopyFault(tm, wb)
    BY <1>2
  <2>2. /\ panic = None /\ panic' = panic /\ KTrap(tm, FALSE, wb)
        /\ Depth = 0 /\ cpu \in copying
    BY <2>1 DEF CopyFault, KTrap
  <2>3. wb \in [Wb -> TM \cup {None}] /\ FALSE \in BOOLEAN /\ ~(Depth > 0)
    BY <2>2
  <2> QED
    BY <2>2, <2>3, KTrapStep
<1>3. CASE StoreFault
  <2> DEFINE tm == Top.wb[Top.slot]
             wb == [i \in Wb |-> IF i = 3 THEN tm ELSE None]
  <2>1. /\ panic = None /\ panic' = panic /\ Depth > 0 /\ Top.at = "store"
        /\ KTrap(tm, FALSE, wb)
    BY <1>3 DEF StoreFault, AtTop, KTrap
  <2>2. tm \in TM
    BY <2>1, TopFacts DEF RecOK, Rec
  <2>3. wb \in [Wb -> TM \cup {None}] /\ FALSE \in BOOLEAN /\ Depth # 0
    BY <2>1, <2>2
  <2> HIDE DEF tm, wb
  <2> QED
    BY <2>1, <2>2, <2>3, KTrapStep
<1>4. CASE InterruptFault
  <2> DEFINE wb == [i \in Wb |-> None]
  <2>1. /\ panic = None /\ panic' = panic /\ Depth > 0 /\ Top.at = "store"
        /\ KTrap(Sup, TRUE, wb) /\ Sup \in TM /\ wb \in [Wb -> TM \cup {None}]
        /\ TRUE \in BOOLEAN /\ Depth # 0
    BY <1>4 DEF InterruptFault, AtTop, KTrap, TM
  <2> HIDE DEF wb
  <2> QED
    BY <2>1, KTrapStep
<1> QED
  BY <1>1, <1>2, <1>3, <1>4

\* The steps of the wrapper whose fault is innermost.
LEMMA ResolverStep == ASSUME IInv, Resolved \/ Unresolved \/ ReplayDone PROVE IInv'
<1> PICK r : /\ SetTop(r)
             /\ \/ Resolved /\ r = [Top EXCEPT !.at = "replay"]
                \/ Unresolved /\ r = [Top EXCEPT !.at = "exit", !.ret = 1]
                \/ ReplayDone /\ r = [Top EXCEPT !.at = "exit"]
  BY DEF Resolved, Unresolved, ReplayDone
<1>1. /\ panic = None /\ Depth > 0 /\ UNCHANGED <<cpu, copying, panic, nofault, dfc, owner>>
      /\ Top.at \in {"resolve", "replay"}
      /\ ReplayDone => Top.at = "replay" /\ Pending = {}
  BY DEF Resolved, Unresolved, ReplayDone, AtTop
<1>2. Top \in Rec /\ RecOK(Top)
  BY <1>1, TopFacts
<1>3. r \in Rec /\ r.at # "store" /\ r.pad = Top.pad /\ r.fc = Top.fc
  BY <1>2 DEF Rec
<1>4. ReplayDone => Complete(Top)
  BY <1>1, <1>2 DEF Pending, Complete, RecOK, Rec
<1>5. RecOK(r)
  <2>1. /\ r.out = Top.out /\ r.wb = Top.wb /\ r.wrap = Top.wrap
        /\ r.at = "exit" /\ r.ret # 1 => Complete(Top)
        /\ \A i \in Wb : Top.out[i] # "denied"
    BY <1>1, <1>2, <1>4 DEF RecOK, Rec
  <2> QED
    BY <1>2, <1>3, <2>1 DEF RecOK, Performed, Complete
<1>6. /\ nofault' = [nofault EXCEPT ![cpu] = None] /\ dfc' \in TM
      /\ owner' \in Nat \cup {None}
  BY <1>1, NoPad DEF IInv, TypeInv
<1> QED
  BY <1>1, <1>3, <1>5, <1>6, TopStep

LEMMA StoreBeginStep == ASSUME IInv, StoreBegin PROVE IInv'
<1> DEFINE r == Arm([Top EXCEPT !.slot = Slot])
<1>1. /\ panic = None /\ Depth > 0 /\ Top.at = "replay" /\ Pending # {} /\ SetTop(r)
      /\ UNCHANGED <<cpu, copying, panic>> /\ dfc' = Top.wb[Slot] /\ owner' = Depth
      /\ nofault' = [nofault EXCEPT ![cpu] = Pad]
  BY DEF StoreBegin, AtTop, Sp
<1>2. Top \in Rec /\ RecOK(Top) /\ Depth \in Nat
  BY <1>1, TopFacts
<1>3. /\ Slot \in Wb /\ Top.out[Slot] = "pending" /\ Top.wb[Slot] \in TM
      /\ \A i \in Wb : i < Slot => Performed(Top, i)
  BY <1>1, <1>2, SlotIsFirst DEF AtTop
<1>4. nofault[cpu] = None /\ owner \in Nat \cup {None}
  BY <1>1, NoPad DEF IInv, TypeInv
<1> HIDE DEF Slot
<1>5. /\ r \in Rec /\ r.at = "store" /\ r.slot = Slot /\ r.wb = Top.wb /\ r.out = Top.out
      /\ r.pad = Top.pad /\ r.fc = Top.fc
  <2>1. Slot \in 0..3
    BY <1>3 DEF Wb
  <2>2. r = [Top EXCEPT !.slot = Slot, !.at = "store", !.nf = None, !.own = owner]
    BY <1>4 DEF Arm
  <2> HIDE DEF r
  <2> QED
    BY <1>2, <1>4, <2>1, <2>2 DEF Rec
<1>6. RecOK(r)
  BY <1>1, <1>2, <1>3, <1>5 DEF RecOK, Performed, Rec, Wb
<1> HIDE DEF r
<1> QED
  BY <1>1, <1>2, <1>3, <1>5, <1>6, TopStep

LEMMA StoreDoneStep == ASSUME IInv, StoreDone PROVE IInv'
<1> DEFINE r == [Top EXCEPT !.at = "replay", !.out[Top.slot] = "done"]
<1>1. /\ panic = None /\ Depth > 0 /\ Top.at = "store" /\ SetTop(r)
      /\ UNCHANGED <<cpu, copying, panic, dfc>> /\ owner' = Top.own
      /\ nofault' = [nofault EXCEPT ![cpu] = Top.nf]
  BY DEF StoreDone, AtTop, Disarm
<1>2. Top \in Rec /\ RecOK(Top)
  BY <1>1, TopFacts
<1>3. r \in Rec /\ RecOK(r) /\ r.at = "replay" /\ r.pad = Top.pad /\ r.fc = Top.fc
  BY <1>1, <1>2, StoredOK
<1>4. Top.nf = None /\ Top.own \in Nat \cup {None} /\ dfc \in TM
  BY <1>2 DEF Rec, IInv, TypeInv
<1> HIDE DEF r
<1> QED
  BY <1>1, <1>3, <1>4, TopStep

\* The end of a fault gives the code below it what the fault had saved.
LEMMA ReturnStep == ASSUME IInv, Return PROVE IInv'
<1> DEFINE c == cpu \in copying
           s == Popped
<1>1. /\ panic = None /\ Depth > 0 /\ UNCHANGED <<cpu, copying, owner, panic>>
      /\ stack' = [stack EXCEPT ![cpu] = s] /\ dfc' = Top.fc
      /\ nofault' = [nofault EXCEPT ![cpu] = Top.pad]
  BY DEF Return, AtTop, Restored
<1>2. /\ stack[cpu] \in Seq(Rec) /\ stack[cpu] # <<>> /\ StackOK(stack[cpu], c)
      /\ Top = stack[cpu][Len(stack[cpu])] /\ Top \in Rec /\ c \in BOOLEAN
      /\ owner \in Nat \cup {None} /\ copying \subseteq Proc
  BY <1>1, TopFacts DEF IInv, TypeInv
<1>3. s = SubSeq(stack[cpu], 1, Len(stack[cpu]) - 1)
  BY DEF Popped, Depth
<1>4. (cpu \in copying' <=> c) /\ copying' = copying
  BY <1>1
<1> HIDE DEF c, s
<1>5. /\ s \in Seq(Rec) /\ StackOK(s, c)
      /\ s = <<>> => SavedFirst(Top, c)
      /\ s # <<>> => SavedOver(Top, s[Len(s)])
  BY <1>2, <1>3, PoppedOK
<1>6. Top.pad \in {None, Copy, Pad} /\ Top.fc \in TM
  BY <1>2 DEF Rec
<1> QED
  BY <1>1, <1>2, <1>4, <1>5, <1>6, StepOf DEF SavedFirst, SavedOver

LEMMA ReturnFailedStep == ASSUME IInv, ReturnFailed PROVE IInv'
<1>1. /\ panic = None /\ Depth > 0 /\ UNCHANGED <<cpu, owner, panic>>
      /\ stack' = [stack EXCEPT ![cpu] = <<>>] /\ dfc' = Top.fc
      /\ nofault' = [nofault EXCEPT ![cpu] = None]
      /\ copying' = copying \ {cpu}
  BY DEF ReturnFailed, AtTop, Restored
<1>2. /\ Top.fc \in TM /\ owner \in Nat \cup {None} /\ copying' \subseteq Proc
      /\ cpu \notin copying'
      /\ \A p \in Proc \ {cpu} : p \in copying' <=> p \in copying
  BY <1>1, TopFacts DEF Rec, IInv, TypeInv
<1>3. StackOK(<<>>, FALSE) /\ <<>> \in Seq(Rec)
  BY EmptySeq DEF StackOK
<1> QED
  BY <1>1, <1>2, <1>3, StepOf

LEMMA LandStep == ASSUME IInv, Land PROVE IInv'
<1> DEFINE c == cpu \in copying
           t == Popped
           u == SubSeq(t, 1, Len(t) - 1)
           r == Denied(Outer)
           s == Append(u, r)
<1>1. /\ panic = None /\ Depth > 1 /\ UNCHANGED <<cpu, copying, panic>>
      /\ stack' = [stack EXCEPT ![cpu] = Append(SubSeq(t, 1, Depth - 2), r)]
      /\ dfc' = Top.fc /\ owner' = Outer.own
      /\ nofault' = [nofault EXCEPT ![cpu] = Outer.nf]
  BY DEF Land, AtTop, Restored
<1>2. /\ stack[cpu] \in Seq(Rec) /\ stack[cpu] # <<>> /\ StackOK(stack[cpu], c)
      /\ Depth = Len(stack[cpu]) /\ Depth \in Nat /\ c \in BOOLEAN
      /\ Top = stack[cpu][Len(stack[cpu])] /\ Top.fc \in TM /\ copying \subseteq Proc
  <2>1. Depth > 0
    BY <1>1, EmptyIsZero DEF Depth, IInv, TypeInv
  <2>2. /\ stack[cpu] \in Seq(Rec) /\ stack[cpu] # <<>> /\ StackOK(stack[cpu], c)
        /\ Depth \in Nat /\ Top = stack[cpu][Len(stack[cpu])] /\ Top \in Rec
    BY <2>1, TopFacts
  <2> QED
    BY <2>2 DEF IInv, TypeInv, Depth, Rec
<1>3. t = SubSeq(stack[cpu], 1, Len(stack[cpu]) - 1)
  BY DEF Popped, Depth
<1>4. (cpu \in copying' <=> c) /\ copying' = copying
  BY <1>1
<1> HIDE DEF c, t
<1>5. /\ t \in Seq(Rec) /\ Len(t) = Len(stack[cpu]) - 1 /\ StackOK(t, c) /\ t # <<>>
      /\ t[Len(t)] = Outer /\ SavedOver(Top, Outer)
  <2>1. Outer = stack[cpu][Len(stack[cpu]) - 1] /\ Len(stack[cpu]) # 1
    BY <1>1, <1>2 DEF Outer
  <2> QED
    BY <1>2, <1>3, <2>1, PoppedOK
<1>6. Outer \in Rec /\ RecOK(Outer) /\ Outer.at = "store"
  <2>1. Len(t) \in 1..Len(t)
    BY <1>5, EmptyIsZero
  <2> QED
    BY <1>5, <2>1, ElementOfSeq DEF StackOK, SavedOver
<1>7. /\ u \in Seq(Rec) /\ StackOK(u, c)
      /\ u = <<>> => SavedFirst(Outer, c)
      /\ u # <<>> => SavedOver(Outer, u[Len(u)])
  BY <1>2, <1>5, PoppedOK
<1>8. r \in Rec /\ RecOK(r) /\ r.at = "exit" /\ r.pad = Outer.pad /\ r.fc = Outer.fc
  BY <1>6, DeniedOK
<1>9. stack' = [stack EXCEPT ![cpu] = s]
  <2>1. Depth - 2 = Len(t) - 1
    BY <1>2, <1>5
  <2> QED
    BY <1>1, <2>1
<1> HIDE DEF u, r
<1>10. s \in Seq(Rec) /\ s # <<>> /\ s[Len(s)] = r /\ StackOK(s, c)
  <2>1. /\ u = <<>> => SavedFirst(r, c)
        /\ u # <<>> => SavedOver(r, u[Len(u)])
    BY <1>7, <1>8 DEF SavedFirst, SavedOver
  <2> QED
    BY <1>2, <1>7, <1>8, <2>1, Pushed
<1>11. Outer.nf = None /\ Outer.own \in Nat \cup {None}
  BY <1>6 DEF Rec
<1> HIDE DEF s
<1> QED
  BY <1>1, <1>2, <1>4, <1>8, <1>9, <1>10, <1>11, StepOf

LEMMA LandPanicStep == ASSUME IInv, LandPanic PROVE IInv'
<1>1. panic = None /\ UNCHANGED <<cpu, copying, stack, nofault, dfc, owner>>
  BY DEF LandPanic, AtTop
<1> QED
  BY <1>1 DEF IInv, TypeInv, StacksOK, StackOK, Elsewhere, DfcKept, NofaultKept,
     Depth, Top

LEMMA NextIInv == IInv /\ [Next]_vars => IInv'
<1> SUFFICES ASSUME IInv, [Next]_vars PROVE IInv'
    OBVIOUS
<1>1. CASE Next
  BY <1>1, SwitchStep, CopyStep, FaultsStep, ResolverStep, StoreBeginStep, StoreDoneStep,
     ReturnStep, ReturnFailedStep, LandStep, LandPanicStep DEF Next
<1>2. CASE UNCHANGED vars
  BY <1>2 DEF vars, IInv, TypeInv, StacksOK, StackOK, Elsewhere, DfcKept, NofaultKept,
     Depth, Top
<1> QED
  BY <1>1, <1>2

LEMMA Invariance == Spec => []IInv
BY InitIInv, NextIInv, PTL DEF Spec

-----------------------------------------------------------------------------

\* Whatever faults a copy loop or a replay took, and whoever ran while a
\* resolver slept, its next store uses its own function code (the DFC
\* wb040.s saves in its wrappers).
THEOREM CallersFunctionCode == Spec => []DfcKept
<1>1. IInv => DfcKept
  BY DEF IInv
<1> QED
  BY <1>1, Invariance, PTL

\* A fault of a copy lands on lcopyout's pad after any nesting of replays, one
\* of a replay on Lwb_fail, one of user mode on none (u_nofault in Lwb_do).
THEOREM OwnLandingPad == Spec => []NofaultKept
<1>1. IInv => NofaultKept
  BY DEF IInv
<1> QED
  BY <1>1, Invariance, PTL

\* WB1, WB2, WB3, and nothing after a denied store, on every kernel stack
\* (wb040_replay).
THEOREM StoresInOrder == Spec => []InOrder
<1>1. IInv => InOrder
  BY DEF IInv, TypeInv, StacksOK, StackOK, RecOK, Performed, InOrder
<1> QED
  BY <1>1, Invariance, PTL

\* A frame usrxmemflt reports completed has no store left undone.
THEOREM SuccessIsWhole == Spec => []UserSuccessIsComplete
<1>1. IInv => UserSuccessIsComplete
  <2> SUFFICES ASSUME IInv, NEW p \in Proc, Exiting(p),
                      stack[p][Len(stack[p])].wrap = "usr",
                      stack[p][Len(stack[p])].ret = 0
               PROVE  Complete(stack[p][Len(stack[p])])
      BY DEF UserSuccessIsComplete
  <2>1. stack[p] \in Seq(Rec) /\ stack[p] # <<>> /\ stack[p][Len(stack[p])].at = "exit"
    BY DEF IInv, TypeInv, Exiting
  <2>2. Len(stack[p]) \in 1..Len(stack[p])
    BY <2>1, EmptyIsZero
  <2> QED
    BY <2>1, <2>2 DEF IInv, StacksOK, StackOK, RecOK
<1> QED
  BY <1>1, Invariance, PTL
=============================================================================
