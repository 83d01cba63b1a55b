----------------------------- MODULE ImageBuild -----------------------------
(***************************************************************************)
(* Building kernels: relink-040.sh links the stock kernel and runs the     *)
(* image patchers over it in order; every other relink-040-*.sh is a pass  *)
(* that copies or links a kernel it is given to a new file and patches     *)
(* that.  A step that fails stops its script (tools/build-step.sh) and     *)
(* leaves the file as it is; so does an interrupt.  Patchers are also run  *)
(* by hand.  stamp_buildid.py gives a kernel its id from a per-directory   *)
(* counter.                                                                *)
(***************************************************************************)
EXTENDS KernelImage, Sequences

CONSTANTS
    File,        \* kernel files, in one build directory
    Stock,       \* the stock kernel
    Script,      \* script name -> what it reads, writes, insists on and runs
    Patcher,     \* the patchers a developer runs by hand
    Already,     \* the disk and the counter file a day may start with
    Requires,    \* pairs: the first unit is wrong without the second
    Entry,       \* the slots a handler chain starts at
    Exit,        \* handler -> the slot it passes on through
    MaxChain,    \* bound: handlers on one chain
    SeqLo, SeqHi,\* this machine's block of build-id numbers (tools/blocks.py)
    MaxDay,      \* bound: days
    MaxEvents    \* bound: scripts started, interrupts, patchers run by hand

VARIABLES
    disk,     \* file -> the kernel there, its id, and whether it is finished
    job,      \* the script that runs, and its next step
    seqfile,  \* .build-seq: the day it is about and the last number
    today,
    events    \* scripts started, interrupted and patchers run by hand so far

vars == <<disk, job, seqfile, today, events>>

NoId    == <<0, 0>>      \* the reserved literal of inituname040.s
Absent  == [there |-> FALSE, img |-> Stock, id |-> NoId, done |-> FALSE]
NoJob   == [on |-> FALSE, name |-> "none", pc |-> 0, clean |-> FALSE, drawn |-> 0,
            end |-> "none"]

\* A patch record, for the theorems.
Patches == Patcher \cup {Script[n].link : n \in DOMAIN Script} \cup
           UNION {{Script[n].steps[i] : i \in DOMAIN Script[n].steps} :
                    n \in DOMAIN Script}

Units   == UNION {p.writes : p \in Patches}
Slots   == DOMAIN Stock.slot
Kernel  == [conv : SUBSET Units, slot : [Slots -> STRING], syms : SUBSET STRING]
JobName == DOMAIN Script \cup {"none"}
Outcome == {"none", "built", "refused", "interrupted", "no id left"}
JobType == [on : BOOLEAN, name : JobName, pc : Nat, clean : BOOLEAN,
            drawn : 0 .. SeqHi, end : Outcome]
BuildId == (0 .. MaxDay) \X (0 .. SeqHi)
OnDisk  == [there : BOOLEAN, img : Kernel, id : BuildId, done : BOOLEAN]
Counter == [day : 0 .. MaxDay, n : 0 .. SeqHi + 1]

ASSUME BoundsAssumption ==
    /\ SeqLo \in Nat /\ SeqHi \in Nat /\ 0 < SeqLo /\ SeqLo <= SeqHi
    /\ MaxDay \in Nat \ {0} /\ MaxEvents \in Nat

\* Patchers touch slots the kernel has, and name symbols.
ASSUME PatchAssumption ==
    /\ Stock \in Kernel
    /\ \A p \in Patches :
          /\ p.adds \subseteq STRING
          /\ DOMAIN p.links \subseteq Slots
          /\ \A s \in DOMAIN p.links : p.links[s].to \in STRING
          /\ DOMAIN p.saves \subseteq Slots
          /\ \A s \in DOMAIN p.saves : p.saves[s] \in Slots

ASSUME ScriptAssumption ==
    \A n \in DOMAIN Script :
        /\ Script[n].out \in File
        /\ Script[n].linked \in BOOLEAN
        /\ ~Script[n].linked => Script[n].in \in File \ {Script[n].out}
        /\ Script[n].steps \in Seq(Patches)

\* Whoever writes a unit that needs another insists on that one, and nobody
\* takes it back.
ASSUME RequiresAssumption ==
    \A r \in Requires :
        /\ \A p \in Patches : /\ r[1] \in p.writes => r[2] \in p.new
                             /\ r[2] \notin p.reverts
        /\ r[1] \in Stock.conv => r[2] \in Stock.conv

\* Earlier days' ids name one kernel each, and their kernels are in order.
ASSUME AlreadyAssumption ==
    \A d \in Already :
        /\ d.disk \in [File -> OnDisk]
        /\ d.seqfile \in Counter /\ d.seqfile.day <= 1
        /\ \A f \in File : d.disk[f].id[1] < 1
        /\ \A f, g \in File : /\ d.disk[f].there /\ d.disk[f].done
                             /\ d.disk[g].there /\ d.disk[g].done
                             /\ d.disk[f].id = d.disk[g].id
                                => d.disk[f].img = d.disk[g].img
        /\ \A f \in File, r \in Requires :
              r[1] \in d.disk[f].img.conv => r[2] \in d.disk[f].img.conv

----------------------------------------------------------------------------
(* Running patchers again.  Quiet says that a patcher, run on k, refuses *)
(* or finds nothing to do; the rest says, of the tables alone, that every  *)
(* script leaves the patchers of its own build quiet.                      *)

\* The patchers that may be run again over f: those of the script that makes
\* it and those of the base links.
RerunOn(f) ==
    {p \in UNION {{Script[n].steps[i] : i \in DOMAIN Script[n].steps} :
                     n \in {m \in DOMAIN Script : Script[m].out = f \/ Script[m].linked}} :
        p.adds = {}}

Quiet(p, k) ==
    \/ ~(p.needs \subseteq k.syms)
    \/ /\ p.writes \subseteq k.conv
       /\ p.reverts \cap k.conv = {}
       /\ \A s \in DOMAIN p.links : k.slot[s] \notin p.links[s].from \ {p.links[s].to}

\* q points no slot back at a symbol p would replace again.
Forward(q, p, s) == q.links[s].to \notin p.links[s].from \ {p.links[s].to}

\* q makes p quiet; q leaves it quiet.
Quiets(q, p) ==
    /\ p.writes \subseteq q.writes \ q.reverts
    /\ p.reverts \subseteq q.reverts
    /\ DOMAIN q.saves # {} => p.reverts = {}
    /\ \A s \in DOMAIN p.links : s \in DOMAIN q.links /\ Forward(q, p, s)
Keeps(q, p) ==
    /\ q.adds \cap p.needs = {}
    /\ q.reverts \cap p.writes = {}
    /\ q.writes \cap p.reverts = {}
    /\ \A s \in DOMAIN p.links : /\ s \in DOMAIN q.links => Forward(q, p, s)
                               /\ s \notin DOMAIN q.saves

\* What the first i - 1 steps of a base link can have converted; a step that
\* insists on more never succeeds.
Made(n, i) == Stock.conv \cup Script[n].link.writes \cup
              UNION {Script[n].steps[j].writes : j \in 1 .. i - 1}
Fails(n, i) == /\ Script[n].linked /\ ~Script[n].steps[i].stamp
               /\ DOMAIN Script[n].steps[i].saves = {}
               /\ ~(Script[n].steps[i].new \subseteq Made(n, i))

\* A pass leaves p quiet from its input on; a script makes it quiet at step i.
Carries(n, p) == /\ ~Script[n].linked
                 /\ p \in RerunOn(Script[n].in)
                 /\ Keeps(Script[n].link, p)
                 /\ \A i \in DOMAIN Script[n].steps : Keeps(Script[n].steps[i], p)
QuietsAt(n, p, i) == /\ ~Script[n].steps[i].stamp
                      /\ Quiets(Script[n].steps[i], p)
                      /\ \A j \in DOMAIN Script[n].steps :
                            j > i => Keeps(Script[n].steps[j], p)
Idle(p) == p.writes = {} /\ p.reverts = {} /\ DOMAIN p.links = {}

ASSUME RerunAssumption ==
    /\ \A n \in DOMAIN Script : \A p \in RerunOn(Script[n].out) :
          \/ Idle(p)
          \/ Carries(n, p)
          \/ \E i \in DOMAIN Script[n].steps : QuietsAt(n, p, i) \/ Fails(n, i)
    /\ \A d \in Already : \A f \in File :
          d.disk[f].there /\ d.disk[f].done =>
              \A p \in RerunOn(f) : Quiet(p, d.disk[f].img)

----------------------------------------------------------------------------
(* The handlers a kernel can reach.                                        *)

Handlers(k) == Follow(k, Exit, Entry, MaxChain) \cap DOMAIN Exit

\* The ghost "done" of a file: its own script said it was built, from an
\* input that was finished too, and nobody has patched it since.
Finished(f) == disk[f].there /\ disk[f].done

----------------------------------------------------------------------------
(* Which symbols a relocation can come to name, and what that says of the  *)
(* chains: facts about the tables alone, for the theorems on handlers.     *)

\* may bounds the symbols each slot of each file names.
InMay(may, n) == IF Script[n].linked THEN [s \in Slots |-> {Stock.slot[s]}]
                                     ELSE may[Script[n].in]

\* What p displaces at s, of the symbols the slot may name.
Displaced(p, m, s) == m[s] \cap (p.links[s].from \ {p.links[s].to})

\* p makes of a kernel within m one within m2.
Brings(p, m, m2) ==
    \A s \in Slots :
        IF s \in DOMAIN p.links
        THEN m[s] \cap (p.links[s].from \cup {p.links[s].to}) # {}
                => p.links[s].to \in m2[s]
        ELSE /\ m[s] \subseteq m2[s]
             /\ s \in DOMAIN p.saves => Displaced(p, m, p.saves[s]) \subseteq m2[s]

\* A handler p displaces at s is the one that its own handler passes on to.
ChainsStay(p, m) ==
    \A s \in DOMAIN p.links : \A v \in Displaced(p, m, s) \cap DOMAIN Exit :
        LET h == p.links[s].to
        IN  /\ h \in DOMAIN Exit /\ Exit[h] \notin DOMAIN p.links
            /\ IF Exit[h] \in DOMAIN p.saves THEN p.saves[Exit[h]] = s
                                             ELSE m[Exit[h]] \subseteq {v}

\* A patcher that saves what it displaces does nothing else.
OneHandler(p) == \A s \in DOMAIN p.saves :
                    p.writes = {} /\ DOMAIN p.links = {p.saves[s]}

Chained(p, m, m2) == OneHandler(p) /\ Brings(p, m, m2) /\ ChainsStay(p, m)

\* may holds on every file whatever runs, no patcher cuts a handler off, and
\* along every chain rank falls, so that MaxChain cuts none.
ChainsSettled(may, rank) ==
    /\ MaxChain \in Nat /\ Entry \subseteq Slots /\ "nullvect" \notin DOMAIN Exit
    /\ \A h \in DOMAIN Exit : Exit[h] \in Slots /\ rank[h] \in 0 .. MaxChain
    /\ \A f \in File, h \in DOMAIN Exit :
          \A v \in may[f][Exit[h]] \cap DOMAIN Exit : rank[v] < rank[h]
    /\ \A d \in Already, f \in File, s \in Slots :
          d.disk[f].there => d.disk[f].img.slot[s] \in may[f][s]
    /\ \A n \in DOMAIN Script :
          /\ Chained(Script[n].link, InMay(may, n), may[Script[n].out])
          /\ \A i \in DOMAIN Script[n].steps :
                Chained(Script[n].steps[i], may[Script[n].out], may[Script[n].out])
    /\ \A p \in Patcher, f \in File : Chained(p, may[f], may[f])

----------------------------------------------------------------------------
(* Scripts.  "in" is the kernel file a pass reads; a base link reads the   *)
(* stock kernel.                                                           *)

S(n)     == Script[n]
Input(n) == IF S(n).linked THEN Stock ELSE disk[S(n).in].img

\* What a script checks before it writes anything.
Guard(n) == /\ ~S(n).linked => disk[S(n).in].there
            /\ S(n).has \subseteq Input(n).syms
            /\ S(n).lacks \cap Input(n).syms = {}
            /\ \A p \in S(n).first : Accepts(p, Input(n))

\* The link or copy that makes the output file.
FreshTrusted(n) == [there |-> TRUE, img |-> Effect(S(n).link, Input(n)),
                    id |-> IF S(n).linked THEN NoId ELSE disk[S(n).in].id,
                    done |-> Finished(S(n).out)]
Fresh(n) == [there |-> TRUE, img |-> Effect(S(n).link, Input(n)),
             id |-> IF S(n).linked THEN NoId ELSE disk[S(n).in].id,
             done |-> FALSE]

Start(n) ==
    /\ ~job.on /\ events < MaxEvents
    /\ Guard(n)
    /\ Accepts(S(n).link, Input(n))
    /\ disk' = [disk EXCEPT ![S(n).out] = Fresh(n)]
    /\ job' = [on |-> TRUE, name |-> n, pc |-> 1, drawn |-> 0, end |-> "none",
               clean |-> S(n).linked \/ Finished(S(n).in)]
    /\ events' = events + 1
    /\ UNCHANGED <<seqfile, today>>

Out     == S(job.name).out
AtStep  == job.on /\ job.pc <= Len(S(job.name).steps)
Patch   == S(job.name).steps[job.pc]
Image   == disk[Out].img

\* How a script ends.
Ended(how) == [NoJob EXCEPT !.name = job.name, !.end = how]

\* run_step, and its failure.
Step ==
    /\ AtStep /\ ~Patch.stamp
    /\ Accepts(Patch, Image)
    /\ disk' = [disk EXCEPT ![Out].img = Effect(Patch, Image)]
    /\ job' = [job EXCEPT !.pc = @ + 1]
    /\ UNCHANGED <<seqfile, today, events>>

\* Without the pipe through tail, run_step's caller would go on.
RefusalPiped == [job EXCEPT !.pc = @ + 1]
AfterRefusal == Ended("refused")

Abort ==
    /\ AtStep /\ ~Patch.stamp
    /\ ~Accepts(Patch, Image)
    /\ job' = AfterRefusal
    /\ UNCHANGED <<disk, seqfile, today, events>>

NumberReused == IF seqfile.day = today /\ seqfile.n \in SeqLo .. SeqHi
                THEN seqfile.n ELSE SeqLo
\* next_seq: a number from another day, or from outside this machine's
\* block, restarts the block.
NextSeq == IF seqfile.day = today /\ seqfile.n \in SeqLo .. SeqHi
           THEN seqfile.n + 1 ELSE SeqLo

\* The number is used up before the image is written.
Draw ==
    /\ AtStep /\ Patch.stamp /\ job.drawn = 0
    /\ NextSeq <= SeqHi
    /\ seqfile' = [day |-> today, n |-> NextSeq]
    /\ job' = [job EXCEPT !.drawn = NextSeq]
    /\ UNCHANGED <<disk, today, events>>

Exhausted ==
    /\ AtStep /\ Patch.stamp /\ job.drawn = 0
    /\ NextSeq > SeqHi
    /\ job' = Ended("no id left")
    /\ UNCHANGED <<disk, seqfile, today, events>>

\* main computes today once, before next_seq; the day of the drawn number is
\* the one the counter file now carries.
StampId ==
    /\ AtStep /\ Patch.stamp /\ job.drawn # 0
    /\ disk' = [disk EXCEPT ![Out].id = <<seqfile.day, job.drawn>>]
    /\ job' = [job EXCEPT !.pc = @ + 1, !.drawn = 0]
    /\ UNCHANGED <<seqfile, today, events>>

\* "[OK] built".
Finish ==
    /\ job.on /\ ~AtStep
    /\ disk' = [disk EXCEPT ![Out].done = job.clean]
    /\ job' = Ended("built")
    /\ UNCHANGED <<seqfile, today, events>>

----------------------------------------------------------------------------
(* What else happens to the build directory.                               *)

Interrupt ==
    /\ job.on /\ events < MaxEvents
    /\ job' = Ended("interrupted")
    /\ events' = events + 1
    /\ UNCHANGED <<disk, seqfile, today>>

HandRun(p, f) ==
    /\ ~job.on /\ events < MaxEvents
    /\ disk[f].there /\ Accepts(p, disk[f].img)
    /\ LET k == Effect(p, disk[f].img)
       IN  disk' = [disk EXCEPT ![f].img = k,
                                ![f].done = @ /\ k = disk[f].img]
    /\ events' = events + 1
    /\ UNCHANGED <<job, seqfile, today>>

\* The date is read only where a kernel is stamped, so a day that ends
\* earlier ends at the next such step.
NextDay ==
    /\ today < MaxDay
    /\ AtStep /\ Patch.stamp
    /\ today' = today + 1
    /\ UNCHANGED <<disk, job, seqfile, events>>

----------------------------------------------------------------------------
\* A fresh checkout or a used one, and the counter file it comes with.
Init ==
    /\ \E d \in Already : disk = d.disk /\ seqfile = d.seqfile
    /\ job = NoJob
    /\ today = 1
    /\ events = 0

JobStep == Step \/ Abort \/ Draw \/ Exhausted \/ StampId \/ Finish

Next == \/ \E n \in DOMAIN Script : Start(n)
        \/ JobStep
        \/ Interrupt
        \/ \E p \in Patcher, f \in File : HandRun(p, f)
        \/ NextDay

\* A script that runs goes on; nobody has to start one.
Spec == Init /\ [][Next]_vars /\ WF_vars(JobStep)

----------------------------------------------------------------------------
(* Properties.                                                             *)

\* Every file holds a kernel, and a running script is at one of its steps.
TypeOK ==
    /\ disk \in [File -> OnDisk]
    /\ job \in JobType
    /\ job.on => /\ job.name \in DOMAIN Script
                 /\ job.pc \in 1 .. Len(S(job.name).steps) + 1
                 /\ disk[Out].there /\ ~disk[Out].done
    /\ ~job.on => job.drawn = 0
    /\ seqfile \in Counter
    /\ today \in 1 .. MaxDay
    /\ events \in 0 .. MaxEvents

\* No kernel, finished or abandoned, patched by a script or by hand in
\* whatever order, holds a conversion without the one it depends on: a
\* ufs_bmap that skips reads before as_iolock fills whole pages loses data
\* (the precondition checks of patch_ufsbmap.py, patch_pagecreate.py, ...).
ProducersFirst ==
    \A f \in File : \A r \in Requires :
        r[1] \in disk[f].img.conv => r[2] \in disk[f].img.conv

\* The image a file's next image is made from.
Before(f) == IF ~job.on /\ job'.on /\ S(job'.name).out = f
             THEN Input(job'.name) ELSE disk[f].img

\* Nothing ever cuts a handler off: whatever a trap or a boot hook could
\* reach in a kernel it can still reach in what the next link, copy or
\* patcher makes of it, run by a script or by hand (the "chaining in front of
\* ... would silently drop the latch" refusals, the saved decline of
\* patch_fpe_vec11.py, the asserted address of parinit).
HandlersKept ==
    [][\A f \in File : Handlers(Before(f)) \subseteq Handlers(disk'[f].img)]_vars

\* Running a patcher of a kernel's own build over the finished kernel again
\* is refused or changes nothing, whatever later patchers did to its sites
\* (every patcher's "already" case).
RerunSafe ==
    \A f \in File : Finished(f) /\ ~job.on =>
        \A n \in {m \in DOMAIN Script : S(m).out = f \/ S(m).linked} :
            \A i \in DOMAIN S(n).steps :
                LET p == S(n).steps[i]
                IN  p.adds = {} /\ Accepts(p, disk[f].img)
                        => Effect(p, disk[f].img) = disk[f].img

\* Two finished kernels with one build id are the same bytes: the id is what
\* a test record names the kernel by (stamp_buildid.py).
IdNamesBytes ==
    \A f, g \in File : Finished(f) /\ Finished(g) /\ disk[f].id = disk[g].id
                         => disk[f].img = disk[g].img

\* Why: the counter is not ahead of the date, an id of today is one of this
\* block that the counter has passed, a drawn number is on no kernel yet, and
\* once the running script has stamped, its kernel's id is on no other.
Stamped == job.on /\ \E i \in 1 .. job.pc - 1 : S(job.name).steps[i].stamp
IdSpent(f) == /\ disk[f].id[1] <= today
              /\ disk[f].id[1] = today => /\ seqfile.day = today
                                          /\ seqfile.n \in SeqLo .. SeqHi
                                          /\ disk[f].id[2] <= seqfile.n
DrawnIsNew == job.drawn # 0 =>
    /\ job.drawn = seqfile.n /\ seqfile.n \in SeqLo .. SeqHi
    /\ \A f \in File : disk[f].id # <<seqfile.day, seqfile.n>>
StampIsNew == Stamped => \A f \in File \ {Out} : disk[f].id # disk[Out].id
Ids == /\ seqfile.day <= today
       /\ \A f \in File : IdSpent(f)
       /\ DrawnIsNew
       /\ StampIsNew
       /\ IdNamesBytes

\* Every script stamps what it builds (relink-040-ttcompat.sh does not).
EveryScriptStamps ==
    \A n \in DOMAIN Script : \E i \in 1 .. Len(Script[n].steps) :
        Script[n].steps[i].stamp

\* A script that runs on a finished input, configured so that no patcher
\* refuses at once, ends, and it ends built unless somebody interrupts it or
\* the day's ids are used up: no patcher refuses what an earlier one wrote.
BuildCompletes ==
    (job.on /\ job.clean /\ ~S(job.name).refuses)
        ~> (~job.on /\ job.end \in {"built", "interrupted", "no id left"})

----------------------------------------------------------------------------
(* The abstract specification: finished kernels as sets of features.       *)

Features(k)  == [conv |-> k.conv, reach |-> Handlers(k)]
Withdrawn    == [done |-> FALSE, has |-> [conv |-> {}, reach |-> {}]]
From         == [f \in File |->
                   LET n == CHOOSE m \in DOMAIN Script : S(m).out = f
                   IN  IF S(n).linked THEN "stock" ELSE S(n).in]
CONSTANTS Port   \* the features every kernel of the port has

\* What follows is about the tables alone: no script puts a conversion back,
\* a base link makes the port's conversions and hangs its handlers at starts
\* of chains, or cannot end; a file has one way to come about; and what
\* earlier days finished has the port.
HasPort(k) == Port.conv \subseteq k.conv /\ Port.reach \subseteq Handlers(k)
Ports(n) ==
    LET run == {i \in DOMAIN Script[n].steps : ~Script[n].steps[i].stamp}
    IN  /\ Port.conv \subseteq UNION {Script[n].steps[i].writes : i \in run}
        /\ \A h \in Port.reach : /\ h \in DOMAIN Exit
                               /\ \E i \in run : LET p == Script[n].steps[i]
                                  IN  \E s \in Entry \cap DOMAIN p.links :
                                          p.links[s].to = h
ASSUME PortAssumption ==
    /\ \A n \in DOMAIN Script :
          /\ Script[n].link.reverts \cap Units = {}
          /\ \A i \in DOMAIN Script[n].steps : Script[n].steps[i].reverts \cap Units = {}
          /\ Script[n].linked =>
                Ports(n) \/ \E i \in DOMAIN Script[n].steps : Fails(n, i)
    /\ \A m, n \in DOMAIN Script : Script[m].out = Script[n].out =>
          /\ Script[m].linked = Script[n].linked
          /\ ~Script[n].linked => Script[m].in = Script[n].in
    /\ \A d \in Already, f \in File :
          d.disk[f].there /\ d.disk[f].done => HasPort(d.disk[f].img)

Kernels == INSTANCE KernelSet WITH
    File <- File, From <- From, Linked <- "stock", Port <- Port,
    kernels <- [f \in File |->
                  IF Finished(f) THEN [done |-> TRUE, has |-> Features(disk[f].img)]
                  ELSE Withdrawn]

\* Every finished kernel carries the whole port, a pass loses nothing its
\* input had, and a finished kernel does not change under its id.
ImplementsKernels == Kernels!Spec
=============================================================================
