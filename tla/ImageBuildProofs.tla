-------------------------- MODULE ImageBuildProofs --------------------------
(***************************************************************************)
(* For any table of scripts and patchers that satisfies the assumptions of *)
(* ImageBuild: the state keeps its types, no kernel ever holds a           *)
(* conversion without the one it depends on, when every script stamps, no  *)
(* two finished kernels share a build id, and a patcher of its build run   *)
(* again over a finished kernel changes nothing.  When moreover no patcher *)
(* of the table cuts a handler off (ChainsSettled): no run of any of them  *)
(* does, and the scripts implement the set of finished kernels of          *)
(* KernelSet.                                                              *)
(***************************************************************************)
EXTENDS ImageBuild, WellFoundedInduction, TLAPS

----------------------------------------------------------------------------
(* The patchers.                                                           *)

\* What a patcher leaves is a kernel.
LEMMA EffectIsKernel ==
    ASSUME NEW p \in Patches, NEW k \in Kernel
    PROVE  Effect(p, k) \in Kernel
<1> DEFINE new == [s \in DOMAIN k.slot |->
                     IF s \in DOMAIN p.links THEN p.links[s].to ELSE Saved(p, k, s)]
<1>1. /\ p.adds \subseteq STRING
      /\ \A s \in DOMAIN p.links : p.links[s].to \in STRING
      /\ \A s \in DOMAIN p.saves : p.saves[s] \in Slots
  BY PatchAssumption
<1>2. k.slot \in [Slots -> STRING]
  BY DEF Kernel
<1>3. \A s \in Slots : Saved(p, k, s) \in STRING
  BY <1>1, <1>2 DEF Saved
<1>4. new \in [Slots -> STRING]
  BY <1>1, <1>2, <1>3
<1>5. (k.conv \cup p.writes) \ p.reverts \subseteq Units
  BY DEF Kernel, Units
<1>6. k.syms \cup p.adds \subseteq STRING
  BY <1>1 DEF Kernel
<1>7. Patched(p, k) \in Kernel
  BY <1>4, <1>5, <1>6 DEF Patched, Kernel
<1> QED
  BY <1>7 DEF Effect

\* A patcher keeps the order of conversions.
LEMMA EffectKeepsOrder ==
    ASSUME NEW p \in Patches, NEW k, NEW r \in Requires,
           Accepts(p, k), r[1] \in k.conv => r[2] \in k.conv
    PROVE  r[1] \in Effect(p, k).conv => r[2] \in Effect(p, k).conv
<1>1. CASE AlreadyDone(p, k)
  BY <1>1 DEF Effect
<1>2. CASE ~AlreadyDone(p, k)
  <2>1. p.new \subseteq k.conv
    BY <1>2 DEF Accepts, Canaries
  <2>2. /\ r[1] \in p.writes => r[2] \in p.new
        /\ r[2] \notin p.reverts
    BY RequiresAssumption
  <2>3. Effect(p, k).conv = (k.conv \cup p.writes) \ p.reverts
    BY <1>2 DEF Effect, Patched
  <2> QED
    BY <2>1, <2>2, <2>3
<1> QED
  BY <1>1, <1>2

\* The link and the steps of a script are patchers.
LEMMA StepsArePatches ==
    ASSUME NEW n \in DOMAIN Script
    PROVE  /\ Script[n].link \in Patches
           /\ \A i \in 1 .. Len(Script[n].steps) : Script[n].steps[i] \in Patches
<1>1. Script[n].steps \in Seq(Patches)
  BY ScriptAssumption
<1>2. \A i \in 1 .. Len(Script[n].steps) : Script[n].steps[i] \in Patches
  BY <1>1
<1>3. Script[n].link \in Patches
  BY DEF Patches
<1> QED
  BY <1>2, <1>3

----------------------------------------------------------------------------
(* Types.                                                                  *)

LEMMA NoJobIsIdle == NoJob \in JobType /\ ~NoJob.on /\ NoJob.drawn = 0
<1>1. 0 \in 0 .. SeqHi
  BY BoundsAssumption
<1>2. "none" \in JobName /\ "none" \in Outcome
  BY DEF JobName, Outcome
<1>3. NoJob \in JobType
  BY <1>1, <1>2 DEF NoJob, JobType
<1>4. ~NoJob.on /\ NoJob.drawn = 0
  BY DEF NoJob
<1> QED
  BY <1>3, <1>4

LEMMA TypeInit == Init => TypeOK
<1> SUFFICES ASSUME Init PROVE TypeOK
  OBVIOUS
<1>1. PICK d \in Already : disk = d.disk /\ seqfile = d.seqfile
  BY DEF Init
<1>2. disk \in [File -> OnDisk] /\ seqfile \in Counter
  BY <1>1, AlreadyAssumption
<1>3. job \in JobType /\ ~job.on /\ job.drawn = 0
  BY NoJobIsIdle DEF Init
<1>4. today \in 1 .. MaxDay /\ events \in 0 .. MaxEvents
  BY BoundsAssumption DEF Init
<1> QED
  BY <1>2, <1>3, <1>4 DEF TypeOK

\* How a script ends leaves no script running.
LEMMA EndedIsIdle ==
    ASSUME TypeOK, 
           NEW how \in Outcome
    PROVE  Ended(how) \in JobType /\ ~Ended(how).on /\ Ended(how).drawn = 0
<1>1. job.name \in JobName
  BY DEF TypeOK, JobType
<1>2. 0 \in 0 .. SeqHi
  BY BoundsAssumption
<1>3. NoJob \in JobType /\ ~NoJob.on /\ NoJob.drawn = 0
  BY NoJobIsIdle
<1> DEFINE named == [NoJob EXCEPT !.name = job.name]
<1>4. named \in JobType /\ ~named.on /\ named.drawn = 0
  BY <1>1, <1>3 DEF JobType
<1>5. [named EXCEPT !.end = how] \in JobType
  BY <1>4 DEF JobType
<1>6. Ended(how) = [named EXCEPT !.end = how]
  BY DEF Ended
<1> QED
  BY <1>4, <1>5, <1>6 DEF JobType

\* A script that runs works on a file that is there, at one of its steps.
LEMMA Running ==
    ASSUME TypeOK, job.on
    PROVE  /\ job.name \in DOMAIN Script
           /\ Out \in File
           /\ disk[Out].there /\ ~disk[Out].done
           /\ Image \in Kernel
           /\ job.pc \in Nat \ {0}
           /\ Len(S(job.name).steps) \in Nat
           /\ AtStep => Patch \in Patches
<1>1. job.name \in DOMAIN Script /\ job.pc \in 1 .. Len(S(job.name).steps) + 1
      /\ disk[Out].there /\ ~disk[Out].done
  BY DEF TypeOK
<1>2. Out \in File /\ S(job.name).steps \in Seq(Patches)
  BY <1>1, ScriptAssumption DEF Out, S
<1>3. Len(S(job.name).steps) \in Nat
  BY <1>2
<1>4. Image \in Kernel
  BY <1>2 DEF TypeOK, OnDisk, Image
<1>5. AtStep => Patch \in Patches
  BY <1>1, <1>3, StepsArePatches DEF AtStep, Patch, S
<1>6. job.pc \in Nat \ {0}
  BY <1>1, <1>3
<1> QED
  BY <1>1, <1>2, <1>3, <1>4, <1>5, <1>6

LEMMA TypeStart ==
    ASSUME TypeOK, NEW n \in DOMAIN Script, Start(n)
    PROVE  TypeOK'
<1>1. Input(n) \in Kernel
  <2>1. CASE S(n).linked
    BY <2>1, PatchAssumption DEF Input
  <2>2. CASE ~S(n).linked
    BY <2>2, ScriptAssumption DEF Input, S, TypeOK, OnDisk
  <2> QED
    BY <2>1, <2>2
<1>2. Effect(S(n).link, Input(n)) \in Kernel
  BY <1>1, StepsArePatches, EffectIsKernel DEF S
<1>3. Fresh(n) \in OnDisk /\ Fresh(n).there /\ ~Fresh(n).done
  <2>1. NoId \in BuildId
    BY BoundsAssumption DEF NoId, BuildId
  <2>2. CASE S(n).linked
    BY <1>2, <2>1, <2>2 DEF Fresh, OnDisk
  <2>3. CASE ~S(n).linked
    <3>1. disk[S(n).in].id \in BuildId
      BY <2>3, ScriptAssumption DEF S, TypeOK, OnDisk
    <3> QED
      BY <1>2, <2>3, <3>1 DEF Fresh, OnDisk
  <2> QED
    BY <2>2, <2>3
<1>4. S(n).out \in File
  BY ScriptAssumption DEF S
<1>5. disk' \in [File -> OnDisk] /\ disk'[S(n).out] = Fresh(n)
  BY <1>3, <1>4 DEF Start, TypeOK
<1>6. Finished(S(n).in) \in BOOLEAN \/ S(n).linked
  BY ScriptAssumption DEF S, Finished, TypeOK, OnDisk
<1>7. job' \in JobType /\ job'.on /\ job'.name = n /\ job'.pc = 1
  <2>1. (S(n).linked \/ Finished(S(n).in)) \in BOOLEAN
    BY <1>6, ScriptAssumption DEF S
  <2>3. 0 \in 0 .. SeqHi
    BY BoundsAssumption
  <2>2. n \in JobName /\ "none" \in Outcome
    BY DEF JobName, Outcome
  <2> DEFINE new == [on |-> TRUE, name |-> n, pc |-> 1, drawn |-> 0,
                     end |-> "none", clean |-> S(n).linked \/ Finished(S(n).in)]
  <2>4. job' = new
    BY DEF Start
  <2>5. new \in JobType
    BY <2>1, <2>2, <2>3 DEF JobType
  <2>6. new.on /\ new.name = n /\ new.pc = 1
    OBVIOUS
  <2> HIDE DEF new
  <2> QED
    BY <2>4, <2>5, <2>6
<1>8. Len(S(n).steps) \in Nat
  BY ScriptAssumption DEF S
<1>9. /\ job'.on => /\ job'.name \in DOMAIN Script
                    /\ job'.pc \in 1 .. Len(S(job'.name).steps) + 1
                    /\ disk'[S(job'.name).out].there
                    /\ ~disk'[S(job'.name).out].done
      /\ ~job'.on => job'.drawn = 0
  BY <1>3, <1>5, <1>7, <1>8
<1>10. seqfile' \in Counter /\ today' \in 1 .. MaxDay /\ events' \in 0 .. MaxEvents
  BY BoundsAssumption DEF Start, TypeOK
<1> QED
  BY <1>5, <1>7, <1>9, <1>10 DEF TypeOK, JobType, Out


\* A step of the running script that rewrites its image.
LEMMA TypeStep == TypeOK /\ Step => TypeOK'
<1> SUFFICES ASSUME TypeOK, Step PROVE TypeOK'
  OBVIOUS
<1>1. job.on /\ AtStep /\ Accepts(Patch, Image)
  BY DEF Step, AtStep
<1>2. Effect(Patch, Image) \in Kernel
  BY <1>1, Running, EffectIsKernel
<1>3. disk' \in [File -> OnDisk] /\ disk'[Out].there /\ ~disk'[Out].done
  <2>1. Out \in File /\ disk[Out] \in OnDisk
    BY <1>1, Running DEF TypeOK
  <2>2. [disk[Out] EXCEPT !.img = Effect(Patch, Image)] \in OnDisk
    BY <1>2, <2>1 DEF OnDisk
  <2>3. disk' = [disk EXCEPT ![Out] = [disk[Out] EXCEPT !.img = Effect(Patch, Image)]]
    BY DEF Step
  <2> QED
    BY <1>1, <2>1, <2>2, <2>3, Running DEF TypeOK, OnDisk
<1>4. job' = [job EXCEPT !.pc = job.pc + 1] /\ job.pc \in Nat /\ job \in JobType
  BY <1>1, Running DEF Step, TypeOK
<1>5. job' \in JobType
  BY <1>4 DEF JobType
<1>6. job'.name = job.name /\ job'.on /\ job'.pc = job.pc + 1
  BY <1>1, <1>4 DEF JobType
<1>7. job'.pc \in 1 .. Len(S(job'.name).steps) + 1
  BY <1>1, <1>6, Running DEF AtStep
<1>8. Out' = Out
  BY <1>6 DEF Out
<1>9. job.name \in DOMAIN Script
  BY <1>1, Running
<1>10. seqfile' \in Counter /\ today' \in 1 .. MaxDay /\ events' \in 0 .. MaxEvents
  BY DEF Step, TypeOK
<1> QED
  BY <1>3, <1>5, <1>6, <1>7, <1>8, <1>9, <1>10 DEF TypeOK

\* The end of a script, whatever ended it.
LEMMA TypeEnded ==
    ASSUME TypeOK, job.on, NEW how \in Outcome,
           job' = Ended(how), disk' \in [File -> OnDisk],
           events' \in 0 .. MaxEvents, UNCHANGED <<seqfile, today>>
    PROVE  TypeOK'
<1>1. job' \in JobType /\ ~job'.on /\ job'.drawn = 0
  BY EndedIsIdle
<1> QED
  BY <1>1 DEF TypeOK

LEMMA TypeDraw == TypeOK /\ Draw => TypeOK'
<1> SUFFICES ASSUME TypeOK, Draw PROVE TypeOK'
  OBVIOUS
<1>1. job.on /\ NextSeq <= SeqHi
  BY DEF Draw, AtStep
<1>2. NextSeq \in 0 .. SeqHi
  <2>1. seqfile.n \in 0 .. SeqHi + 1
    BY DEF TypeOK, Counter
  <2> QED
    BY <1>1, <2>1, BoundsAssumption DEF NextSeq
<1>3. seqfile' \in Counter
  BY <1>2, BoundsAssumption DEF Draw, TypeOK, Counter
<1>4. job' = [job EXCEPT !.drawn = NextSeq] /\ job \in JobType
  BY DEF Draw, TypeOK
<1>5. job' \in JobType
  BY <1>2, <1>4 DEF JobType
<1>6. job'.name = job.name /\ job'.on /\ job'.pc = job.pc
  BY <1>1, <1>4 DEF JobType
<1>7. Out' = Out
  BY <1>6 DEF Out
<1> QED
  BY <1>1, <1>3, <1>5, <1>6, <1>7 DEF Draw, TypeOK

LEMMA TypeStampId == TypeOK /\ StampId => TypeOK'
<1> SUFFICES ASSUME TypeOK, StampId PROVE TypeOK'
  OBVIOUS
<1>1. job.on /\ AtStep
  BY DEF StampId, AtStep
<1>2. <<seqfile.day, job.drawn>> \in BuildId
  <2>1. seqfile.day \in 0 .. MaxDay /\ job.drawn \in 0 .. SeqHi
    BY DEF TypeOK, Counter, JobType
  <2> QED
    BY <2>1 DEF BuildId
<1>3. disk' \in [File -> OnDisk] /\ disk'[Out].there /\ ~disk'[Out].done
  <2>1. Out \in File /\ disk[Out] \in OnDisk
    BY <1>1, Running DEF TypeOK
  <2>2. [disk[Out] EXCEPT !.id = <<seqfile.day, job.drawn>>] \in OnDisk
    BY <1>2, <2>1 DEF OnDisk
  <2>3. disk' = [disk EXCEPT ![Out] = [disk[Out] EXCEPT !.id = <<seqfile.day, job.drawn>>]]
    BY DEF StampId
  <2> QED
    BY <1>1, <2>1, <2>2, <2>3, Running DEF TypeOK, OnDisk
<1>4. job' = [job EXCEPT !.pc = job.pc + 1, !.drawn = 0]
      /\ job.pc \in Nat /\ job \in JobType
  BY <1>1, Running DEF StampId, TypeOK
<1>5. job' \in JobType
  <2>1. 0 \in 0 .. SeqHi
    BY BoundsAssumption
  <2> DEFINE moved == [job EXCEPT !.pc = job.pc + 1]
  <2>2. moved \in JobType
    BY <1>4 DEF JobType
  <2>3. [moved EXCEPT !.drawn = 0] \in JobType
    BY <2>1, <2>2 DEF JobType
  <2>4. job' = [moved EXCEPT !.drawn = 0]
    BY <1>4
  <2> QED
    BY <2>3, <2>4
<1>6. job'.name = job.name /\ job'.on /\ job'.pc = job.pc + 1
  BY <1>1, <1>4 DEF JobType
<1>7. job'.pc \in 1 .. Len(S(job'.name).steps) + 1
  BY <1>1, <1>6, Running DEF AtStep
<1>8. Out' = Out
  BY <1>6 DEF Out
<1>9. job.name \in DOMAIN Script
  BY <1>1, Running
<1>10. seqfile' \in Counter /\ today' \in 1 .. MaxDay /\ events' \in 0 .. MaxEvents
  BY DEF StampId, TypeOK
<1> QED
  BY <1>3, <1>5, <1>6, <1>7, <1>8, <1>9, <1>10 DEF TypeOK

LEMMA TypeFinish == TypeOK /\ Finish => TypeOK'
<1> SUFFICES ASSUME TypeOK, Finish PROVE TypeOK'
  OBVIOUS
<1>1. job.on
  BY DEF Finish
<1>2. job.clean \in BOOLEAN /\ Out \in File /\ disk[Out] \in OnDisk
  BY <1>1, Running DEF TypeOK, JobType
<1>3. [disk[Out] EXCEPT !.done = job.clean] \in OnDisk
  BY <1>2 DEF OnDisk
<1>4. disk' = [disk EXCEPT ![Out] = [disk[Out] EXCEPT !.done = job.clean]]
  BY DEF Finish
<1>5. disk' \in [File -> OnDisk]
  BY <1>2, <1>3, <1>4 DEF TypeOK
<1> QED
  BY <1>1, <1>5, TypeEnded DEF Finish, TypeOK, Outcome

LEMMA TypeHandRun ==
    ASSUME TypeOK, NEW p \in Patcher, NEW f \in File, HandRun(p, f)
    PROVE  TypeOK'
<1> DEFINE k == Effect(p, disk[f].img)
           new == [disk[f] EXCEPT !.img = k, !.done = @ /\ k = disk[f].img]
<1>1. p \in Patches
  BY DEF Patches
<1>2. disk[f] \in OnDisk /\ disk[f].img \in Kernel /\ disk[f].done \in BOOLEAN
  BY DEF TypeOK, OnDisk
<1>3. k \in Kernel
  BY <1>1, <1>2, EffectIsKernel
<1>4. new \in OnDisk
  BY <1>2, <1>3 DEF OnDisk
<1>5. disk' = [disk EXCEPT ![f] = new]
  BY DEF HandRun
<1>6. disk' \in [File -> OnDisk]
  BY <1>4, <1>5 DEF TypeOK
<1>7. ~job.on /\ job' = job /\ seqfile' = seqfile /\ today' = today
      /\ events' \in 0 .. MaxEvents
  BY BoundsAssumption DEF HandRun, TypeOK
<1> QED
  BY <1>6, <1>7 DEF TypeOK

LEMMA TypeNextDay == TypeOK /\ NextDay => TypeOK'
BY BoundsAssumption DEF NextDay, TypeOK, Out

LEMMA TypeNext == TypeOK /\ [Next]_vars => TypeOK'
<1> SUFFICES ASSUME TypeOK, [Next]_vars PROVE TypeOK'
  OBVIOUS
<1>1. ASSUME NEW n \in DOMAIN Script, Start(n) PROVE TypeOK'
  BY <1>1, TypeStart
<1>2. CASE Abort
  BY <1>2, TypeEnded DEF Abort, AtStep, AfterRefusal, TypeOK, Outcome
<1>3. CASE Exhausted
  BY <1>3, TypeEnded DEF Exhausted, AtStep, TypeOK, Outcome
<1>4. CASE Interrupt
  <2>1. events' \in 0 .. MaxEvents
    BY <1>4, BoundsAssumption DEF Interrupt, TypeOK
  <2> QED
    BY <1>4, <2>1, TypeEnded DEF Interrupt, TypeOK, Outcome
<1>5. ASSUME NEW p \in Patcher, NEW f \in File, HandRun(p, f) PROVE TypeOK'
  BY <1>5, TypeHandRun
<1>6. CASE UNCHANGED vars
  BY <1>6 DEF vars, TypeOK, Out
<1> QED
  BY <1>1, <1>2, <1>3, <1>4, <1>5, <1>6, TypeStep, TypeDraw, TypeStampId,
     TypeFinish, TypeNextDay DEF Next, JobStep

\* Every kernel the scripts, the interrupts and the hand-run patchers can
\* leave is a kernel, and a script that runs works on an unfinished file.
THEOREM BuildTypeCorrect == Spec => []TypeOK
BY TypeInit, TypeNext, PTL DEF Spec

----------------------------------------------------------------------------
(* The order of conversions.                                               *)

\* One file gets the image k; the others keep theirs.
LEMMA OrderKept ==
    ASSUME ProducersFirst, NEW f \in File, NEW k,
           \A r \in Requires : r[1] \in k.conv => r[2] \in k.conv,
           disk'[f].img = k,
           \A g \in File \ {f} : disk'[g].img = disk[g].img
    PROVE  ProducersFirst'
BY DEF ProducersFirst

LEMMA OrderStart ==
    ASSUME TypeOK, ProducersFirst, NEW n \in DOMAIN Script, Start(n)
    PROVE  ProducersFirst'
<1> DEFINE k == Effect(S(n).link, Input(n))
<1>1. S(n).out \in File /\ (~S(n).linked => S(n).in \in File)
  BY ScriptAssumption DEF S
<1>2. \A r \in Requires : r[1] \in Input(n).conv => r[2] \in Input(n).conv
  BY <1>1, RequiresAssumption DEF Input, ProducersFirst
<1>3. \A r \in Requires : r[1] \in k.conv => r[2] \in k.conv
  <2>1. Accepts(S(n).link, Input(n)) /\ S(n).link \in Patches
    BY StepsArePatches DEF Start, S
  <2> QED
    BY <1>2, <2>1, EffectKeepsOrder
<1>4. disk'[S(n).out].img = k
  BY <1>1 DEF Start, Fresh, TypeOK
<1>5. \A g \in File \ {S(n).out} : disk'[g].img = disk[g].img
  BY <1>1 DEF Start, TypeOK
<1> HIDE DEF k
<1> QED
  BY <1>1, <1>3, <1>4, <1>5, OrderKept

LEMMA OrderStep == TypeOK /\ ProducersFirst /\ Step => ProducersFirst'
<1> SUFFICES ASSUME TypeOK, ProducersFirst, Step PROVE ProducersFirst'
  OBVIOUS
<1> DEFINE k == Effect(Patch, Image)
<1>1. Out \in File /\ Patch \in Patches /\ Accepts(Patch, Image)
  BY Running DEF Step, AtStep
<1>2. \A r \in Requires : r[1] \in Image.conv => r[2] \in Image.conv
  BY <1>1 DEF ProducersFirst, Image
<1>3. \A r \in Requires : r[1] \in k.conv => r[2] \in k.conv
  BY <1>1, <1>2, EffectKeepsOrder
<1>4. disk' = [disk EXCEPT ![Out] = [disk[Out] EXCEPT !.img = k]]
  BY DEF Step
<1>5. disk'[Out].img = k /\ \A g \in File \ {Out} : disk'[g].img = disk[g].img
  BY <1>1, <1>4 DEF TypeOK, OnDisk
<1> HIDE DEF k
<1> QED
  BY <1>1, <1>3, <1>5, OrderKept

LEMMA OrderHandRun ==
    ASSUME TypeOK, ProducersFirst, NEW p \in Patcher, NEW f \in File, HandRun(p, f)
    PROVE  ProducersFirst'
<1> DEFINE k == Effect(p, disk[f].img)
<1>1. p \in Patches /\ Accepts(p, disk[f].img)
  BY DEF Patches, HandRun
<1>2. \A r \in Requires : r[1] \in disk[f].img.conv => r[2] \in disk[f].img.conv
  BY DEF ProducersFirst
<1>3. \A r \in Requires : r[1] \in k.conv => r[2] \in k.conv
  BY <1>1, <1>2, EffectKeepsOrder
<1>4. disk' = [disk EXCEPT ![f] = [disk[f] EXCEPT !.img = k,
                                                 !.done = @ /\ k = disk[f].img]]
  BY DEF HandRun
<1>5. disk'[f].img = k /\ \A g \in File \ {f} : disk'[g].img = disk[g].img
  BY <1>4 DEF TypeOK, OnDisk
<1> HIDE DEF k
<1> QED
  BY <1>3, <1>5, OrderKept

\* The other actions leave every image as it is.
LEMMA SameImages ==
    ASSUME TypeOK, Abort \/ Draw \/ Exhausted \/ StampId \/ Finish \/
                   Interrupt \/ NextDay \/ UNCHANGED vars
    PROVE  \A f \in File : disk'[f].img = disk[f].img
<1>1. CASE StampId
  <2>1. disk' = [disk EXCEPT ![Out] = [disk[Out] EXCEPT !.id = <<seqfile.day, job.drawn>>]]
    BY <1>1 DEF StampId
  <2> QED
    BY <2>1 DEF TypeOK, OnDisk
<1>2. CASE Finish
  <2>1. disk' = [disk EXCEPT ![Out] = [disk[Out] EXCEPT !.done = job.clean]]
    BY <1>2 DEF Finish
  <2> QED
    BY <2>1 DEF TypeOK, OnDisk
<1> QED
  BY <1>1, <1>2 DEF Abort, Draw, Exhausted, Interrupt, NextDay, vars

LEMMA OrderNext == TypeOK /\ ProducersFirst /\ [Next]_vars => ProducersFirst'
<1> SUFFICES ASSUME TypeOK, ProducersFirst, [Next]_vars PROVE ProducersFirst'
  OBVIOUS
<1>1. ASSUME NEW n \in DOMAIN Script, Start(n) PROVE ProducersFirst'
  BY <1>1, OrderStart
<1>2. CASE Step
  BY <1>2, OrderStep
<1>3. ASSUME NEW p \in Patcher, NEW f \in File, HandRun(p, f) PROVE ProducersFirst'
  BY <1>3, OrderHandRun
<1>4. CASE Abort \/ Draw \/ Exhausted \/ StampId \/ Finish \/ Interrupt \/
           NextDay \/ UNCHANGED vars
  BY <1>4, SameImages DEF ProducersFirst
<1> QED
  BY <1>1, <1>2, <1>3, <1>4 DEF Next, JobStep

\* For every table of scripts and patchers whose patchers insist on what
\* their conversions need: no order of scripts, interruptions, refusals and
\* hand-run patchers leaves a conversion without the one it depends on.
THEOREM ConversionsInOrder == Spec => []ProducersFirst
<1>1. Init => ProducersFirst
  BY AlreadyAssumption DEF Init, ProducersFirst
<1> QED
  BY <1>1, OrderNext, BuildTypeCorrect, PTL DEF Spec

----------------------------------------------------------------------------
(* Build ids.                                                              *)

\* What the ids of the files say of the counter survives whatever leaves the
\* ids, the counter and the date alone.
LEMMA SameIds ==
    ASSUME Ids, \A f \in File : disk'[f].id = disk[f].id,
           UNCHANGED <<seqfile, today>>,
           job'.drawn = 0 \/ job'.drawn = job.drawn,
           Stamped' => Stamped /\ Out' = Out /\ Out \in File
    PROVE  /\ seqfile'.day <= today'
           /\ (\A f \in File : IdSpent(f))' /\ DrawnIsNew' /\ StampIsNew'
<1>1. (\A f \in File : IdSpent(f))' /\ seqfile'.day <= today'
  BY DEF Ids, IdSpent
<1>2. DrawnIsNew'
  BY DEF Ids, DrawnIsNew
<1>3. StampIsNew'
  BY DEF Ids, StampIsNew
<1> QED
  BY <1>1, <1>2, <1>3

\* A file that is finished after a step was finished, with the same bytes and
\* the same id, before it.
Settled == \A f \in File : Finished(f)' => /\ Finished(f)
                                           /\ disk'[f].img = disk[f].img
                                           /\ disk'[f].id = disk[f].id

LEMMA BytesKept ==
    ASSUME IdNamesBytes, Settled
    PROVE  IdNamesBytes'
BY DEF IdNamesBytes, Settled

LEMMA IdsInit == Init => Ids
<1> SUFFICES ASSUME Init PROVE Ids
  OBVIOUS
<1>1. PICK d \in Already : disk = d.disk /\ seqfile = d.seqfile
  BY DEF Init
<1>2. today = 1 /\ job = NoJob
  BY DEF Init
<1>3. seqfile.day <= today
  BY <1>1, <1>2, AlreadyAssumption
<1>4. \A f \in File : IdSpent(f)
  <2> TAKE f \in File
  <2>1. disk[f].id[1] < 1
    BY <1>1, AlreadyAssumption
  <2>2. disk[f] \in OnDisk
    BY TypeInit DEF TypeOK
  <2>3. disk[f].id[1] \in Nat
    BY <2>2, BoundsAssumption DEF OnDisk, BuildId
  <2> QED
    BY <1>2, <2>1, <2>3 DEF IdSpent
<1>5. DrawnIsNew /\ StampIsNew
  BY <1>2, NoJobIsIdle DEF DrawnIsNew, StampIsNew, Stamped
<1>6. IdNamesBytes
  BY <1>1, AlreadyAssumption DEF IdNamesBytes, Finished
<1> QED
  BY <1>3, <1>4, <1>5, <1>6 DEF Ids

LEMMA IdsStart ==
    ASSUME TypeOK, Ids, NEW n \in DOMAIN Script, Start(n)
    PROVE  Ids'
<1>1. S(n).out \in File /\ (~S(n).linked => S(n).in \in File)
  BY ScriptAssumption DEF S
<1>2. disk' = [disk EXCEPT ![S(n).out] = Fresh(n)] /\ UNCHANGED <<seqfile, today>>
  BY DEF Start
<1>3. /\ disk'[S(n).out] = Fresh(n)
      /\ \A g \in File \ {S(n).out} : disk'[g] = disk[g]
  BY <1>1, <1>2 DEF TypeOK
<1>4. Fresh(n).id = NoId \/ \E g \in File : Fresh(n).id = disk[g].id
  BY <1>1 DEF Fresh
<1>5. (\A f \in File : IdSpent(f))'
  <2>1. today \in Nat \ {0}
    BY BoundsAssumption DEF TypeOK
  <2>2. \A f \in File : disk'[f].id = NoId \/ \E g \in File : disk'[f].id = disk[g].id
    BY <1>3, <1>4
  <2>3. \A g \in File : IdSpent(g)
    BY DEF Ids
  <2>4. NoId[1] = 0
    BY DEF NoId
  <2> QED
    BY <1>2, <2>1, <2>2, <2>3, <2>4 DEF IdSpent
<1>6. job'.drawn = 0 /\ ~Stamped'
  BY DEF Start, Stamped
<1>7. DrawnIsNew' /\ StampIsNew'
  BY <1>6 DEF DrawnIsNew, StampIsNew
<1>8. Settled
  <2>1. ~Fresh(n).done
    BY DEF Fresh
  <2> QED
    BY <1>3, <2>1 DEF Settled, Finished
<1>9. IdNamesBytes'
  BY <1>8, BytesKept DEF Ids
<1> QED
  BY <1>2, <1>5, <1>7, <1>9 DEF Ids

\* A patcher, run by a script or by hand, stamps nothing.
LEMMA IdsStep == TypeOK /\ Ids /\ Step => Ids'
<1> SUFFICES ASSUME TypeOK, Ids, Step PROVE Ids'
  OBVIOUS
<1>1. job.on /\ AtStep /\ ~Patch.stamp /\ UNCHANGED <<seqfile, today>>
  BY DEF Step, AtStep
<1>2. disk' = [disk EXCEPT ![Out] = [disk[Out] EXCEPT !.img = Effect(Patch, Image)]]
      /\ job' = [job EXCEPT !.pc = job.pc + 1]
  BY DEF Step
<1>3. Out \in File /\ ~disk[Out].done /\ job.pc \in Nat \ {0}
  BY <1>1, Running
<1>4. /\ disk'[Out].done = disk[Out].done
      /\ \A f \in File : disk'[f].id = disk[f].id
      /\ \A f \in File \ {Out} : disk'[f] = disk[f]
  BY <1>2, <1>3 DEF TypeOK, OnDisk
<1>5. job'.drawn = job.drawn /\ job'.name = job.name /\ job'.pc = job.pc + 1
  BY <1>2 DEF TypeOK, JobType
<1>6. Stamped' => Stamped /\ Out' = Out
  <2> SUFFICES ASSUME Stamped' PROVE Stamped /\ Out' = Out
    OBVIOUS
  <2>1. PICK i \in 1 .. job.pc : S(job.name).steps[i].stamp
    BY <1>3, <1>5 DEF Stamped
  <2>2. i # job.pc
    BY <1>1, <2>1 DEF Patch
  <2>3. i \in 1 .. job.pc - 1
    BY <1>3, <2>1, <2>2
  <2> QED
    BY <1>1, <1>5, <2>1, <2>3 DEF Stamped, Out
<1>7. Settled
  BY <1>3, <1>4 DEF Settled, Finished
<1>8. IdNamesBytes'
  BY <1>7, BytesKept DEF Ids
<1> QED
  BY <1>1, <1>3, <1>4, <1>5, <1>6, <1>8, SameIds DEF Ids

LEMMA IdsHandRun ==
    ASSUME TypeOK, Ids, NEW p \in Patcher, NEW f \in File, HandRun(p, f)
    PROVE  Ids'
<1> DEFINE k == Effect(p, disk[f].img)
<1>1. disk' = [disk EXCEPT ![f] = [disk[f] EXCEPT !.img = k,
                                      !.done = @ /\ k = disk[f].img]]
      /\ UNCHANGED <<job, seqfile, today>> /\ ~job.on
  BY DEF HandRun
<1>2. disk[f] \in OnDisk
  BY DEF TypeOK
<1>3. /\ disk'[f].id = disk[f].id /\ disk'[f].there = disk[f].there
      /\ disk'[f].img = k
      /\ \A g \in File \ {f} : disk'[g] = disk[g]
  BY <1>1, <1>2 DEF TypeOK, OnDisk
<1>4. disk'[f].done => disk[f].done /\ k = disk[f].img
  BY <1>1, <1>2 DEF TypeOK, OnDisk
<1> HIDE DEF k
<1>5. Settled
  BY <1>3, <1>4 DEF Settled, Finished
<1>6. IdNamesBytes'
  BY <1>5, BytesKept DEF Ids
<1>7. ~Stamped'
  BY <1>1 DEF Stamped
<1>8. \A g \in File : disk'[g].id = disk[g].id
  BY <1>3
<1> QED
  BY <1>1, <1>6, <1>7, <1>8, SameIds DEF Ids

\* A script that ends without a kernel, or nothing at all.
LEMMA IdsIdle ==
    ASSUME TypeOK, Ids, Abort \/ Exhausted \/ Interrupt \/ UNCHANGED vars
    PROVE  Ids'
<1>1. UNCHANGED <<disk, seqfile, today>>
  BY DEF Abort, Exhausted, Interrupt, vars
<1>2. Settled
  BY <1>1 DEF Settled, Finished
<1>3. IdNamesBytes'
  BY <1>2, BytesKept DEF Ids
<1>4. CASE UNCHANGED vars
  BY <1>1, <1>3, <1>4 DEF vars, Ids, IdSpent, DrawnIsNew, StampIsNew, Stamped, Out
<1>5. CASE Abort \/ Exhausted \/ Interrupt
  <2>1. PICK how \in Outcome : job' = Ended(how)
    BY <1>5 DEF Abort, AfterRefusal, Exhausted, Interrupt, Outcome
  <2>2. ~job'.on /\ job'.drawn = 0
    BY <2>1, EndedIsIdle
  <2>3. ~Stamped'
    BY <2>2 DEF Stamped
  <2> QED
    BY <1>1, <1>3, <2>2, <2>3, SameIds DEF Ids
<1> QED
  BY <1>4, <1>5

\* The date moves on: every id is now of an earlier day.
LEMMA IdsNextDay == TypeOK /\ Ids /\ NextDay => Ids'
<1> SUFFICES ASSUME TypeOK, Ids, NextDay PROVE Ids'
  OBVIOUS
<1>1. UNCHANGED <<disk, job, seqfile>> /\ today' = today + 1
  BY DEF NextDay
<1>2. today \in Nat /\ seqfile.day \in Nat /\ \A f \in File : disk[f].id[1] \in Nat
  BY BoundsAssumption DEF TypeOK, Counter, OnDisk, BuildId
<1>3. seqfile'.day <= today' /\ (\A f \in File : IdSpent(f))'
  BY <1>1, <1>2 DEF Ids, IdSpent
<1>4. DrawnIsNew' /\ StampIsNew'
  BY <1>1 DEF Ids, DrawnIsNew, StampIsNew, Stamped, Out
<1>5. Settled
  BY <1>1 DEF Settled, Finished
<1>6. IdNamesBytes'
  BY <1>5, BytesKept DEF Ids
<1> QED
  BY <1>3, <1>4, <1>6 DEF Ids

\* The number drawn is on no kernel: either it is one past the counter, which
\* bounds every id of today, or no kernel has an id of today.
LEMMA IdsDraw == TypeOK /\ Ids /\ Draw => Ids'
<1> SUFFICES ASSUME TypeOK, Ids, Draw PROVE Ids'
  OBVIOUS
<1>1. job.on /\ NextSeq <= SeqHi
      /\ seqfile' = [day |-> today, n |-> NextSeq]
      /\ job' = [job EXCEPT !.drawn = NextSeq] /\ UNCHANGED <<disk, today>>
  BY DEF Draw, AtStep
<1>2. job'.drawn = NextSeq /\ job'.name = job.name /\ job'.pc = job.pc /\ job'.on
  BY <1>1 DEF TypeOK, JobType
<1>3. seqfile'.day = today /\ seqfile'.n = NextSeq
  BY <1>1
<1>4. /\ seqfile.n \in Nat /\ today \in Nat
      /\ \A f \in File : disk[f].id[1] \in Nat /\ disk[f].id[2] \in Nat
                         /\ IdSpent(f)
  BY BoundsAssumption DEF TypeOK, Counter, OnDisk, BuildId, Ids
<1>5. NextSeq \in SeqLo .. SeqHi
  BY <1>1, <1>4, BoundsAssumption DEF NextSeq
<1>6. \A f \in File : disk[f].id[1] = today => disk[f].id[2] < NextSeq
  BY <1>4, BoundsAssumption DEF IdSpent, NextSeq
<1>7. (\A f \in File : IdSpent(f))'
  BY <1>1, <1>3, <1>4, <1>5, <1>6, BoundsAssumption DEF IdSpent
<1>8. \A f \in File : disk[f].id # <<today, NextSeq>>
  BY <1>4, <1>5, <1>6, BoundsAssumption
<1>9. DrawnIsNew'
  BY <1>1, <1>2, <1>3, <1>5, <1>8 DEF DrawnIsNew
<1>10. StampIsNew'
  BY <1>1, <1>2 DEF Ids, StampIsNew, Stamped, Out
<1>11. Settled
  BY <1>1 DEF Settled, Finished
<1>12. IdNamesBytes'
  BY <1>11, BytesKept DEF Ids
<1>13. seqfile'.day <= today'
  BY <1>1, <1>3, <1>4
<1> QED
  BY <1>7, <1>9, <1>10, <1>12, <1>13 DEF Ids

LEMMA IdsStampId == TypeOK /\ Ids /\ StampId => Ids'
<1> SUFFICES ASSUME TypeOK, Ids, StampId PROVE Ids'
  OBVIOUS
<1> DEFINE id == <<seqfile.day, job.drawn>>
<1>1. job.on /\ job.drawn # 0 /\ UNCHANGED <<seqfile, today>>
      /\ disk' = [disk EXCEPT ![Out] = [disk[Out] EXCEPT !.id = id]]
      /\ job' = [job EXCEPT !.pc = job.pc + 1, !.drawn = 0]
  BY DEF StampId, AtStep
<1>2. Out \in File /\ disk[Out] \in OnDisk /\ ~disk[Out].done
  BY <1>1, Running DEF TypeOK
<1>3. /\ disk'[Out].id = id /\ ~disk'[Out].done
      /\ \A f \in File \ {Out} : disk'[f] = disk[f]
  BY <1>1, <1>2 DEF TypeOK, OnDisk
<1>4. job.drawn = seqfile.n /\ seqfile.n \in SeqLo .. SeqHi
      /\ \A f \in File : disk[f].id # <<seqfile.day, seqfile.n>>
  BY <1>1 DEF Ids, DrawnIsNew
<1>5. job'.drawn = 0 /\ job'.name = job.name
  BY <1>1 DEF TypeOK, JobType
<1>6. \A f \in File : disk[f].id # id
  BY <1>4
<1>7. id[1] = seqfile.day /\ id[2] = seqfile.n
  BY <1>4
<1> HIDE DEF id
<1>8. (\A f \in File : IdSpent(f))'
  <2>1. \A f \in File : IdSpent(f)
    BY DEF Ids
  <2>2. seqfile.day <= today /\ seqfile.n \in Nat
    BY DEF Ids, TypeOK, Counter
  <2> QED
    BY <1>1, <1>3, <1>4, <1>7, <2>1, <2>2 DEF IdSpent
<1>9. DrawnIsNew'
  BY <1>5 DEF DrawnIsNew
<1>10. StampIsNew'
  BY <1>2, <1>3, <1>5, <1>6 DEF StampIsNew, Out
<1>11. Settled
  BY <1>3 DEF Settled, Finished
<1>12. IdNamesBytes'
  BY <1>11, BytesKept DEF Ids
<1> QED
  BY <1>1, <1>8, <1>9, <1>10, <1>12 DEF Ids

\* A script that says "built" has stamped, so its kernel's id is on no other.
LEMMA IdsFinish ==
    ASSUME EveryScriptStamps, TypeOK, Ids, Finish
    PROVE  Ids'
<1>1. job.on /\ ~AtStep /\ UNCHANGED <<seqfile, today>> /\ job' = Ended("built")
      /\ disk' = [disk EXCEPT ![Out] = [disk[Out] EXCEPT !.done = job.clean]]
  BY DEF Finish
<1>2. Out \in File /\ disk[Out] \in OnDisk /\ job.clean \in BOOLEAN
  BY <1>1, Running DEF TypeOK, JobType
<1>3. /\ disk'[Out].id = disk[Out].id
      /\ \A f \in File \ {Out} : disk'[f] = disk[f]
  BY <1>1, <1>2 DEF TypeOK, OnDisk
<1>4. Stamped
  <2>1. job.name \in DOMAIN Script /\ Len(S(job.name).steps) \in Nat
        /\ job.pc \in 1 .. Len(S(job.name).steps) + 1
    BY <1>1, Running DEF TypeOK
  <2>2. job.pc = Len(S(job.name).steps) + 1
    BY <1>1, <2>1 DEF AtStep
  <2>3. \E i \in 1 .. Len(S(job.name).steps) : S(job.name).steps[i].stamp
    BY <2>1 DEF EveryScriptStamps, S
  <2> QED
    BY <1>1, <2>1, <2>2, <2>3 DEF Stamped
<1>5. \A f \in File \ {Out} : disk[f].id # disk[Out].id
  BY <1>1, <1>4 DEF Ids, StampIsNew
<1>6. IdNamesBytes'
  <2> SUFFICES ASSUME NEW f \in File, NEW g \in File, Finished(f)', Finished(g)',
                      disk'[f].id = disk'[g].id
               PROVE  disk'[f].img = disk'[g].img
    BY DEF IdNamesBytes
  <2>1. CASE f = g
    BY <2>1
  <2>2. CASE f # Out /\ g # Out
    BY <1>3, <2>2 DEF Ids, IdNamesBytes, Finished
  <2>3. CASE f # g /\ (f = Out \/ g = Out)
    BY <1>3, <1>5, <2>3
  <2> QED
    BY <2>1, <2>2, <2>3
<1>7. "built" \in Outcome
  BY DEF Outcome
<1>8. ~job'.on /\ job'.drawn = 0
  BY <1>1, <1>7, EndedIsIdle
<1>9. ~Stamped'
  BY <1>8 DEF Stamped
<1>10. \A f \in File : disk'[f].id = disk[f].id
  BY <1>3
<1> QED
  BY <1>1, <1>6, <1>8, <1>9, <1>10, SameIds DEF Ids

LEMMA IdsNext ==
    ASSUME EveryScriptStamps PROVE TypeOK /\ Ids /\ [Next]_vars => Ids'
<1> SUFFICES ASSUME TypeOK, Ids, [Next]_vars PROVE Ids'
  OBVIOUS
<1>1. ASSUME NEW n \in DOMAIN Script, Start(n) PROVE Ids'
  BY <1>1, IdsStart
<1>2. ASSUME NEW p \in Patcher, NEW f \in File, HandRun(p, f) PROVE Ids'
  BY <1>2, IdsHandRun
<1>3. CASE Abort \/ Exhausted \/ Interrupt \/ UNCHANGED vars
  BY <1>3, IdsIdle
<1> QED
  BY <1>1, <1>2, <1>3, IdsStep, IdsDraw, IdsStampId, IdsFinish, IdsNextDay
     DEF Next, JobStep

\* When every script stamps what it builds, no two finished kernels with
\* different bytes carry one build id, over any number of days, scripts,
\* interruptions between drawing a number and writing it, and hand-run
\* patchers.
THEOREM OneIdOneKernel ==
    ASSUME EveryScriptStamps PROVE Spec => []IdNamesBytes
<1>1. Ids => IdNamesBytes
  BY DEF Ids
<1>2. TypeOK /\ Ids /\ [Next]_vars => Ids'
  BY IdsNext
<1> QED
  BY <1>1, <1>2, IdsInit, BuildTypeCorrect, PTL DEF Spec

----------------------------------------------------------------------------
(* Running patchers again.                                                 *)

LEMMA EffectParts ==
    ASSUME NEW q \in Patches, NEW k \in Kernel, ~AlreadyDone(q, k)
    PROVE  /\ Effect(q, k).conv = (k.conv \cup q.writes) \ q.reverts
           /\ Effect(q, k).syms = k.syms \cup q.adds
           /\ \A s \in Slots : Effect(q, k).slot[s] =
                 IF s \in DOMAIN q.links THEN q.links[s].to ELSE Saved(q, k, s)
<1>1. DOMAIN k.slot = Slots
  BY DEF Kernel
<1> QED
  BY <1>1 DEF Effect, Patched

\* A patcher that keeps p quiet does.
LEMMA KeepsQuiet ==
    ASSUME NEW p \in Patches, NEW q \in Patches, NEW k \in Kernel,
           Keeps(q, p), Quiet(p, k)
    PROVE  Quiet(p, Effect(q, k))
<1> DEFINE e == Effect(q, k)
<1>1. CASE AlreadyDone(q, k)
  BY <1>1 DEF Effect
<1>2. CASE ~AlreadyDone(q, k)
  <2>1. /\ e.conv = (k.conv \cup q.writes) \ q.reverts
        /\ e.syms = k.syms \cup q.adds
        /\ \A s \in Slots : e.slot[s] =
              IF s \in DOMAIN q.links THEN q.links[s].to ELSE Saved(q, k, s)
    BY <1>2, EffectParts
  <2>2. DOMAIN p.links \subseteq Slots
    BY PatchAssumption
  <2> HIDE DEF e
  <2>3. CASE ~(p.needs \subseteq k.syms)
    <3>1. ~(p.needs \subseteq e.syms)
      BY <2>1, <2>3 DEF Keeps
    <3> QED
      BY <3>1 DEF Quiet, e
  <2>4. CASE /\ p.writes \subseteq k.conv
             /\ p.reverts \cap k.conv = {}
             /\ \A s \in DOMAIN p.links :
                   k.slot[s] \notin p.links[s].from \ {p.links[s].to}
    <3>1. p.writes \subseteq e.conv /\ p.reverts \cap e.conv = {}
      BY <2>1, <2>4 DEF Keeps
    <3>2. ASSUME NEW s \in DOMAIN p.links
          PROVE  e.slot[s] \notin p.links[s].from \ {p.links[s].to}
      <4>1. CASE s \in DOMAIN q.links
        BY <2>1, <2>2, <4>1 DEF Keeps, Forward
      <4>2. CASE s \notin DOMAIN q.links
        BY <2>1, <2>2, <2>4, <4>2 DEF Keeps, Saved
      <4> QED
        BY <4>1, <4>2
    <3> QED
      BY <3>1, <3>2 DEF Quiet, e
  <2> QED
    BY <2>3, <2>4 DEF Quiet
<1> QED
  BY <1>1, <1>2

\* A patcher that quiets p does, whether it finds its own work done or not.
LEMMA QuietsQuiet ==
    ASSUME NEW p \in Patches, NEW q \in Patches, NEW k \in Kernel, Quiets(q, p)
    PROVE  Quiet(p, Effect(q, k))
<1> DEFINE e == Effect(q, k)
<1>1. CASE AlreadyDone(q, k)
  <2>1. e = k
    BY <1>1 DEF Effect
  <2>2. /\ q.writes \subseteq k.conv /\ p.reverts = {}
        /\ \A s \in DOMAIN q.links : k.slot[s] = q.links[s].to
    BY <1>1 DEF AlreadyDone, InPlace, Quiets
  <2>3. /\ p.writes \subseteq k.conv
        /\ \A s \in DOMAIN p.links :
              k.slot[s] \notin p.links[s].from \ {p.links[s].to}
    BY <2>2 DEF Quiets, Forward
  <2> QED
    BY <2>1, <2>2, <2>3 DEF Quiet
<1>2. CASE ~AlreadyDone(q, k)
  <2>1. /\ e.conv = (k.conv \cup q.writes) \ q.reverts
        /\ \A s \in Slots : e.slot[s] =
              IF s \in DOMAIN q.links THEN q.links[s].to ELSE Saved(q, k, s)
    BY <1>2, EffectParts
  <2>2. DOMAIN p.links \subseteq Slots
    BY PatchAssumption
  <2> HIDE DEF e
  <2>3. p.writes \subseteq e.conv /\ p.reverts \cap e.conv = {}
    BY <2>1 DEF Quiets
  <2>4. ASSUME NEW s \in DOMAIN p.links
        PROVE  e.slot[s] \notin p.links[s].from \ {p.links[s].to}
    BY <2>1, <2>2 DEF Quiets, Forward
  <2> QED
    BY <2>3, <2>4 DEF Quiet, e
<1> QED
  BY <1>1, <1>2

\* A quiet patcher refuses, or changes nothing.
LEMMA QuietRefusesOrKeeps ==
    ASSUME NEW p \in Patches, NEW k \in Kernel, p.adds = {},
           Quiet(p, k), Accepts(p, k)
    PROVE  Effect(p, k) = k
<1>1. CASE AlreadyDone(p, k)
  BY <1>1 DEF Effect
<1>2. CASE ~AlreadyDone(p, k)
  <2>1. /\ p.needs \subseteq k.syms
        /\ \A s \in DOMAIN p.links :
              k.slot[s] \in p.links[s].from \cup {p.links[s].to}
    BY <1>2 DEF Accepts
  <2>2. /\ p.writes \subseteq k.conv
        /\ p.reverts \cap k.conv = {}
        /\ \A s \in DOMAIN p.links : k.slot[s] = p.links[s].to
    BY <2>1 DEF Quiet
  <2>3. DOMAIN p.saves = {}
    BY <1>2, <2>2 DEF AlreadyDone, InPlace
  <2>4. k.slot \in [Slots -> STRING] /\ k = [conv |-> k.conv, slot |-> k.slot, syms |-> k.syms]
    BY DEF Kernel
  <2>5. (k.conv \cup p.writes) \ p.reverts = k.conv /\ k.syms \cup p.adds = k.syms
    BY <2>2
  <2>6. [s \in DOMAIN k.slot |-> IF s \in DOMAIN p.links THEN p.links[s].to
                                 ELSE Saved(p, k, s)] = k.slot
    BY <2>2, <2>3, <2>4 DEF Saved
  <2>7. Patched(p, k) = k
    BY <2>4, <2>5, <2>6 DEF Patched
  <2> QED
    BY <1>2, <2>7 DEF Effect
<1> QED
  BY <1>1, <1>2

\* The patchers that may be run again are patchers.
LEMMA RerunArePatches ==
    ASSUME NEW f PROVE RerunOn(f) \subseteq Patches
BY DEF RerunOn, Patches

\* The finished kernels, and the one a script that runs will finish.
FilesQuiet == \A f \in File : Finished(f) => \A p \in RerunOn(f) : Quiet(p, disk[f].img)
JobQuiet ==
    job.on /\ job.clean => \A p \in RerunOn(Out) :
        /\ Carries(job.name, p) => Quiet(p, Image)
        /\ \A i \in 1 .. job.pc - 1 : QuietsAt(job.name, p, i) => Quiet(p, Image)
JobMade ==
    job.on => /\ S(job.name).linked => Image.conv \subseteq Made(job.name, job.pc)
              /\ \A i \in 1 .. job.pc - 1 : ~Fails(job.name, i)
QuietInv == FilesQuiet /\ JobQuiet /\ JobMade

LEMMA QuietInit == Init => QuietInv
<1> SUFFICES ASSUME Init PROVE QuietInv
  OBVIOUS
<1>1. ~job.on
  BY NoJobIsIdle DEF Init
<1>2. FilesQuiet
  BY RerunAssumption DEF Init, FilesQuiet, Finished
<1> QED
  BY <1>1, <1>2 DEF QuietInv, JobQuiet, JobMade

\* A step that leaves the running script's image and place alone, or ends it,
\* and finishes nothing.
LEMMA QuietSame ==
    ASSUME TypeOK, QuietInv,
           \A f \in File : Finished(f)' => Finished(f) /\ disk'[f].img = disk[f].img,
           job'.on => /\ job.on /\ job'.name = job.name /\ job'.pc = job.pc
                      /\ job'.clean = job.clean /\ disk'[Out].img = Image
    PROVE  QuietInv'
<1>1. FilesQuiet'
  BY DEF QuietInv, FilesQuiet
<1>2. job'.on => Out' = Out /\ Image' = Image
  BY DEF Out, Image
<1>3. JobQuiet'
  BY <1>2 DEF QuietInv, JobQuiet
<1>4. JobMade'
  BY <1>2 DEF QuietInv, JobMade
<1> QED
  BY <1>1, <1>3, <1>4 DEF QuietInv

LEMMA QuietStart ==
    ASSUME TypeOK, QuietInv, NEW n \in DOMAIN Script, Start(n)
    PROVE  QuietInv'
<1> DEFINE f == S(n).out
           q == S(n).link
           k == Input(n)
<1>1. f \in File /\ (~S(n).linked => S(n).in \in File) /\ q \in Patches
      /\ S(n).linked \in BOOLEAN
  BY ScriptAssumption, StepsArePatches DEF S
<1>2. k \in Kernel
  BY <1>1, PatchAssumption DEF Input, TypeOK, OnDisk
<1>3. /\ disk' = [disk EXCEPT ![f] = Fresh(n)]
      /\ Fresh(n).img = Effect(q, k) /\ ~Fresh(n).done
  BY DEF Start, Fresh
<1>4. /\ disk'[f].img = Effect(q, k) /\ ~disk'[f].done
      /\ \A g \in File \ {f} : disk'[g] = disk[g]
  BY <1>1, <1>3 DEF TypeOK
<1>5. /\ job'.on /\ job'.name = n /\ job'.pc = 1
      /\ job'.clean = (S(n).linked \/ Finished(S(n).in))
  BY DEF Start
<1>6. Out' = f /\ Image' = Effect(q, k)
  BY <1>4, <1>5 DEF Out, Image
<1>7. FilesQuiet'
  BY <1>4 DEF QuietInv, FilesQuiet, Finished
<1>8. 1 .. job'.pc - 1 = {}
  BY <1>5
<1>9. ASSUME job'.clean, NEW p \in RerunOn(f), Carries(n, p) PROVE Quiet(p, Effect(q, k))
  <2>1. ~S(n).linked /\ Finished(S(n).in) /\ p \in RerunOn(S(n).in) /\ Keeps(q, p)
    BY <1>5, <1>9 DEF Carries, S
  <2>2. Quiet(p, k)
    BY <1>1, <2>1 DEF QuietInv, FilesQuiet, Input
  <2>3. p \in Patches
    BY RerunArePatches
  <2> QED
    BY <1>1, <1>2, <2>1, <2>2, <2>3, KeepsQuiet
<1>10. JobQuiet'
  BY <1>5, <1>6, <1>8, <1>9 DEF JobQuiet
<1>11. S(n).linked => Effect(q, k).conv \subseteq Made(n, 1)
  <2> SUFFICES ASSUME S(n).linked PROVE Effect(q, k).conv \subseteq Made(n, 1)
    OBVIOUS
  <2>1. k = Stock
    BY DEF Input
  <2>2. Effect(q, k).conv \subseteq k.conv \cup q.writes
    BY <1>1, <1>2, EffectParts DEF Effect
  <2> QED
    BY <2>1, <2>2 DEF Made, S
<1>12. JobMade'
  BY <1>5, <1>6, <1>8, <1>11 DEF JobMade
<1> QED
  BY <1>7, <1>10, <1>12 DEF QuietInv

\* A step of a script that does not fail can succeed.
LEMMA StepDoesNotFail ==
    ASSUME TypeOK, QuietInv, Step
    PROVE  ~Fails(job.name, job.pc)
<1> SUFFICES ASSUME Fails(job.name, job.pc) PROVE FALSE
  OBVIOUS
<1>1. job.on /\ S(job.name).linked /\ Patch = Script[job.name].steps[job.pc]
  BY DEF Step, AtStep, Fails, Patch, S
<1>2. ~AlreadyDone(Patch, Image)
  BY <1>1 DEF Fails, AlreadyDone
<1>3. Patch.new \subseteq Image.conv
  BY <1>2 DEF Step, Accepts, Canaries
<1>4. Image.conv \subseteq Made(job.name, job.pc)
  BY <1>1 DEF QuietInv, JobMade
<1> QED
  BY <1>1, <1>3, <1>4 DEF Fails

LEMMA QuietStep == TypeOK /\ QuietInv /\ Step => QuietInv'
<1> SUFFICES ASSUME TypeOK, QuietInv, Step PROVE QuietInv'
  OBVIOUS
<1> DEFINE n == job.name
           q == Patch
           e == Effect(Patch, Image)
<1>1. /\ job.on /\ n \in DOMAIN Script /\ Out \in File /\ Image \in Kernel
      /\ q \in Patches /\ ~disk[Out].done /\ job.pc \in Nat \ {0}
      /\ job.pc <= Len(S(n).steps) /\ Len(S(n).steps) \in Nat
  BY Running DEF Step, AtStep
<1>2. q = Script[n].steps[job.pc] /\ ~q.stamp
  BY DEF Patch, S, Step
<1>3. disk' = [disk EXCEPT ![Out] = [disk[Out] EXCEPT !.img = e]]
  BY DEF Step
<1>4. /\ disk'[Out].img = e /\ ~disk'[Out].done
      /\ \A g \in File \ {Out} : disk'[g] = disk[g]
  BY <1>1, <1>3 DEF TypeOK, OnDisk
<1>5. job' = [job EXCEPT !.pc = job.pc + 1] /\ job \in JobType
  BY DEF Step, TypeOK
<1>6. job'.on /\ job'.name = n /\ job'.clean = job.clean /\ job'.pc = job.pc + 1
  BY <1>1, <1>5 DEF JobType
<1>7. Out' = Out /\ Image' = e
  BY <1>4, <1>6 DEF Out, Image
<1>8. FilesQuiet'
  BY <1>4 DEF QuietInv, FilesQuiet, Finished
<1>9. job.pc \in DOMAIN Script[n].steps /\ 1 .. job'.pc - 1 = (1 .. job.pc - 1) \cup {job.pc}
  <2>1. Script[n].steps \in Seq(Patches)
    BY <1>1, ScriptAssumption
  <2> QED
    BY <1>1, <1>6, <2>1 DEF S
<1>10. ASSUME job.clean, NEW p \in RerunOn(Out)
       PROVE  /\ Carries(n, p) => Quiet(p, e)
              /\ \A i \in 1 .. job.pc - 1 : QuietsAt(n, p, i) => Quiet(p, e)
              /\ QuietsAt(n, p, job.pc) => Quiet(p, e)
  <2>1. p \in Patches
    BY RerunArePatches
  <2> HIDE DEF n, q
  <2>2. Carries(n, p) => Quiet(p, Image) /\ Keeps(q, p)
    BY <1>1, <1>2, <1>9, <1>10 DEF QuietInv, JobQuiet, Carries, n
  <2>3. ASSUME NEW i \in 1 .. job.pc - 1, QuietsAt(n, p, i)
        PROVE  Quiet(p, Image) /\ Keeps(q, p)
    <3>1. Quiet(p, Image)
      BY <1>1, <1>10, <2>3 DEF QuietInv, JobQuiet, n
    <3>2. job.pc > i
      BY <1>1
    <3> QED
      BY <1>2, <1>9, <2>3, <3>1, <3>2 DEF QuietsAt
  <2>4. QuietsAt(n, p, job.pc) => Quiets(q, p)
    BY <1>2 DEF QuietsAt
  <2>5. e = Effect(q, Image)
    BY DEF q
  <2> HIDE DEF e
  <2>6. Quiet(p, Image) /\ Keeps(q, p) => Quiet(p, e)
    BY <1>1, <2>1, <2>5, KeepsQuiet
  <2>7. Quiets(q, p) => Quiet(p, e)
    BY <1>1, <2>1, <2>5, QuietsQuiet
  <2> QED
    BY <2>2, <2>3, <2>4, <2>6, <2>7
<1>11. JobQuiet'
  BY <1>6, <1>7, <1>9, <1>10 DEF JobQuiet
<1>12. S(n).linked => e.conv \subseteq Made(n, job.pc + 1)
  <2> SUFFICES ASSUME S(n).linked PROVE e.conv \subseteq Made(n, job.pc + 1)
    OBVIOUS
  <2>1. Image.conv \subseteq Made(n, job.pc)
    BY <1>1 DEF QuietInv, JobMade
  <2>2. e.conv \subseteq Image.conv \cup q.writes
    BY <1>1, EffectParts DEF Effect
  <2>3. Made(n, job.pc) \cup q.writes \subseteq Made(n, job.pc + 1)
    <3>1. 1 .. job.pc + 1 - 1 = (1 .. job.pc - 1) \cup {job.pc}
      BY <1>1
    <3> QED
      BY <1>2, <3>1 DEF Made
  <2> QED
    BY <2>1, <2>2, <2>3
<1>13. \A i \in 1 .. job'.pc - 1 : ~Fails(n, i)
  BY <1>1, <1>9, StepDoesNotFail DEF QuietInv, JobMade
<1>14. JobMade'
  BY <1>6, <1>7, <1>12, <1>13 DEF JobMade
<1> QED
  BY <1>8, <1>11, <1>14 DEF QuietInv

\* The stamp leaves the image alone and quiets nothing.
LEMMA QuietStampId == TypeOK /\ QuietInv /\ StampId => QuietInv'
<1> SUFFICES ASSUME TypeOK, QuietInv, StampId PROVE QuietInv'
  OBVIOUS
<1> DEFINE n == job.name
<1>1. /\ job.on /\ n \in DOMAIN Script /\ Out \in File
      /\ ~disk[Out].done /\ job.pc \in Nat \ {0}
  BY Running DEF StampId, AtStep
<1>2. Script[n].steps[job.pc].stamp
  BY DEF Patch, S, StampId
<1>3. disk' = [disk EXCEPT ![Out] = [disk[Out] EXCEPT !.id = <<seqfile.day, job.drawn>>]]
  BY DEF StampId
<1>4. /\ disk'[Out].img = Image /\ ~disk'[Out].done
      /\ \A g \in File \ {Out} : disk'[g] = disk[g]
  BY <1>1, <1>3 DEF TypeOK, OnDisk, Image
<1>5. job' = [job EXCEPT !.pc = job.pc + 1, !.drawn = 0] /\ job \in JobType
  BY DEF StampId, TypeOK
<1>6. job'.on /\ job'.name = n /\ job'.clean = job.clean /\ job'.pc = job.pc + 1
  BY <1>1, <1>5 DEF JobType
<1>7. Out' = Out /\ Image' = Image
  BY <1>4, <1>6 DEF Out, Image
<1>8. FilesQuiet'
  BY <1>4 DEF QuietInv, FilesQuiet, Finished
<1>9. 1 .. job'.pc - 1 = (1 .. job.pc - 1) \cup {job.pc}
  BY <1>1, <1>6
<1>10. \A p \in RerunOn(Out) : ~QuietsAt(n, p, job.pc)
  BY <1>2 DEF QuietsAt
<1>11. JobQuiet'
  <2> SUFFICES ASSUME job.clean, NEW p \in RerunOn(Out)
               PROVE  /\ Carries(n, p) => Quiet(p, Image)
                      /\ \A i \in 1 .. job'.pc - 1 : QuietsAt(n, p, i) => Quiet(p, Image)
    BY <1>6, <1>7 DEF JobQuiet
  <2>1. /\ Carries(n, p) => Quiet(p, Image)
        /\ \A i \in 1 .. job.pc - 1 : QuietsAt(n, p, i) => Quiet(p, Image)
    BY <1>1 DEF QuietInv, JobQuiet
  <2> QED
    BY <1>9, <1>10, <2>1
<1>12. S(n).linked => Image.conv \subseteq Made(n, job.pc + 1)
  <2>1. Made(n, job.pc) \subseteq Made(n, job.pc + 1)
    <3>1. 1 .. job.pc + 1 - 1 = (1 .. job.pc - 1) \cup {job.pc}
      BY <1>1
    <3> QED
      BY <3>1 DEF Made
  <2> QED
    BY <1>1, <2>1 DEF QuietInv, JobMade
<1>13. \A i \in 1 .. job'.pc - 1 : ~Fails(n, i)
  BY <1>1, <1>2, <1>9 DEF QuietInv, JobMade, Fails
<1>14. JobMade'
  BY <1>6, <1>7, <1>12, <1>13 DEF JobMade
<1> QED
  BY <1>8, <1>11, <1>14 DEF QuietInv

LEMMA QuietFinish == TypeOK /\ QuietInv /\ Finish => QuietInv'
<1> SUFFICES ASSUME TypeOK, QuietInv, Finish PROVE QuietInv'
  OBVIOUS
<1> DEFINE n == job.name
<1>1. /\ job.on /\ n \in DOMAIN Script /\ Out \in File
      /\ job.pc \in Nat /\ Len(S(n).steps) \in Nat
  BY Running DEF Finish
<1>2. job.pc - 1 = Len(S(n).steps)
  <2>1. job.pc \in 1 .. Len(S(n).steps) + 1 /\ ~(job.pc <= Len(S(n).steps))
    BY <1>1 DEF Finish, AtStep, TypeOK
  <2> QED
    BY <1>1, <2>1
<1>3. DOMAIN Script[n].steps = 1 .. job.pc - 1
  <2>1. Script[n].steps \in Seq(Patches)
    BY <1>1, ScriptAssumption
  <2> QED
    BY <1>2, <2>1 DEF S
<1>4. disk' = [disk EXCEPT ![Out] = [disk[Out] EXCEPT !.done = job.clean]]
  BY DEF Finish
<1>5. /\ disk'[Out].img = Image /\ disk'[Out].done = job.clean
      /\ \A g \in File \ {Out} : disk'[g] = disk[g]
  BY <1>1, <1>4 DEF TypeOK, OnDisk, Image
<1>6. ASSUME job.clean, NEW p \in RerunOn(Out) PROVE Quiet(p, Image)
  <2>1. CASE Idle(p)
    BY <2>1 DEF Idle, Quiet
  <2>2. CASE Carries(n, p)
    BY <1>1, <1>6, <2>2 DEF QuietInv, JobQuiet
  <2>3. ASSUME NEW i \in DOMAIN Script[n].steps, QuietsAt(n, p, i)
        PROVE  Quiet(p, Image)
    BY <1>1, <1>3, <1>6, <2>3 DEF QuietInv, JobQuiet
  <2>4. ASSUME NEW i \in DOMAIN Script[n].steps PROVE ~Fails(n, i)
    BY <1>1, <1>3 DEF QuietInv, JobMade
  <2>5. \/ Idle(p) \/ Carries(n, p)
        \/ \E i \in DOMAIN Script[n].steps : QuietsAt(n, p, i) \/ Fails(n, i)
    BY <1>1, RerunAssumption DEF Out, S
  <2> QED
    BY <2>1, <2>2, <2>3, <2>4, <2>5
<1>7. FilesQuiet'
  <2> SUFFICES ASSUME NEW f \in File, Finished(f)', NEW p \in RerunOn(f)
               PROVE  Quiet(p, disk'[f].img)
    BY DEF FilesQuiet
  <2>1. CASE f = Out
    BY <1>5, <1>6, <2>1 DEF Finished
  <2>2. CASE f # Out
    BY <1>5, <2>2 DEF QuietInv, FilesQuiet, Finished
  <2> QED
    BY <2>1, <2>2
<1>8. ~job'.on
  BY EndedIsIdle DEF Finish, Outcome
<1> QED
  BY <1>7, <1>8 DEF QuietInv, JobQuiet, JobMade

LEMMA QuietHandRun ==
    ASSUME TypeOK, QuietInv, NEW p \in Patcher, NEW f \in File, HandRun(p, f)
    PROVE  QuietInv'
<1> DEFINE k == Effect(p, disk[f].img)
<1>1. disk' = [disk EXCEPT ![f] = [disk[f] EXCEPT !.img = k,
                                       !.done = disk[f].done /\ k = disk[f].img]]
  BY DEF HandRun
<1>2. disk[f] \in OnDisk
  BY DEF TypeOK
<1>3. /\ disk'[f].there = disk[f].there /\ disk'[f].img = k
      /\ disk'[f].done = (disk[f].done /\ k = disk[f].img)
      /\ \A g \in File \ {f} : disk'[g] = disk[g]
  BY <1>1, <1>2 DEF TypeOK, OnDisk
<1> HIDE DEF k
<1>4. \A g \in File : Finished(g)' => Finished(g) /\ disk'[g].img = disk[g].img
  BY <1>3 DEF Finished
<1>5. ~job'.on
  BY DEF HandRun
<1> QED
  BY <1>4, <1>5, QuietSame

LEMMA QuietDraw == TypeOK /\ QuietInv /\ Draw => QuietInv'
<1> SUFFICES ASSUME TypeOK, QuietInv, Draw PROVE QuietInv'
  OBVIOUS
<1>1. job' = [job EXCEPT !.drawn = NextSeq] /\ job \in JobType /\ job.on /\ disk' = disk
  BY DEF Draw, TypeOK, AtStep
<1>2. job'.name = job.name /\ job'.pc = job.pc /\ job'.clean = job.clean
  BY <1>1 DEF JobType
<1> QED
  BY <1>1, <1>2, QuietSame DEF Finished, Image

LEMMA QuietEnded ==
    ASSUME TypeOK, QuietInv, Abort \/ Exhausted \/ Interrupt
    PROVE  QuietInv'
<1>1. disk' = disk
  BY DEF Abort, Exhausted, Interrupt
<1>2. ~job'.on
  BY EndedIsIdle DEF Abort, AfterRefusal, Exhausted, Interrupt, Outcome
<1> QED
  BY <1>1, <1>2, QuietSame DEF Finished

LEMMA QuietNext == TypeOK /\ QuietInv /\ [Next]_vars => QuietInv'
<1> SUFFICES ASSUME TypeOK, QuietInv, [Next]_vars PROVE QuietInv'
  OBVIOUS
<1>1. ASSUME NEW n \in DOMAIN Script, Start(n) PROVE QuietInv'
  BY <1>1, QuietStart
<1>2. ASSUME NEW p \in Patcher, NEW f \in File, HandRun(p, f) PROVE QuietInv'
  BY <1>2, QuietHandRun
<1>3. CASE NextDay \/ UNCHANGED vars
  <2>1. disk' = disk /\ job' = job
    BY <1>3 DEF NextDay, vars
  <2> QED
    BY <2>1, QuietSame DEF Finished, Image
<1> QED
  BY <1>1, <1>2, <1>3, QuietStep, QuietStampId, QuietFinish, QuietDraw, QuietEnded
     DEF Next, JobStep

\* For every table of scripts and patchers in which each script leaves the
\* patchers of its own build quiet (RerunAssumption, a fact about pairs of
\* patchers): whatever passes, interruptions and hand-run patchers came in
\* between, a patcher of a finished kernel's build that is run over it again
\* is refused or changes nothing.
THEOREM RerunChangesNothing == Spec => []RerunSafe
<1>1. TypeOK /\ QuietInv => RerunSafe
  <2> SUFFICES ASSUME TypeOK, QuietInv, NEW f \in File, Finished(f),
                      NEW n \in {m \in DOMAIN Script : S(m).out = f \/ S(m).linked},
                      NEW i \in DOMAIN S(n).steps,
                      S(n).steps[i].adds = {}, Accepts(S(n).steps[i], disk[f].img)
               PROVE  Effect(S(n).steps[i], disk[f].img) = disk[f].img
    BY DEF RerunSafe
  <2> DEFINE p == S(n).steps[i]
  <2>1. p \in RerunOn(f)
    BY DEF RerunOn, S
  <2>2. p \in Patches /\ disk[f].img \in Kernel
    BY <2>1, RerunArePatches DEF TypeOK, OnDisk
  <2>3. Quiet(p, disk[f].img)
    BY <2>1 DEF QuietInv, FilesQuiet
  <2> HIDE DEF p
  <2>4. p.adds = {} /\ Accepts(p, disk[f].img)
    BY DEF p
  <2>5. Effect(p, disk[f].img) = disk[f].img
    BY <2>2, <2>3, <2>4, QuietRefusesOrKeeps
  <2> QED
    BY <2>5 DEF p
<1>2. TypeOK /\ QuietInv /\ [Next]_vars => QuietInv'
  BY QuietNext
<1> QED
  BY <1>1, <1>2, QuietInit, BuildTypeCorrect, PTL DEF Spec

----------------------------------------------------------------------------
(* Handler chains.                                                         *)

LEMMA SetInduction ==
    ASSUME NEW T \in SUBSET Nat, 0 \in T, \A n \in T : n + 1 \in T
    PROVE  T = Nat
<1> DEFINE R == OpToRel(<, Nat)
<1>1. IsWellFoundedOn(R, Nat)
  BY NatLessThanWellFounded
<1> SUFFICES ASSUME Nat \ T # {} PROVE FALSE
    OBVIOUS
<1>2. PICK x \in Nat \ T : \A y \in Nat \ T : ~(<<y, x>> \in R)
  <2> HIDE DEF R
  <2> QED
    BY <1>1, WFMin
<1>3. \A y \in Nat \ T : ~(y < x)
  BY <1>2 DEF OpToRel
<1>4. x - 1 \in Nat /\ x - 1 < x
  OBVIOUS
<1>5. x - 1 \in T
  BY <1>3, <1>4
<1> QED
  BY <1>5

\* The symbols k names at the starts of chains, and after those of g.
First(k)    == {k.slot[s] : s \in Entry}
After(k, g) == g \cup {k.slot[Exit[h]] : h \in g \cap DOMAIN Exit}

\* Follow's recursive function exists for every bound.
LEMMA FollowExists ==
    ASSUME NEW k, NEW n \in Nat
    PROVE  \E g : g = [i \in 0 .. n |-> IF i = 0 THEN First(k) ELSE After(k, g[i - 1])]
<1> DEFINE Walks(g, m) ==
              g = [i \in 0 .. m |-> IF i = 0 THEN First(k) ELSE After(k, g[i - 1])]
           T == {m \in Nat : \E g : Walks(g, m)}
<1>1. 0 \in T
  <2> DEFINE g == [i \in 0 .. 0 |-> First(k)]
  <2>1. Walks(g, 0)
    OBVIOUS
  <2> HIDE DEF Walks, g
  <2> QED
    BY <2>1
<1>2. ASSUME NEW m \in T PROVE m + 1 \in T
  <2>1. PICK g : Walks(g, m)
    OBVIOUS
  <2> DEFINE g2 == [i \in 0 .. m + 1 |-> IF i <= m THEN g[i] ELSE After(k, g[m])]
             g3 == [i \in 0 .. m + 1 |-> IF i = 0 THEN First(k) ELSE After(k, g2[i - 1])]
  <2>2. ASSUME NEW i \in 0 .. m + 1 PROVE g2[i] = g3[i]
    <3>1. \A j \in 0 .. m : g2[j] = g[j]
      OBVIOUS
    <3>2. \A j \in 0 .. m : g[j] = IF j = 0 THEN First(k) ELSE After(k, g[j - 1])
      BY <2>1
    <3>3. CASE i = 0
      BY <3>1, <3>2, <3>3
    <3>4. CASE i # 0 /\ i <= m
      <4>1. i - 1 \in 0 .. m /\ i \in 0 .. m
        BY <3>4
      <4>2. g2[i] = After(k, g2[i - 1])
        BY <3>1, <3>2, <3>4, <4>1
      <4> QED
        BY <3>4, <4>2
    <3>5. CASE i = m + 1
      <4>1. g2[i] = After(k, g[m]) /\ g2[i - 1] = g[m] /\ i # 0
        BY <3>5
      <4> QED
        BY <4>1
    <3> QED
      BY <3>3, <3>4, <3>5
  <2> HIDE DEF Walks
  <2>3. g2 = g3
    BY <2>2
  <2>4. Walks(g2, m + 1)
    BY <2>3 DEF Walks
  <2> HIDE DEF g2, g3
  <2> QED
    BY <2>4
<1>3. T \in SUBSET Nat
  OBVIOUS
<1> HIDE DEF Walks
<1>4. n \in T
  <2> HIDE DEF T
  <2> QED
    BY <1>1, <1>2, <1>3, SetInduction
<1> QED
  BY <1>4 DEF Walks

\* What Handlers computes, a step of the chains at a time.
LEMMA HandlersBySteps ==
    ASSUME NEW k, MaxChain \in Nat
    PROVE  \E g : /\ Handlers(k) = g[MaxChain] \cap DOMAIN Exit
                  /\ g[0] = First(k)
                  /\ \A i \in Nat : i < MaxChain => g[i + 1] = After(k, g[i])
<1> DEFINE Walks(g) == g = [i \in 0 .. MaxChain |->
                              IF i = 0 THEN First(k) ELSE After(k, g[i - 1])]
<1>1. \E g : Walks(g)
  BY FollowExists
<1>2. Follow(k, Exit, Entry, MaxChain) = (CHOOSE g : Walks(g))[MaxChain]
  BY DEF Follow, First, After
<1> HIDE DEF Walks
<1>3. PICK g : Walks(g) /\ Follow(k, Exit, Entry, MaxChain) = g[MaxChain]
  BY <1>1, <1>2
<1>4. /\ g[0] = First(k)
      /\ \A i \in Nat : i < MaxChain => g[i + 1] = After(k, g[i])
  <2>1. \A i \in 0 .. MaxChain : g[i] = IF i = 0 THEN First(k) ELSE After(k, g[i - 1])
    BY <1>3 DEF Walks
  <2>2. ASSUME NEW i \in Nat, i < MaxChain PROVE g[i + 1] = After(k, g[i])
    <3>1. i + 1 \in 0 .. MaxChain /\ i + 1 # 0 /\ (i + 1) - 1 = i
      BY <2>2
    <3> QED
      BY <2>1, <3>1
  <2>3. 0 \in 0 .. MaxChain
    OBVIOUS
  <2> QED
    BY <2>1, <2>2, <2>3
<1> QED
  BY <1>3, <1>4 DEF Handlers

Handler == DOMAIN Exit

\* Along every chain of k the rank falls.
Ranked(k, rank) ==
    \A h \in Handler : k.slot[Exit[h]] \in Handler => rank[k.slot[Exit[h]]] < rank[h]

\* R holds what k's chains start with, and what comes after a handler of R.
Closed(k, R) ==
    /\ \A s \in Entry : k.slot[s] \in Handler => k.slot[s] \in R
    /\ \A h \in R \cap Handler : k.slot[Exit[h]] \in Handler => k.slot[Exit[h]] \in R

\* The steps of a chain are steps of an increasing sequence of sets.
LEMMA StepsGrow ==
    ASSUME NEW k, NEW g, MaxChain \in Nat,
           \A i \in Nat : i < MaxChain => g[i + 1] = After(k, g[i])
    PROVE  \A i \in Nat : i <= MaxChain => g[i] \subseteq g[MaxChain]
<1> DEFINE T == {n \in Nat : n <= MaxChain => g[MaxChain - n] \subseteq g[MaxChain]}
<1>1. 0 \in T
  OBVIOUS
<1>2. ASSUME NEW n \in T PROVE n + 1 \in T
  <2> SUFFICES ASSUME n + 1 <= MaxChain
               PROVE  g[MaxChain - (n + 1)] \subseteq g[MaxChain]
      OBVIOUS
  <2>1. g[MaxChain - n] \subseteq g[MaxChain]
    OBVIOUS
  <2>2. /\ MaxChain - (n + 1) \in Nat /\ MaxChain - (n + 1) < MaxChain
        /\ (MaxChain - (n + 1)) + 1 = MaxChain - n
    OBVIOUS
  <2>3. g[MaxChain - n] = After(k, g[MaxChain - (n + 1)])
    BY <2>2
  <2> QED
    BY <2>1, <2>3 DEF After
<1>3. T = Nat
  <2>1. T \in SUBSET Nat
    OBVIOUS
  <2> HIDE DEF T
  <2> QED
    BY <1>1, <1>2, <2>1, SetInduction
<1> SUFFICES ASSUME NEW i \in Nat, i <= MaxChain PROVE g[i] \subseteq g[MaxChain]
    OBVIOUS
<1>4. MaxChain - i \in Nat /\ MaxChain - i <= MaxChain /\ MaxChain - (MaxChain - i) = i
  OBVIOUS
<1>5. MaxChain - i \in T
  <2> HIDE DEF T
  <2> QED
    BY <1>3, <1>4
<1> QED
  BY <1>4, <1>5

\* MaxChain cuts no chain off whose rank falls.
LEMMA HandlersClosed ==
    ASSUME NEW k, NEW rank, MaxChain \in Nat,
           \A h \in Handler : rank[h] \in 0 .. MaxChain, Ranked(k, rank)
    PROVE  Closed(k, Handlers(k))
<1>1. PICK g : /\ Handlers(k) = g[MaxChain] \cap Handler
               /\ g[0] = First(k)
               /\ \A i \in Nat : i < MaxChain => g[i + 1] = After(k, g[i])
  BY HandlersBySteps DEF Handler
<1>2. \A i \in Nat : i <= MaxChain => g[i] \subseteq g[MaxChain]
  BY <1>1, StepsGrow
<1> DEFINE Early(h, i) == \E j \in 0 .. MaxChain : j <= i /\ j <= MaxChain - rank[h] /\ h \in g[j]
           T == {i \in Nat : i <= MaxChain => \A h \in g[i] \cap Handler : Early(h, i)}
<1>3. 0 \in T
  <2> SUFFICES ASSUME NEW h \in g[0] \cap Handler PROVE Early(h, 0)
      OBVIOUS
  <2>1. 0 \in 0 .. MaxChain /\ 0 <= MaxChain - rank[h]
    OBVIOUS
  <2> QED
    BY <2>1
<1>4. ASSUME NEW i \in T PROVE i + 1 \in T
  <2> SUFFICES ASSUME i + 1 <= MaxChain, NEW h \in g[i + 1] \cap Handler
               PROVE  Early(h, i + 1)
      OBVIOUS
  <2>1. i \in Nat /\ i < MaxChain /\ i <= MaxChain
    OBVIOUS
  <2>2. \A x \in g[i] \cap Handler : Early(x, i)
    BY <2>1
  <2>3. g[i + 1] = After(k, g[i])
    BY <1>1, <2>1
  <2>4. CASE h \in g[i]
    BY <2>1, <2>2, <2>4
  <2>5. CASE h \notin g[i]
    <3>1. PICK x \in g[i] \cap Handler : h = k.slot[Exit[x]]
      BY <2>3, <2>5 DEF After, Handler
    <3>2. rank[h] < rank[x]
      BY <3>1 DEF Ranked
    <3>3. PICK j \in 0 .. MaxChain : j <= i /\ j <= MaxChain - rank[x] /\ x \in g[j]
      BY <2>2, <3>1
    <3>4. /\ j + 1 \in 0 .. MaxChain /\ j \in Nat /\ j < MaxChain
          /\ j + 1 <= i + 1 /\ j + 1 <= MaxChain - rank[h]
      BY <2>1, <3>2, <3>3
    <3>5. h \in g[j + 1]
      BY <1>1, <3>1, <3>3, <3>4 DEF After, Handler
    <3> QED
      BY <3>4, <3>5
  <2> QED
    BY <2>4, <2>5
<1>5. T = Nat
  <2>1. T \in SUBSET Nat
    OBVIOUS
  <2> HIDE DEF T
  <2> QED
    BY <1>3, <1>4, <2>1, SetInduction
<1>6. ASSUME NEW s \in Entry, k.slot[s] \in Handler PROVE k.slot[s] \in Handlers(k)
  <2>1. k.slot[s] \in g[0]
    BY <1>1 DEF First
  <2> QED
    BY <1>1, <1>2, <1>6, <2>1
<1>7. ASSUME NEW h \in Handlers(k) \cap Handler, k.slot[Exit[h]] \in Handler
      PROVE  k.slot[Exit[h]] \in Handlers(k)
  <2>1. MaxChain \in T /\ h \in g[MaxChain] \cap Handler
    BY <1>1, <1>5
  <2>2. PICK j \in 0 .. MaxChain : j <= MaxChain - rank[h] /\ h \in g[j]
    BY <2>1
  <2>3. rank[k.slot[Exit[h]]] < rank[h]
    BY <1>7 DEF Ranked
  <2>4. j \in Nat /\ j < MaxChain /\ j + 1 \in Nat /\ j + 1 <= MaxChain
    BY <1>7, <2>2, <2>3
  <2>5. k.slot[Exit[h]] \in g[j + 1]
    BY <1>1, <2>2, <2>4 DEF After, Handler
  <2> QED
    BY <1>1, <1>2, <1>7, <2>4, <2>5
<1> QED
  BY <1>6, <1>7 DEF Closed

\* Handlers holds nothing more than a closed set.
LEMMA HandlersLeast ==
    ASSUME NEW k, NEW R, MaxChain \in Nat, Closed(k, R)
    PROVE  Handlers(k) \subseteq R
<1>1. PICK g : /\ Handlers(k) = g[MaxChain] \cap Handler
               /\ g[0] = First(k)
               /\ \A i \in Nat : i < MaxChain => g[i + 1] = After(k, g[i])
  BY HandlersBySteps DEF Handler
<1> DEFINE T == {i \in Nat : i <= MaxChain => g[i] \cap Handler \subseteq R}
<1>2. 0 \in T
  <2>1. g[0] \cap Handler \subseteq R
    BY <1>1 DEF First, Closed
  <2> QED
    BY <2>1
<1>3. ASSUME NEW i \in T PROVE i + 1 \in T
  <2> SUFFICES ASSUME i + 1 <= MaxChain PROVE g[i + 1] \cap Handler \subseteq R
      OBVIOUS
  <2>1. i < MaxChain /\ g[i] \cap Handler \subseteq R
    OBVIOUS
  <2>2. g[i + 1] = After(k, g[i])
    BY <1>1, <2>1
  <2> QED
    BY <2>1, <2>2 DEF After, Closed, Handler
<1>4. T = Nat
  <2>1. T \in SUBSET Nat
    OBVIOUS
  <2> HIDE DEF T
  <2> QED
    BY <1>2, <1>3, <2>1, SetInduction
<1> QED
  BY <1>1, <1>4

\* What a patcher does to the slots.
LEMMA EffectSlots ==
    ASSUME NEW p \in Patches, NEW k \in Kernel, Accepts(p, k), OneHandler(p)
    PROVE  /\ \A s \in DOMAIN p.links :
                 /\ Effect(p, k).slot[s] = p.links[s].to
                 /\ k.slot[s] \in p.links[s].from \cup {p.links[s].to}
           /\ \A s \in Slots \ DOMAIN p.links :
                 \/ Effect(p, k).slot[s] = k.slot[s]
                 \/ /\ s \in DOMAIN p.saves /\ k.slot[s] = "nullvect"
                    /\ Effect(p, k).slot[s] = k.slot[p.saves[s]]
                    /\ k.slot[p.saves[s]] \in
                          p.links[p.saves[s]].from \ {p.links[p.saves[s]].to}
           /\ \A s \in DOMAIN p.saves \ DOMAIN p.links :
                 k.slot[p.saves[s]] # p.links[p.saves[s]].to =>
                    Effect(p, k).slot[s] = k.slot[p.saves[s]]
<1> DEFINE e == Effect(p, k)
<1>1. /\ DOMAIN p.links \subseteq Slots /\ DOMAIN p.saves \subseteq Slots
      /\ \A s \in DOMAIN p.saves : p.saves[s] \in DOMAIN p.links
  BY PatchAssumption DEF OneHandler
<1>2. CASE AlreadyDone(p, k)
  <2>1. e = k /\ \A s \in DOMAIN p.links : k.slot[s] = p.links[s].to
    BY <1>2 DEF Effect, AlreadyDone, InPlace
  <2> HIDE DEF e
  <2>2. \A s \in DOMAIN p.saves : k.slot[p.saves[s]] = p.links[p.saves[s]].to
    BY <1>1, <2>1
  <2> QED
    BY <2>1, <2>2 DEF e
<1>3. CASE ~AlreadyDone(p, k)
  <2>1. /\ \A s \in DOMAIN p.links :
              k.slot[s] \in p.links[s].from \cup {p.links[s].to}
        /\ \A s \in DOMAIN p.saves : k.slot[s] = "nullvect"
    BY <1>3 DEF Accepts
  <2>2. \A s \in Slots : e.slot[s] =
            IF s \in DOMAIN p.links THEN p.links[s].to ELSE Saved(p, k, s)
    BY <1>3, EffectParts
  <2>3. ASSUME NEW s \in DOMAIN p.saves
        PROVE  k.slot[p.saves[s]] # p.links[p.saves[s]].to
    BY <1>3 DEF AlreadyDone, InPlace, OneHandler
  <2> HIDE DEF e
  <2>4. \A s \in DOMAIN p.links : e.slot[s] = p.links[s].to
    BY <1>1, <2>2
  <2>5. ASSUME NEW s \in Slots \ DOMAIN p.links, s \notin DOMAIN p.saves
        PROVE  e.slot[s] = k.slot[s]
    BY <2>2, <2>5 DEF Saved
  <2>6. ASSUME NEW s \in DOMAIN p.saves \ DOMAIN p.links
        PROVE  /\ e.slot[s] = k.slot[p.saves[s]]
               /\ k.slot[p.saves[s]] \in
                     p.links[p.saves[s]].from \ {p.links[p.saves[s]].to}
    BY <1>1, <2>1, <2>2, <2>3 DEF Saved
  <2> QED
    BY <2>1, <2>4, <2>5, <2>6 DEF e
<1> QED
  BY <1>2, <1>3

\* Each slot of k names one of the symbols m allows it.
Within(k, m) == \A s \in Slots : k.slot[s] \in m[s]

LEMMA EffectWithin ==
    ASSUME NEW p \in Patches, NEW k \in Kernel, NEW m, NEW m2,
           Accepts(p, k), Chained(p, m, m2), Within(k, m)
    PROVE  Within(Effect(p, k), m2)
<1> SUFFICES ASSUME NEW s \in Slots PROVE Effect(p, k).slot[s] \in m2[s]
    BY DEF Within
<1>1. OneHandler(p) /\ Brings(p, m, m2)
  BY DEF Chained
<1>2. CASE s \in DOMAIN p.links
  <2>1. /\ Effect(p, k).slot[s] = p.links[s].to
        /\ k.slot[s] \in p.links[s].from \cup {p.links[s].to}
    BY <1>1, <1>2, EffectSlots
  <2>2. k.slot[s] \in m[s]
    BY DEF Within
  <2> QED
    BY <1>1, <1>2, <2>1, <2>2 DEF Brings
<1>3. CASE s \notin DOMAIN p.links
  <2>1. m[s] \subseteq m2[s] /\ k.slot[s] \in m[s]
    BY <1>1, <1>3 DEF Brings, Within
  <2>2. CASE Effect(p, k).slot[s] = k.slot[s]
    BY <2>1, <2>2
  <2>3. CASE /\ s \in DOMAIN p.saves
             /\ Effect(p, k).slot[s] = k.slot[p.saves[s]]
             /\ k.slot[p.saves[s]] \in
                   p.links[p.saves[s]].from \ {p.links[p.saves[s]].to}
    <3>1. p.saves[s] \in Slots
      BY <2>3, PatchAssumption
    <3>2. k.slot[p.saves[s]] \in Displaced(p, m, p.saves[s])
      BY <2>3, <3>1 DEF Displaced, Within
    <3> QED
      BY <1>1, <1>3, <2>3, <3>2 DEF Brings
  <2> QED
    BY <1>1, <1>3, <2>2, <2>3, EffectSlots
<1> QED
  BY <1>2, <1>3

\* The bounds on chains and slots that ChainsSettled gives.
LEMMA SettledBounds ==
    ASSUME NEW may, NEW rank, ChainsSettled(may, rank)
    PROVE  /\ MaxChain \in Nat /\ Entry \subseteq Slots /\ "nullvect" \notin Handler
           /\ \A h \in Handler : Exit[h] \in Slots /\ rank[h] \in 0 .. MaxChain
BY DEF ChainsSettled, Handler

LEMMA WithinRanked ==
    ASSUME NEW may, NEW rank, ChainsSettled(may, rank),
           NEW f \in File, NEW k, Within(k, may[f])
    PROVE  Ranked(k, rank)
BY DEF ChainsSettled, Within, Ranked, Handler

\* No patcher cuts a handler off.
LEMMA EffectKeepsHandlers ==
    ASSUME NEW may, NEW rank, ChainsSettled(may, rank),
           NEW p \in Patches, NEW k \in Kernel, NEW m, NEW f \in File,
           Accepts(p, k), Chained(p, m, may[f]), Within(k, m)
    PROVE  Handlers(k) \subseteq Handlers(Effect(p, k))
<1> DEFINE e == Effect(p, k)
           R == Handlers(e)
<1>1. /\ MaxChain \in Nat /\ Entry \subseteq Slots /\ "nullvect" \notin Handler
      /\ \A h \in Handler : Exit[h] \in Slots /\ rank[h] \in 0 .. MaxChain
  BY SettledBounds
<1>2. Closed(e, R)
  <2>1. Ranked(e, rank)
    BY EffectWithin, WithinRanked
  <2> QED
    BY <1>1, <2>1, HandlersClosed
<1>3. OneHandler(p) /\ ChainsStay(p, m)
  BY DEF Chained
<1>4. ASSUME NEW s \in Slots, k.slot[s] \in Handler,
             e.slot[s] \in Handler => e.slot[s] \in R
      PROVE  k.slot[s] \in R
  <2> HIDE DEF e, R
  <2> DEFINE v == k.slot[s]
             h == p.links[s].to
  <2>1. CASE e.slot[s] = v
    BY <1>4, <2>1
  <2>2. CASE e.slot[s] # v
    <3>1. s \in DOMAIN p.links
      BY <1>1, <1>3, <1>4, <2>2, EffectSlots DEF e
    <3>2. e.slot[s] = h /\ v \in p.links[s].from \ {h}
      BY <1>3, <2>2, <3>1, EffectSlots DEF e
    <3>3. v \in Displaced(p, m, s) \cap Handler
      BY <1>4, <3>2 DEF Displaced, Within
    <3>4. /\ h \in Handler /\ Exit[h] \notin DOMAIN p.links
          /\ IF Exit[h] \in DOMAIN p.saves THEN p.saves[Exit[h]] = s
                                           ELSE m[Exit[h]] \subseteq {v}
      BY <1>3, <3>1, <3>3 DEF ChainsStay, Handler
    <3>5. Exit[h] \in Slots
      BY <1>1, <3>4
    <3>6. e.slot[Exit[h]] = v
      <4>1. CASE Exit[h] \in DOMAIN p.saves
        <5>1. k.slot[p.saves[Exit[h]]] # p.links[p.saves[Exit[h]]].to
          BY <3>2, <3>4, <4>1
        <5>2. Exit[h] \in DOMAIN p.saves \ DOMAIN p.links /\ p.saves[Exit[h]] = s
          BY <3>4, <4>1
        <5>3. e.slot[Exit[h]] = k.slot[p.saves[Exit[h]]]
          BY <1>3, <5>1, <5>2, EffectSlots DEF e
        <5> QED
          BY <5>2, <5>3
      <4>2. CASE Exit[h] \notin DOMAIN p.saves
        <5>1. e.slot[Exit[h]] = k.slot[Exit[h]]
          BY <1>3, <3>4, <3>5, <4>2, EffectSlots DEF e
        <5>2. k.slot[Exit[h]] \in m[Exit[h]]
          BY <3>5 DEF Within
        <5> QED
          BY <3>4, <4>2, <5>1, <5>2
      <4> QED
        BY <4>1, <4>2
    <3>7. h \in R
      BY <1>4, <3>2, <3>4
    <3> QED
      BY <1>2, <1>4, <3>4, <3>6, <3>7 DEF Closed
  <2> QED
    BY <2>1, <2>2
<1>5. Closed(k, R)
  <2> HIDE DEF e, R
  <2>1. ASSUME NEW s \in Entry, k.slot[s] \in Handler PROVE k.slot[s] \in R
    <3>1. s \in Slots /\ (e.slot[s] \in Handler => e.slot[s] \in R)
      BY <1>1, <1>2 DEF Closed
    <3> QED
      BY <1>4, <2>1, <3>1
  <2>2. ASSUME NEW h \in R \cap Handler, k.slot[Exit[h]] \in Handler
        PROVE  k.slot[Exit[h]] \in R
    <3>1. /\ Exit[h] \in Slots
          /\ e.slot[Exit[h]] \in Handler => e.slot[Exit[h]] \in R
      BY <1>1, <1>2 DEF Closed
    <3> QED
      BY <1>4, <2>2, <3>1
  <2> QED
    BY <2>1, <2>2 DEF Closed
<1> HIDE DEF e, R
<1>6. Handlers(k) \subseteq R
  BY <1>1, <1>5, HandlersLeast
<1> QED
  BY <1>6 DEF R, e

\* may holds on every file.
SlotsIn(may) == \A f \in File : disk[f].there => Within(disk[f].img, may[f])

LEMMA SlotsInit ==
    ASSUME NEW may, NEW rank, ChainsSettled(may, rank), Init
    PROVE  SlotsIn(may)
BY DEF Init, SlotsIn, Within, ChainsSettled

\* A patcher makes f's next image of the image it is made from.
Derived(may, f) ==
    \E p \in Patches : \E m :
        /\ Before(f) \in Kernel /\ Within(Before(f), m)
        /\ Accepts(p, Before(f)) /\ Chained(p, m, may[f])
        /\ disk'[f].img = Effect(p, Before(f))
Untouched(f) ==
    disk'[f].img = disk[f].img /\ Before(f) = disk[f].img /\ disk'[f].there = disk[f].there

LEMMA DerivedStart ==
    ASSUME NEW may, NEW rank, ChainsSettled(may, rank), TypeOK, SlotsIn(may),
           NEW n \in DOMAIN Script, Start(n), NEW f \in File
    PROVE  Derived(may, f) \/ Untouched(f)
<1>1. /\ S(n).out \in File /\ (~S(n).linked => S(n).in \in File)
      /\ S(n).link \in Patches
  BY ScriptAssumption, StepsArePatches DEF S
<1>2. ~job.on /\ job'.on /\ job'.name = n
  BY DEF Start
<1>3. CASE f = S(n).out
  <2>1. Before(f) = Input(n)
    BY <1>2, <1>3 DEF Before
  <2>2. disk'[f].img = Effect(S(n).link, Input(n))
    BY <1>1, <1>3 DEF Start, Fresh, TypeOK
  <2>3. Accepts(S(n).link, Input(n))
    BY DEF Start
  <2>4. Input(n) \in Kernel
    BY <1>1, PatchAssumption DEF Input, TypeOK, OnDisk
  <2>5. Chained(S(n).link, InMay(may, n), may[f])
    BY <1>3 DEF ChainsSettled, S
  <2>6. Within(Input(n), InMay(may, n))
    <3>1. CASE S(n).linked
      BY <3>1 DEF Input, InMay, Within, S
    <3>2. CASE ~S(n).linked
      <4>1. disk[S(n).in].there /\ S(n).in \in File
        BY <1>1, <3>2 DEF Start, Guard
      <4> QED
        BY <3>2, <4>1 DEF Input, InMay, SlotsIn, S
    <3> QED
      BY <3>1, <3>2
  <2> QED
    BY <1>1, <2>1, <2>2, <2>3, <2>4, <2>5, <2>6 DEF Derived
<1>4. CASE f # S(n).out
  <2>1. Before(f) = disk[f].img
    BY <1>2, <1>4 DEF Before
  <2>2. disk'[f] = disk[f]
    BY <1>1, <1>4 DEF Start, TypeOK
  <2> QED
    BY <2>1, <2>2 DEF Untouched
<1> QED
  BY <1>3, <1>4

LEMMA DerivedStep ==
    ASSUME NEW may, NEW rank, ChainsSettled(may, rank), TypeOK, SlotsIn(may),
           Step, NEW f \in File
    PROVE  Derived(may, f) \/ Untouched(f)
<1>1. /\ job.on /\ AtStep /\ Out \in File /\ Patch \in Patches
      /\ Accepts(Patch, Image) /\ Image \in Kernel /\ disk[Out].there
      /\ job.name \in DOMAIN Script
  BY Running DEF Step, AtStep
<1>2. disk' = [disk EXCEPT ![Out] = [disk[Out] EXCEPT !.img = Effect(Patch, Image)]]
  BY DEF Step
<1>3. Before(f) = disk[f].img
  BY <1>1 DEF Before
<1>4. CASE f = Out
  <2>1. disk'[f].img = Effect(Patch, Image) /\ Before(f) = Image
    BY <1>1, <1>2, <1>3, <1>4 DEF TypeOK, OnDisk, Image
  <2>2. Within(Image, may[f])
    BY <1>1, <1>4 DEF SlotsIn, Image
  <2>3. job.pc \in DOMAIN S(job.name).steps
    <3>1. S(job.name).steps \in Seq(Patches)
      BY <1>1, ScriptAssumption DEF S
    <3> QED
      BY <1>1, <3>1, Running DEF AtStep
  <2>4. Chained(Patch, may[f], may[f])
    BY <1>1, <1>4, <2>3 DEF ChainsSettled, Patch, Out, S
  <2> QED
    BY <1>1, <2>1, <2>2, <2>4 DEF Derived
<1>5. CASE f # Out
  <2>1. disk'[f] = disk[f]
    BY <1>1, <1>2, <1>5 DEF TypeOK
  <2> QED
    BY <1>3, <2>1 DEF Untouched
<1> QED
  BY <1>4, <1>5

LEMMA DerivedHandRun ==
    ASSUME NEW may, NEW rank, ChainsSettled(may, rank), TypeOK, SlotsIn(may),
           NEW p \in Patcher, NEW g \in File, HandRun(p, g), NEW f \in File
    PROVE  Derived(may, f) \/ Untouched(f)
<1> DEFINE k == Effect(p, disk[g].img)
<1>1. p \in Patches /\ Accepts(p, disk[g].img) /\ disk[g].there /\ disk[g].img \in Kernel
  BY DEF Patches, HandRun, TypeOK, OnDisk
<1>2. Before(f) = disk[f].img
  BY DEF Before, HandRun
<1>3. disk' = [disk EXCEPT ![g] = [disk[g] EXCEPT !.img = k,
                                                 !.done = @ /\ k = disk[g].img]]
  BY DEF HandRun
<1>4. CASE f = g
  <2>1. disk'[f].img = k
    BY <1>3, <1>4 DEF TypeOK, OnDisk
  <2>2. Within(disk[f].img, may[f]) /\ Chained(p, may[f], may[f])
    BY <1>1, <1>4 DEF SlotsIn, ChainsSettled
  <2> QED
    BY <1>1, <1>2, <1>4, <2>1, <2>2 DEF Derived
<1>5. CASE f # g
  <2>1. disk'[f] = disk[f]
    BY <1>3, <1>5 DEF TypeOK
  <2> QED
    BY <1>2, <2>1 DEF Untouched
<1> QED
  BY <1>4, <1>5

\* The other actions leave every file where it is.
LEMMA OthersUntouched ==
    ASSUME TypeOK, Abort \/ Draw \/ Exhausted \/ StampId \/ Finish \/
                   Interrupt \/ NextDay \/ UNCHANGED vars, NEW f \in File
    PROVE  Untouched(f)
<1>1. disk'[f].img = disk[f].img
  BY SameImages
<1>2. disk'[f].there = disk[f].there
  <2>1. CASE StampId
    <3>1. disk' = [disk EXCEPT ![Out] = [disk[Out] EXCEPT !.id = <<seqfile.day, job.drawn>>]]
      BY <2>1 DEF StampId
    <3> QED
      BY <3>1 DEF TypeOK, OnDisk
  <2>2. CASE Finish
    <3>1. disk' = [disk EXCEPT ![Out] = [disk[Out] EXCEPT !.done = job.clean]]
      BY <2>2 DEF Finish
    <3> QED
      BY <3>1 DEF TypeOK, OnDisk
  <2> QED
    BY <2>1, <2>2 DEF Abort, Draw, Exhausted, Interrupt, NextDay, vars
<1>3. job.on \/ job' = job
  BY DEF Abort, Draw, Exhausted, StampId, Finish, Interrupt, NextDay, AtStep, vars
<1>4. Before(f) = disk[f].img
  BY <1>3 DEF Before
<1> QED
  BY <1>1, <1>2, <1>4 DEF Untouched

LEMMA EveryStepDerives ==
    ASSUME NEW may, NEW rank, ChainsSettled(may, rank), TypeOK, SlotsIn(may),
           [Next]_vars, NEW f \in File
    PROVE  Derived(may, f) \/ Untouched(f)
<1>1. ASSUME NEW n \in DOMAIN Script, Start(n) PROVE Derived(may, f) \/ Untouched(f)
  BY <1>1, DerivedStart
<1>2. CASE Step
  BY <1>2, DerivedStep
<1>3. ASSUME NEW p \in Patcher, NEW g \in File, HandRun(p, g)
      PROVE  Derived(may, f) \/ Untouched(f)
  BY <1>3, DerivedHandRun
<1>4. CASE Abort \/ Draw \/ Exhausted \/ StampId \/ Finish \/ Interrupt \/
           NextDay \/ UNCHANGED vars
  BY <1>4, OthersUntouched
<1> QED
  BY <1>1, <1>2, <1>3, <1>4 DEF Next, JobStep

LEMMA SlotsNext ==
    ASSUME NEW may, NEW rank, ChainsSettled(may, rank), TypeOK, SlotsIn(may), [Next]_vars
    PROVE  SlotsIn(may)'
<1> SUFFICES ASSUME NEW f \in File, disk'[f].there
             PROVE  Within(disk'[f].img, may[f])
    BY DEF SlotsIn, Within
<1>1. CASE Derived(may, f)
  BY <1>1, EffectWithin DEF Derived
<1>2. CASE Untouched(f)
  BY <1>2 DEF Untouched, SlotsIn
<1> QED
  BY <1>1, <1>2, EveryStepDerives

LEMMA HandlersNext ==
    ASSUME NEW may, NEW rank, ChainsSettled(may, rank), TypeOK, SlotsIn(may),
           [Next]_vars, NEW f \in File
    PROVE  Handlers(Before(f)) \subseteq Handlers(disk'[f].img)
<1>1. CASE Derived(may, f)
  BY <1>1, EffectKeepsHandlers DEF Derived
<1>2. CASE Untouched(f)
  BY <1>2 DEF Untouched
<1> QED
  BY <1>1, <1>2, EveryStepDerives

\* For every table of scripts and patchers for which there is a bound on the
\* symbols of each slot under which no patcher cuts a handler off
\* (ChainsSettled, a fact about one patcher and one file at a time): nothing
\* that is run, by a script or by hand and in whatever order, takes a handler
\* out of reach of the trap or hook it was reached from.
THEOREM HandlersStay ==
    ASSUME NEW CONSTANT may, NEW CONSTANT rank, ChainsSettled(may, rank)
    PROVE  Spec => HandlersKept
<1>1. Init => SlotsIn(may)
  BY SlotsInit
<1>2. TypeOK /\ SlotsIn(may) /\ [Next]_vars => SlotsIn(may)'
  BY SlotsNext
<1>3. TypeOK /\ SlotsIn(may) /\ [Next]_vars =>
          [\A f \in File : Handlers(Before(f)) \subseteq Handlers(disk'[f].img)]_vars
  BY HandlersNext
<1> QED
  BY <1>1, <1>2, <1>3, BuildTypeCorrect, PTL DEF Spec, HandlersKept

----------------------------------------------------------------------------
(* Finished kernels as sets of features.                                   *)

\* A patcher that puts nothing back keeps every conversion and makes its own.
LEMMA EffectKeepsConv ==
    ASSUME NEW p \in Patches, NEW k \in Kernel, p.reverts \cap Units = {}
    PROVE  k.conv \subseteq Effect(p, k).conv /\ p.writes \subseteq Effect(p, k).conv
<1>1. k.conv \subseteq Units /\ p.writes \subseteq Units
  BY DEF Kernel, Units
<1>2. CASE AlreadyDone(p, k)
  BY <1>2 DEF Effect, AlreadyDone, InPlace
<1>3. CASE ~AlreadyDone(p, k)
  BY <1>1, <1>3, EffectParts
<1> QED
  BY <1>2, <1>3

\* What the steps so far of a base link put into its image, and what a pass
\* has kept of its input.
LinkMade ==
    S(job.name).linked =>
        \A i \in 1 .. job.pc - 1 : LET p == S(job.name).steps[i] IN
            ~p.stamp => /\ p.writes \subseteq Image.conv
                        /\ \A s \in Entry \cap DOMAIN p.links :
                              p.links[s].to \in Handler => p.links[s].to \in Handlers(Image)
PassKept ==
    ~S(job.name).linked =>
        /\ Finished(S(job.name).in)
        /\ disk[S(job.name).in].img.conv \subseteq Image.conv
        /\ Handlers(disk[S(job.name).in].img) \subseteq Handlers(Image)
FilesPorted == \A f \in File : Finished(f) => HasPort(disk[f].img)
PortInv == FilesPorted /\ (job.on /\ job.clean => LinkMade /\ PassKept)

\* All the invariants this section needs.
AllInv(may) == TypeOK /\ QuietInv /\ SlotsIn(may) /\ PortInv

LEMMA AllInit ==
    ASSUME NEW may, NEW rank, ChainsSettled(may, rank), Init
    PROVE  AllInv(may)
<1>1. ~job.on
  BY NoJobIsIdle DEF Init
<1>2. FilesPorted
  BY PortAssumption DEF Init, FilesPorted, Finished
<1> QED
  BY <1>1, <1>2, TypeInit, QuietInit, SlotsInit DEF AllInv, PortInv

\* The file the running script reads is not the one it writes.
LEMMA InputElsewhere ==
    ASSUME NEW n \in DOMAIN Script
    PROVE  S(n).out \in File /\ (~S(n).linked => S(n).in \in File \ {S(n).out})
BY ScriptAssumption DEF S

LEMMA PortStart ==
    ASSUME NEW may, NEW rank, ChainsSettled(may, rank), AllInv(may),
           NEW n \in DOMAIN Script, Start(n)
    PROVE  PortInv'
<1> DEFINE o == S(n).out
<1>1. TypeOK /\ FilesPorted /\ SlotsIn(may)
  BY DEF AllInv, PortInv
<1>2. /\ o \in File /\ (~S(n).linked => S(n).in \in File \ {o})
      /\ S(n).link \in Patches
  BY InputElsewhere, StepsArePatches DEF S
<1>3. disk'[o] = Fresh(n) /\ \A f \in File \ {o} : disk'[f] = disk[f]
  BY <1>1, <1>2 DEF Start, TypeOK
<1>4. /\ job'.on /\ job'.name = n /\ job'.pc = 1 /\ ~job.on
      /\ job'.clean => S(n).linked \/ Finished(S(n).in)
  BY DEF Start
<1>5. disk'[o].img = Effect(S(n).link, Input(n)) /\ ~disk'[o].done
  BY <1>3 DEF Fresh
<1>6. FilesPorted'
  BY <1>1, <1>3, <1>5 DEF FilesPorted, Finished
<1>7. LinkMade'
  BY <1>4 DEF LinkMade
<1>8. ASSUME job'.clean PROVE PassKept'
  <2> SUFFICES ASSUME ~S(n).linked
               PROVE  /\ Finished(S(n).in)'
                      /\ disk'[S(n).in].img.conv \subseteq disk'[o].img.conv
                      /\ Handlers(disk'[S(n).in].img) \subseteq Handlers(disk'[o].img)
      BY <1>4 DEF PassKept, Image, Out
  <2>1. disk'[S(n).in] = disk[S(n).in] /\ Input(n) = disk[S(n).in].img
    BY <1>2, <1>3 DEF Input
  <2>2. Finished(S(n).in)
    BY <1>4, <1>8
  <2>3. disk[S(n).in].img.conv \subseteq disk'[o].img.conv
    <3>1. Input(n) \in Kernel
      BY <1>1, <1>2, <2>1 DEF TypeOK, OnDisk
    <3>2. S(n).link.reverts \cap Units = {}
      BY PortAssumption DEF S
    <3> QED
      BY <1>2, <1>5, <2>1, <3>1, <3>2, EffectKeepsConv
  <2>4. Handlers(disk[S(n).in].img) \subseteq Handlers(disk'[o].img)
    <3>1. Before(o) = disk[S(n).in].img
      BY <1>4, <2>1 DEF Before
    <3>2. [Next]_vars
      BY DEF Next
    <3> QED
      BY <1>1, <1>2, <3>1, <3>2, HandlersNext
  <2> QED
    BY <2>1, <2>2, <2>3, <2>4 DEF Finished
<1> QED
  BY <1>6, <1>7, <1>8 DEF PortInv

LEMMA PortStep ==
    ASSUME NEW may, NEW rank, ChainsSettled(may, rank), AllInv(may), Step
    PROVE  PortInv'
<1>1. TypeOK /\ PortInv /\ SlotsIn(may)
  BY DEF AllInv
<1>2. /\ job.on /\ AtStep /\ Out \in File /\ Patch \in Patches
      /\ Accepts(Patch, Image) /\ Image \in Kernel
      /\ disk[Out].there /\ ~disk[Out].done
      /\ job.name \in DOMAIN Script /\ job.pc \in Nat \ {0}
  BY <1>1, Running DEF Step, AtStep
<1>3. disk' = [disk EXCEPT ![Out] = [disk[Out] EXCEPT !.img = Effect(Patch, Image)]]
  BY DEF Step
<1>4. /\ disk'[Out].img = Effect(Patch, Image) /\ ~disk'[Out].done
      /\ \A f \in File \ {Out} : disk'[f] = disk[f]
  BY <1>1, <1>2, <1>3 DEF TypeOK, OnDisk
<1>5. /\ job'.on /\ job'.name = job.name /\ job'.pc = job.pc + 1
      /\ job'.clean = job.clean
  BY <1>1, <1>2 DEF Step, TypeOK, JobType
<1>6. Out' = Out /\ Image' = Effect(Patch, Image)
  BY <1>4, <1>5 DEF Out, Image
<1>7. FilesPorted'
  BY <1>1, <1>4 DEF PortInv, FilesPorted, Finished
<1>8. job.pc \in DOMAIN S(job.name).steps
  <2>1. S(job.name).steps \in Seq(Patches)
    BY <1>2, ScriptAssumption DEF S
  <2> QED
    BY <1>2, <2>1 DEF AtStep
<1>9. Image.conv \subseteq Image'.conv /\ Patch.writes \subseteq Image'.conv
  <2>1. Patch.reverts \cap Units = {}
    BY <1>2, <1>8, PortAssumption DEF Patch, S
  <2> QED
    BY <1>2, <1>6, <2>1, EffectKeepsConv
<1>10. Handlers(Image) \subseteq Handlers(Image')
  <2>1. [Next]_vars /\ Before(Out) = Image
    BY <1>2 DEF Next, JobStep, Before, Image
  <2>2. disk'[Out].img = Image'
    BY <1>4, <1>6
  <2> QED
    BY <1>1, <1>2, <2>1, <2>2, HandlersNext
<1>11. Closed(Image', Handlers(Image'))
  <2>1. SlotsIn(may)'
    <3>1. [Next]_vars
      BY DEF Next, JobStep
    <3> QED
      BY <1>1, <3>1, SlotsNext
  <2>2. disk'[Out].there /\ disk'[Out].img = Image'
    BY <1>1, <1>2, <1>3, <1>4, <1>6 DEF TypeOK, OnDisk
  <2>3. Within(Image', may[Out])
    BY <1>2, <2>1, <2>2 DEF SlotsIn
  <2> QED
    BY <1>2, <2>3, WithinRanked, SettledBounds, HandlersClosed
<1>12. ASSUME job.clean PROVE LinkMade'
  <2> SUFFICES ASSUME S(job.name).linked, NEW i \in 1 .. job.pc,
                      ~S(job.name).steps[i].stamp
               PROVE  /\ S(job.name).steps[i].writes \subseteq Image'.conv
                      /\ \A s \in Entry \cap DOMAIN S(job.name).steps[i].links :
                            S(job.name).steps[i].links[s].to \in Handler =>
                            S(job.name).steps[i].links[s].to \in Handlers(Image')
    <3>1. 1 .. job'.pc - 1 = 1 .. job.pc
      BY <1>2, <1>5
    <3> QED
      BY <1>5, <3>1 DEF LinkMade, Handlers
  <2>1. CASE i # job.pc
    <3>1. i \in 1 .. job.pc - 1
      BY <1>2, <2>1
    <3> QED
      BY <1>1, <1>2, <1>9, <1>10, <1>12, <3>1 DEF PortInv, LinkMade
  <2>2. CASE i = job.pc
    <3>1. S(job.name).steps[i] = Patch
      BY <2>2 DEF Patch
    <3>2. ASSUME NEW s \in Entry \cap DOMAIN Patch.links, Patch.links[s].to \in Handler
          PROVE  Patch.links[s].to \in Handlers(Image')
      <4>1. OneHandler(Patch)
        BY <1>2, <1>8 DEF ChainsSettled, Chained, Patch, S
      <4>2. Image'.slot[s] = Patch.links[s].to
        BY <1>2, <1>6, <4>1, EffectSlots
      <4> QED
        BY <1>11, <3>2, <4>2 DEF Closed
    <3> QED
      BY <1>9, <3>1, <3>2
  <2> QED
    BY <2>1, <2>2
<1>13. ASSUME job.clean PROVE PassKept'
  <2> SUFFICES ASSUME ~S(job.name).linked
               PROVE  /\ Finished(S(job.name).in)'
                      /\ disk'[S(job.name).in].img.conv \subseteq Image'.conv
                      /\ Handlers(disk'[S(job.name).in].img) \subseteq Handlers(Image')
      BY <1>5 DEF PassKept
  <2>1. disk'[S(job.name).in] = disk[S(job.name).in]
    BY <1>2, <1>4, InputElsewhere DEF Out
  <2>2. PassKept
    BY <1>1, <1>2, <1>13 DEF PortInv
  <2>3. /\ disk[S(job.name).in].img.conv \subseteq Image.conv
        /\ Handlers(disk[S(job.name).in].img) \subseteq Handlers(Image)
    BY <2>2 DEF PassKept
  <2>4. Finished(S(job.name).in)'
    BY <1>5, <2>1, <2>2 DEF PassKept, Finished
  <2>5. disk'[S(job.name).in].img.conv \subseteq Image'.conv
    BY <1>9, <2>1, <2>3
  <2>6. Handlers(disk'[S(job.name).in].img) \subseteq Handlers(Image')
    <3>1. Handlers(disk'[S(job.name).in].img) = Handlers(disk[S(job.name).in].img)
      BY <2>1
    <3> QED
      BY <1>10, <2>3, <3>1
  <2> QED
    BY <2>4, <2>5, <2>6
<1> QED
  BY <1>5, <1>7, <1>12, <1>13 DEF PortInv

\* Nothing finishes, the images stay, and the running script goes on at the
\* same place or past a stamp, or is over.
LEMMA PortSame ==
    ASSUME TypeOK, PortInv,
           \A f \in File : /\ disk'[f].img = disk[f].img
                           /\ disk'[f].there /\ disk'[f].done => Finished(f),
           job'.on => /\ job.on /\ job'.name = job.name /\ job'.clean = job.clean
                      /\ ~S(job.name).linked => disk'[S(job.name).in] = disk[S(job.name).in]
                      /\ \/ job'.pc = job.pc
                         \/ /\ job'.pc = job.pc + 1
                            /\ S(job.name).steps[job.pc].stamp
    PROVE  PortInv'
<1>1. FilesPorted'
  <2> SUFFICES ASSUME NEW f \in File, Finished(f)' PROVE HasPort(disk'[f].img)
    BY DEF FilesPorted
  <2>1. disk'[f].img = disk[f].img /\ Finished(f)
    BY DEF Finished
  <2>2. HasPort(disk[f].img)
    BY <2>1 DEF PortInv, FilesPorted
  <2> QED
    BY <2>1, <2>2
<1>2. ASSUME job'.on, job'.clean PROVE LinkMade' /\ PassKept'
  <2>1. /\ job.on /\ LinkMade /\ PassKept /\ job'.name = job.name
        /\ job.name \in DOMAIN Script /\ Out \in File /\ job.pc \in Nat \ {0}
    BY <1>2, Running DEF PortInv
  <2>2. Image' = Image
    BY <2>1 DEF Image, Out
  <2>3. LinkMade'
    <3>1. \A i \in 1 .. job'.pc - 1 : i \in 1 .. job.pc - 1 \/ S(job.name).steps[i].stamp
      BY <1>2, <2>1
    <3>2. Handlers(Image') = Handlers(Image)
      BY <2>2
    <3> QED
      BY <2>1, <2>2, <3>1, <3>2 DEF LinkMade
  <2>4. PassKept'
    <3> SUFFICES ASSUME ~S(job.name).linked
                 PROVE  /\ Finished(S(job.name).in)'
                        /\ disk'[S(job.name).in].img.conv \subseteq Image'.conv
                        /\ Handlers(disk'[S(job.name).in].img) \subseteq Handlers(Image')
      BY <2>1 DEF PassKept
    <3>1. disk'[S(job.name).in] = disk[S(job.name).in]
      BY <1>2
    <3>2. Finished(S(job.name).in)'
      BY <2>1, <3>1 DEF PassKept, Finished
    <3>3. /\ Handlers(disk'[S(job.name).in].img) = Handlers(disk[S(job.name).in].img)
          /\ Handlers(Image') = Handlers(Image)
      BY <2>2, <3>1
    <3> QED
      BY <2>1, <2>2, <3>1, <3>2, <3>3 DEF PassKept
  <2> QED
    BY <2>3, <2>4
<1> QED
  BY <1>1, <1>2 DEF PortInv

\* What a script reports built, started from a finished kernel or from none,
\* has the port.
LEMMA BuiltHasPort ==
    ASSUME TypeOK, QuietInv, PortInv, job.on, job.clean, ~AtStep
    PROVE  HasPort(Image)
<1>1. /\ job.name \in DOMAIN Script /\ LinkMade /\ PassKept
      /\ job.pc \in Nat \ {0} /\ Len(S(job.name).steps) \in Nat
  BY Running DEF PortInv
<1>2. CASE S(job.name).linked
  <2>1. job.pc = Len(S(job.name).steps) + 1
    BY <1>1 DEF AtStep, TypeOK
  <2>2. DOMAIN S(job.name).steps = 1 .. job.pc - 1
    BY <1>1, <2>1, ScriptAssumption DEF S
  <2>3. \A i \in DOMAIN S(job.name).steps : ~Fails(job.name, i)
    BY <2>2 DEF QuietInv, JobMade
  <2>4. Ports(job.name)
    BY <1>1, <1>2, <2>3, PortAssumption DEF S
  <2> DEFINE run == {i \in DOMAIN S(job.name).steps : ~S(job.name).steps[i].stamp}
  <2>5. \A i \in run :
            /\ S(job.name).steps[i].writes \subseteq Image.conv
            /\ \A s \in Entry \cap DOMAIN S(job.name).steps[i].links :
                  S(job.name).steps[i].links[s].to \in Handler =>
                  S(job.name).steps[i].links[s].to \in Handlers(Image)
    BY <1>1, <1>2, <2>2 DEF LinkMade
  <2>6. Port.conv \subseteq Image.conv
    <3>1. Port.conv \subseteq UNION {S(job.name).steps[i].writes : i \in run}
      BY <2>4 DEF Ports, S
    <3> QED
      BY <2>5, <3>1
  <2>7. Port.reach \subseteq Handlers(Image)
    <3> SUFFICES ASSUME NEW h \in Port.reach PROVE h \in Handlers(Image)
      OBVIOUS
    <3>1. h \in Handler /\
          \E i \in run : \E s \in Entry \cap DOMAIN S(job.name).steps[i].links :
              S(job.name).steps[i].links[s].to = h
      BY <2>4 DEF Ports, Handler, S
    <3> QED
      BY <2>5, <3>1
  <2> QED
    BY <2>6, <2>7 DEF HasPort
<1>3. CASE ~S(job.name).linked
  <2>1. S(job.name).in \in File
    BY <1>1, <1>3, InputElsewhere
  <2>2. HasPort(disk[S(job.name).in].img)
    BY <1>1, <1>3, <2>1 DEF PassKept, PortInv, FilesPorted
  <2> QED
    BY <1>1, <1>3, <2>2 DEF PassKept, HasPort
<1> QED
  BY <1>2, <1>3

LEMMA PortFinish ==
    ASSUME TypeOK, QuietInv, PortInv, Finish
    PROVE  PortInv'
<1>1. job.on /\ Out \in File
  BY Running DEF Finish
<1>2. disk' = [disk EXCEPT ![Out] = [disk[Out] EXCEPT !.done = job.clean]]
  BY DEF Finish
<1>3. ~job'.on
  BY NoJobIsIdle DEF Finish, Ended, NoJob
<1>4. FilesPorted'
  <2> SUFFICES ASSUME NEW f \in File, Finished(f)' PROVE HasPort(disk'[f].img)
    BY DEF FilesPorted
  <2>1. CASE f = Out
    <3>1. disk'[f].img = Image /\ job.clean
      BY <1>1, <1>2, <2>1 DEF Finished, TypeOK, OnDisk, Image
    <3>2. HasPort(Image)
      BY <1>1, <3>1, BuiltHasPort DEF Finish
    <3> QED
      BY <3>1, <3>2
  <2>2. CASE f # Out
    <3>1. disk'[f] = disk[f]
      BY <1>2, <2>2 DEF TypeOK
    <3> QED
      BY <3>1 DEF Finished, PortInv, FilesPorted
  <2> QED
    BY <2>1, <2>2
<1> QED
  BY <1>3, <1>4 DEF PortInv

LEMMA PortHandRun ==
    ASSUME TypeOK, PortInv, NEW p \in Patcher, NEW f \in File, HandRun(p, f)
    PROVE  PortInv'
<1> DEFINE k == Effect(p, disk[f].img)
<1>1. disk' = [disk EXCEPT ![f] = [disk[f] EXCEPT !.img = k,
                                                 !.done = @ /\ k = disk[f].img]]
  BY DEF HandRun
<1>2. ~job'.on
  BY DEF HandRun
<1>3. FilesPorted'
  <2> SUFFICES ASSUME NEW g \in File, Finished(g)' PROVE HasPort(disk'[g].img)
    BY DEF FilesPorted
  <2>1. disk'[g].img = disk[g].img /\ Finished(g)
    BY <1>1 DEF Finished, TypeOK, OnDisk
  <2> QED
    BY <2>1 DEF PortInv, FilesPorted
<1> QED
  BY <1>2, <1>3 DEF PortInv

LEMMA PortStampId == ASSUME TypeOK, PortInv, StampId PROVE PortInv'
<1>1. /\ job.on /\ Out \in File /\ job.name \in DOMAIN Script
      /\ S(job.name).steps[job.pc].stamp
  BY Running DEF StampId, AtStep, Patch
<1>2. disk' = [disk EXCEPT ![Out] = [disk[Out] EXCEPT !.id = <<seqfile.day, job.drawn>>]]
  BY DEF StampId
<1>3. \A f \in File : /\ disk'[f].img = disk[f].img
                      /\ disk'[f].there = disk[f].there /\ disk'[f].done = disk[f].done
                      /\ f # Out => disk'[f] = disk[f]
  BY <1>2 DEF TypeOK, OnDisk
<1>4. /\ job'.on /\ job'.name = job.name /\ job'.clean = job.clean
      /\ job'.pc = job.pc + 1
  BY <1>1 DEF StampId, TypeOK, JobType
<1>5. ~S(job.name).linked => disk'[S(job.name).in] = disk[S(job.name).in]
  <2> SUFFICES ASSUME ~S(job.name).linked
               PROVE  disk'[S(job.name).in] = disk[S(job.name).in]
    OBVIOUS
  <2>1. S(job.name).in \in File \ {Out}
    BY <1>1, InputElsewhere DEF Out
  <2> QED
    BY <1>3, <2>1
<1>6. \A f \in File : /\ disk'[f].img = disk[f].img
                      /\ disk'[f].there /\ disk'[f].done => Finished(f)
  BY <1>3 DEF Finished
<1> QED
  BY <1>1, <1>4, <1>5, <1>6, PortSame

LEMMA AllNext ==
    ASSUME NEW may, NEW rank, ChainsSettled(may, rank), AllInv(may), [Next]_vars
    PROVE  AllInv(may)'
<1>1. TypeOK /\ QuietInv /\ SlotsIn(may) /\ PortInv
  BY DEF AllInv
<1>2. ASSUME NEW n \in DOMAIN Script, Start(n) PROVE PortInv'
  BY <1>2, PortStart
<1>3. ASSUME Step PROVE PortInv'
  BY <1>3, PortStep
<1>4. ASSUME NEW p \in Patcher, NEW f \in File, HandRun(p, f) PROVE PortInv'
  BY <1>1, <1>4, PortHandRun
<1>5. ASSUME Abort \/ Exhausted \/ Interrupt PROVE PortInv'
  <2>1. disk' = disk /\ ~job'.on
    BY <1>5, NoJobIsIdle DEF Abort, AfterRefusal, Exhausted, Interrupt, Ended, NoJob
  <2>2. \A f \in File : /\ disk'[f].img = disk[f].img
                        /\ disk'[f].there /\ disk'[f].done => Finished(f)
    BY <2>1 DEF Finished
  <2> QED
    BY <1>1, <2>1, <2>2, PortSame
<1>6. ASSUME Draw \/ NextDay \/ UNCHANGED vars PROVE PortInv'
  <2>1. /\ disk' = disk /\ job'.on = job.on /\ job'.name = job.name
        /\ job'.pc = job.pc /\ job'.clean = job.clean
    BY <1>1, <1>6 DEF Draw, NextDay, vars, TypeOK, JobType
  <2>2. \A f \in File : /\ disk'[f].img = disk[f].img
                        /\ disk'[f].there /\ disk'[f].done => Finished(f)
    BY <2>1 DEF Finished
  <2> QED
    BY <1>1, <2>1, <2>2, PortSame
<1>7. ASSUME StampId PROVE PortInv'
  BY <1>1, <1>7, PortStampId
<1>8. ASSUME Finish PROVE PortInv'
  BY <1>1, <1>8, PortFinish
<1>9. PortInv'
  BY <1>2, <1>3, <1>4, <1>5, <1>6, <1>7, <1>8 DEF Next, JobStep
<1> QED
  BY <1>1, <1>9, TypeNext, QuietNext, SlotsNext DEF AllInv

----------------------------------------------------------------------------
(* Every step is a withdrawal, a release, or nothing, of the set of        *)
(* finished kernels.                                                       *)

\* What a file counts for, and the whole set of them.
Shown(f) == IF Finished(f) THEN [done |-> TRUE, has |-> Features(disk[f].img)]
                           ELSE Withdrawn
FinishedSet == [f \in File |-> Shown(f)]

LEMMA ShownStays ==
    ASSUME NEW f \in File, \/ disk'[f] = disk[f]
                           \/ ~Finished(f) /\ ~Finished(f)'
                           \/ /\ disk'[f].img = disk[f].img
                              /\ disk'[f].there = disk[f].there
                              /\ disk'[f].done = disk[f].done
    PROVE  Shown(f)' = Shown(f)
<1>1. CASE ~Finished(f) /\ ~Finished(f)'
  BY <1>1 DEF Shown, Withdrawn
<1>2. CASE /\ disk'[f].img = disk[f].img
           /\ disk'[f].there = disk[f].there
           /\ disk'[f].done = disk[f].done
  <2>1. Features(disk'[f].img) = Features(disk[f].img)
    BY <1>2
  <2>2. Finished(f)' = Finished(f)
    BY <1>2 DEF Finished
  <2> QED
    BY <2>1, <2>2 DEF Shown, Withdrawn
<1> QED
  BY <1>1, <1>2

LEMMA SetStays ==
    ASSUME \A f \in File : Shown(f)' = Shown(f)
    PROVE  FinishedSet' = FinishedSet
BY DEF FinishedSet

LEMMA SetDone ==
    ASSUME NEW f \in File
    PROVE  FinishedSet[f].done = Finished(f)
BY DEF FinishedSet, Shown, Withdrawn, Finished

\* One file stops being finished.
LEMMA SetWithdraws ==
    ASSUME NEW f \in File, ~Finished(f)', \A g \in File \ {f} : Shown(g)' = Shown(g)
    PROVE  \/ FinishedSet' = FinishedSet
           \/ /\ Finished(f)
              /\ FinishedSet' = [FinishedSet EXCEPT ![f] = Withdrawn]
<1>1. Shown(f)' = Withdrawn
  BY DEF Shown
<1>2. CASE Finished(f)
  BY <1>1, <1>2 DEF FinishedSet
<1>3. CASE ~Finished(f)
  <2>1. Shown(f) = Withdrawn
    BY <1>3 DEF Shown
  <2> QED
    BY <1>1, <2>1 DEF FinishedSet
<1> QED
  BY <1>2, <1>3

\* A script that starts withdraws the kernel it overwrites.
LEMMA StartWithdraws ==
    ASSUME TypeOK, NEW n \in DOMAIN Script, Start(n)
    PROVE  \/ FinishedSet' = FinishedSet
           \/ \E f \in File : /\ Finished(f)
                              /\ FinishedSet' = [FinishedSet EXCEPT ![f] = Withdrawn]
<1> DEFINE o == S(n).out
<1>1. o \in File
  BY InputElsewhere
<1>2. disk'[o] = Fresh(n) /\ \A g \in File \ {o} : disk'[g] = disk[g]
  BY <1>1 DEF Start, TypeOK
<1>3. ~Finished(o)'
  BY <1>2 DEF Fresh, Finished
<1>4. \A g \in File \ {o} : Shown(g)' = Shown(g)
  BY <1>2, ShownStays
<1> QED
  BY <1>1, <1>3, <1>4, SetWithdraws

\* A patcher run by hand withdraws the finished kernel it changes.
LEMMA HandRunWithdraws ==
    ASSUME TypeOK, NEW p \in Patcher, NEW f \in File, HandRun(p, f)
    PROVE  \/ FinishedSet' = FinishedSet
           \/ \E g \in File : /\ Finished(g)
                              /\ FinishedSet' = [FinishedSet EXCEPT ![g] = Withdrawn]
<1> DEFINE k == Effect(p, disk[f].img)
<1>1. disk' = [disk EXCEPT ![f] = [disk[f] EXCEPT !.img = k,
                                                 !.done = @ /\ k = disk[f].img]]
  BY DEF HandRun
<1>2. \A g \in File \ {f} : disk'[g] = disk[g]
  BY <1>1 DEF TypeOK
<1>3. \A g \in File \ {f} : Shown(g)' = Shown(g)
  BY <1>2, ShownStays
<1>4. /\ disk'[f].img = k
      /\ disk'[f].there = disk[f].there
      /\ disk'[f].done = (disk[f].done /\ k = disk[f].img)
  BY <1>1 DEF TypeOK, OnDisk
<1>5. CASE Finished(f)'
  <2>1. /\ disk'[f].img = disk[f].img
        /\ disk'[f].there = disk[f].there
        /\ disk'[f].done = disk[f].done
    <3>1. disk'[f].done /\ disk[f].done \in BOOLEAN
      BY <1>5 DEF Finished, TypeOK, OnDisk
    <3> QED
      BY <1>4, <3>1
  <2>2. Shown(f)' = Shown(f)
    BY <2>1, ShownStays
  <2> QED
    BY <1>3, <2>2, SetStays
<1>6. CASE ~Finished(f)'
  BY <1>3, <1>6, SetWithdraws
<1> QED
  BY <1>5, <1>6

\* A script that reports success started from a finished kernel, or releases
\* nothing; what it releases keeps what that kernel has.
LEMMA FinishReleases ==
    ASSUME NEW may, AllInv(may), Finish
    PROVE  \/ FinishedSet' = FinishedSet
           \/ /\ Out \in File /\ ~Finished(Out)
              /\ FinishedSet' = [FinishedSet EXCEPT ![Out] =
                                   [done |-> TRUE, has |-> Features(Image)]]
              /\ HasPort(Image)
              /\ From[Out] # "stock" =>
                    /\ From[Out] \in File /\ Finished(From[Out])
                    /\ disk[From[Out]].img.conv \subseteq Image.conv
                    /\ Handlers(disk[From[Out]].img) \subseteq Handlers(Image)
<1>1. TypeOK /\ QuietInv /\ PortInv
  BY DEF AllInv
<1>2. /\ job.on /\ ~AtStep /\ Out \in File /\ job.name \in DOMAIN Script
      /\ disk[Out].there /\ ~disk[Out].done
  BY <1>1, Running DEF Finish
<1>3. disk' = [disk EXCEPT ![Out] = [disk[Out] EXCEPT !.done = job.clean]]
  BY DEF Finish
<1>4. /\ disk'[Out].img = Image /\ disk'[Out].there /\ disk'[Out].done = job.clean
      /\ \A f \in File \ {Out} : disk'[f] = disk[f]
  BY <1>1, <1>2, <1>3 DEF TypeOK, OnDisk, Image
<1>5. \A f \in File \ {Out} : Shown(f)' = Shown(f)
  BY <1>4, ShownStays
<1>6. ~Finished(Out)
  BY <1>2 DEF Finished
<1>7. CASE ~job.clean
  <2>1. ~(disk'[Out].there /\ disk'[Out].done)
    BY <1>4, <1>7
  <2>2. PICK o \in File : o = Out
    BY <1>2
  <2>3. ~Finished(o)'
    BY <1>3, <1>4, <1>7, <2>2 DEF Finished
  <2>4. \A f \in File : Shown(f)' = Shown(f)
    BY <1>5, <1>6, <2>2, <2>3, ShownStays
  <2> QED
    BY <2>4, SetStays
<1>8. CASE job.clean
  <2>1. HasPort(Image)
    BY <1>1, <1>2, <1>8, BuiltHasPort
  <2>2. PICK o \in File : o = Out
    BY <1>2
  <2>3. Shown(o)' = [done |-> TRUE, has |-> Features(Image)]
    <3>1. Finished(o)'
      BY <1>4, <1>8, <2>2 DEF Finished
    <3>2. disk'[o].img = Image
      BY <1>4, <2>2
    <3>3. Features(disk'[o].img) = Features(Image)
      BY <3>2
    <3> QED
      BY <3>1, <3>3 DEF Shown
  <2>4. FinishedSet' = [FinishedSet EXCEPT ![Out] =
                          [done |-> TRUE, has |-> Features(Image)]]
    BY <1>5, <2>2, <2>3 DEF FinishedSet
  <2>5. ASSUME From[Out] # "stock"
        PROVE  From[Out] = S(job.name).in /\ ~S(job.name).linked
    <3> DEFINE n == CHOOSE m \in DOMAIN Script : S(m).out = Out
    <3>1. n \in DOMAIN Script /\ S(n).out = S(job.name).out
      BY <1>2 DEF Out
    <3>2. From[Out] = IF S(n).linked THEN "stock" ELSE S(n).in
      BY <1>2 DEF From
    <3> HIDE DEF n
    <3>3. ~S(n).linked
      BY <2>5, <3>2
    <3> QED
      BY <1>2, <3>1, <3>2, <3>3, PortAssumption DEF S
  <2>6. ASSUME From[Out] # "stock"
        PROVE  /\ From[Out] \in File /\ Finished(From[Out])
               /\ disk[From[Out]].img.conv \subseteq Image.conv
               /\ Handlers(disk[From[Out]].img) \subseteq Handlers(Image)
    <3>1. From[Out] = S(job.name).in /\ ~S(job.name).linked
      BY <2>5, <2>6
    <3>2. PassKept /\ S(job.name).in \in File
      BY <1>1, <1>2, <1>8, <3>1, InputElsewhere DEF PortInv
    <3> QED
      BY <3>1, <3>2 DEF PassKept
  <2> QED
    BY <1>2, <1>6, <2>1, <2>4, <2>6
<1> QED
  BY <1>7, <1>8

\* The refinement mapping of ImageBuild is FinishedSet.
LEMMA WithdrawIsAllowed ==
    ASSUME NEW f \in File, Finished(f),
           FinishedSet' = [FinishedSet EXCEPT ![f] = Withdrawn]
    PROVE  Kernels!Next
<1>1. FinishedSet[f].done
  BY DEF FinishedSet, Shown
<1>2. Kernels!Withdraw(f)
  BY <1>1 DEF Kernels!Withdraw, Kernels!Nothing, Withdrawn, FinishedSet, Shown
<1> QED
  BY <1>2 DEF Kernels!Next

LEMMA ReleaseIsAllowed ==
    ASSUME NEW f \in File, NEW k, ~Finished(f), HasPort(k),
           FinishedSet' = [FinishedSet EXCEPT ![f] = [done |-> TRUE, has |-> Features(k)]],
           From[f] # "stock" =>
               /\ From[f] \in File /\ Finished(From[f])
               /\ disk[From[f]].img.conv \subseteq k.conv
               /\ Handlers(disk[From[f]].img) \subseteq Handlers(k)
    PROVE  Kernels!Next
<1> DEFINE now == [done |-> TRUE, has |-> Features(k)]
<1>1. ~FinishedSet[f].done /\ FinishedSet'[f] = now
  BY DEF FinishedSet, Shown, Withdrawn
<1>2. /\ FinishedSet'[f].done
      /\ FinishedSet' = [FinishedSet EXCEPT ![f] = FinishedSet'[f]]
  <2>1. FinishedSet' = [FinishedSet EXCEPT ![f] = now]
    OBVIOUS
  <2>2. now.done
    OBVIOUS
  <2> HIDE DEF now
  <2> QED
    BY <1>1, <2>1, <2>2
<1>3. Port.conv \subseteq FinishedSet'[f].has.conv /\ Port.reach \subseteq FinishedSet'[f].has.reach
  BY <1>1 DEF HasPort, Features
<1>4. ASSUME From[f] # "stock"
      PROVE  /\ FinishedSet[From[f]].done
             /\ FinishedSet[From[f]].has.conv \subseteq FinishedSet'[f].has.conv
             /\ FinishedSet[From[f]].has.reach \subseteq FinishedSet'[f].has.reach
  <2>1. FinishedSet[From[f]] = [done |-> TRUE, has |-> Features(disk[From[f]].img)]
    BY <1>4 DEF FinishedSet, Shown
  <2> QED
    BY <1>1, <1>4, <2>1 DEF Features
<1>5. Kernels!Release(f)
  BY <1>1, <1>2, <1>3, <1>4 DEF Kernels!Release, Kernels!Covers, FinishedSet, Shown
<1> QED
  BY <1>5 DEF Kernels!Next

LEMMA StepsOfTheSet ==
    ASSUME NEW may, AllInv(may), [Next]_vars
    PROVE  Kernels!Next \/ FinishedSet' = FinishedSet
<1>1. TypeOK
  BY DEF AllInv
<1>2. ASSUME NEW n \in DOMAIN Script, Start(n)
      PROVE  Kernels!Next \/ FinishedSet' = FinishedSet
  BY <1>1, <1>2, StartWithdraws, WithdrawIsAllowed
<1>3. ASSUME NEW p \in Patcher, NEW f \in File, HandRun(p, f)
      PROVE  Kernels!Next \/ FinishedSet' = FinishedSet
  BY <1>1, <1>3, HandRunWithdraws, WithdrawIsAllowed
<1>4. CASE Finish
  BY <1>4, FinishReleases, ReleaseIsAllowed
<1>5. CASE Step
  <2>1. disk' = [disk EXCEPT ![Out] = [disk[Out] EXCEPT !.img = Effect(Patch, Image)]]
    BY <1>5 DEF Step
  <2>2. ~disk[Out].done
    BY <1>1, <1>5, Running DEF Step, AtStep
  <2>3. \A f \in File : disk'[f] = disk[f] \/ (~disk[f].done /\ ~disk'[f].done)
    BY <1>1, <2>1, <2>2 DEF TypeOK, OnDisk
  <2>4. \A f \in File : Shown(f)' = Shown(f)
    <3> SUFFICES ASSUME NEW f \in File PROVE Shown(f)' = Shown(f)
      OBVIOUS
    <3>1. CASE disk'[f] = disk[f]
      BY <3>1, ShownStays
    <3>2. CASE ~disk[f].done /\ ~disk'[f].done
      <4>1. ~Finished(f) /\ ~Finished(f)'
        BY <3>2 DEF Finished
      <4> QED
        BY <4>1, ShownStays
    <3> QED
      BY <2>3, <3>1, <3>2
  <2> QED
    BY <2>4, SetStays
<1>6. CASE StampId
  <2>1. disk' = [disk EXCEPT ![Out] = [disk[Out] EXCEPT !.id = <<seqfile.day, job.drawn>>]]
    BY <1>6 DEF StampId
  <2>2. \A f \in File : /\ disk'[f].img = disk[f].img
                        /\ disk'[f].there = disk[f].there
                        /\ disk'[f].done = disk[f].done
    BY <1>1, <2>1 DEF TypeOK, OnDisk
  <2>3. \A f \in File : Shown(f)' = Shown(f)
    BY <2>2, ShownStays
  <2> QED
    BY <2>3, SetStays
<1>7. CASE Abort \/ Exhausted \/ Draw \/ Interrupt \/ NextDay \/ UNCHANGED vars
  <2>1. disk' = disk
    BY <1>7 DEF Abort, Exhausted, Draw, Interrupt, NextDay, vars
  <2>2. \A f \in File : Shown(f)' = Shown(f)
    BY <2>1, ShownStays
  <2> QED
    BY <2>2, SetStays
<1> QED
  BY <1>2, <1>3, <1>4, <1>5, <1>6, <1>7 DEF Next, JobStep

LEMMA StartOfTheSet ==
    ASSUME NEW may, AllInv(may) PROVE Kernels!Init
<1>1. \A f \in File : Finished(f) => HasPort(disk[f].img)
  BY DEF AllInv, PortInv, FilesPorted
<1> QED
  BY <1>1 DEF Kernels!Init, Kernels!Covers, Kernels!Nothing, Withdrawn, HasPort, Features

\* The scripts implement the abstract set of finished kernels, for every table
\* of scripts and patchers of which the assumptions and ChainsSettled hold:
\* whatever is run in whatever order, refused or interrupted, a kernel counts
\* as finished only with the whole port in it, a pass over a finished kernel
\* keeps its conversions and handlers, and no finished kernel changes while
\* it counts as finished.
THEOREM ScriptsImplementKernelSet ==
    ASSUME NEW CONSTANT may, NEW CONSTANT rank, ChainsSettled(may, rank)
    PROVE  Spec => ImplementsKernels
<1>1. Init => AllInv(may)
  BY AllInit
<1>2. AllInv(may) /\ [Next]_vars => AllInv(may)'
  BY AllNext
<1>3. AllInv(may) => Kernels!Init
  BY StartOfTheSet
<1>4. AllInv(may) /\ [Next]_vars =>
        [Kernels!Next]_[f \in File |->
            IF Finished(f) THEN [done |-> TRUE, has |-> Features(disk[f].img)]
            ELSE Withdrawn]
  BY StepsOfTheSet DEF FinishedSet, Shown
<1> QED
  BY <1>1, <1>2, <1>3, <1>4, PTL DEF Spec, ImplementsKernels, Kernels!Spec

=============================================================================
