# Models of the 68040/060 port of AMIX

The repository ports AMIX (System V Release 4 for the 68030) to the 68040 and
68060: new assembly, `src/src/*.s`, is linked over the stock kernel, and Python
patchers, `src/src/patch_*.py`, rewrite the stock code that remains. The link
scripts `src/relink-040*.sh` run both. This directory holds TLA+ models of four
parts of it, with the configurations that model-check them and the proofs:

* the memory management that carries the port: the hardware address translation
  layer (HAT), the release of pages, the completion of faulted stores;
* the SCSI transfers through the copyback cache of the 68040;
* the building of kernel images;
* the reader of the profiler's captures.

The stock kernel is not in the repository. What the code relies on from it
(`page_abort`, `pvn_done`, `hat_ptalloc`, `k_trap`, `a3091intr`, ...) and from
the hardware (table search, ATC, data cache, SCSI chip and DMA gate array) is
modelled from how `src/src` uses it and from `src/docs/contracts`, and marked
external in `PROJECT.json`.

## 1. The system

| Component | State | Operations | Interacts with |
|---|---|---|---|
| HAT mappings (`hat040.s`, `hat_dup040.s`, `hat_chgprot040.s`, `hat_pagesync040.s`) | root, pointer and leaf tables; `p_mapping`, `p_mod`, `p_ref`; the ATC | `hat_alloc`, `hat_pteload`, `hat_unload` (flags 2, 4, 8), `hat_pageunload`, `hat_free`, `hat_chgprot`, `hat_pagesync`, `hat_dup` | called by segment drivers and the pager; reads what the table search wrote (U, M) |
| Reverse-map lists (same files) | head in each `page_t`, link word 256 bytes above each descriptor | push, bounded search and splice, walk | the pager unloads a page through them |
| Table memory (`hat_free`, `hat_ptfree`, `ptdatfree040.s`, `legacysdt040.s`) | table pages, ptdat records and lists, `p_sdtbits`, `availrmem`, `pages_pp_kernel`, `pt_waiting` | retire, release, wake | stock allocators; sleepers on `free_pts` |
| Counts | `a_rss`, `pt_keepcnt` | load with lock flag, `hat_unlock`, unload with flag 2 | a table with `pt_keepcnt # 0` is not retired |
| Page release (`hat_unload`, `cb_release040.s`) | descriptor in cache and in memory, ATC entry, cache line, free list | clear, `cpusha`, `pflusha`, `cb_page_release`, `page_free` | `page_abort`, asynchronous page-out |
| Write-back replay (`wb040.s`) | `u_nofault`, DFC/SFC, the owner words, the write-back fields of each frame | `usrxmemflt`, `krnxmemflt`, `wb040_replay`, `Lwb_do`, `Lwb_fail` | nested in itself through `k_trap`; the resolver sleeps |
| DMA cache protocol (`dma_cache040.s`), A3091 demultiplexer (`a3091demux040.s`) | the ownership record `dma_seg_*`, `dma_on`, the chip's INTS and status, the gate array's E_INT | start and stop wrappers, acknowledge, call of the stock handler | stock SCSI driver and its DFA, targets that disconnect and reselect, the data cache |
| Image patchers (`src/patch_*.py`, checkers, `stamp_buildid.py`) and link scripts (`relink-040*.sh`) | the kernel file: converted sites, relocations, symbols, id; `.build-seq` | link, copy, patch, check, stamp, refuse | each other, through the file: a patcher needs sites another one converted and handlers another one installed |
| Profiler capture reader (`tools/prof-symbolize.py`) | the open ring and stats dump, the pending header, the last boot and calibration | one branch per kind of line | the card's firmware, over a serial line shared with a console |
| Kernel fault resolver (`krnxmemflt040.s`), fault decoding (`ptest040.s`, `getfault040.s`, ...) | per-process depth | resolve | `as_fault` |
| Code publication (`codepub040.s`, `cb_icode040.s`) | instruction cache | push and invalidate | `mprotect`, exec, debugger |
| Others | | | boot, vectors, floating point, emulation glue, device drivers, diagnostics, test tools: see `components` in `PROJECT.json`, each with its reason |

The kernel is not preemptive: a handler gives up the processor only where it
sleeps or calls `preempt()`. The difficulty is elsewhere:

* **two views of one fact** - a descriptor and the reverse map, the M bit and
  `p_mod`, a word in RAM and in the copyback cache, a table and the ATC, the
  driver's state and the chip's - that long sequences of operations must keep equal;
* **order inside a handler** - what is visible to the table search, the cache,
  the pager and the device between two instructions;
* **sleeping in a fault** - a resolver that sleeps inside a replay inside a copy;
* **giving back what several owners share** - metadata units on one page,
  counters adjusted by several routines;
* **one interrupt for two events** - the end of a FLUSH and a status of the chip,
  where acknowledging the one must not lose, or invent, the other;
* **programs that run in any order over one file** - some thirty patchers, over
  a kernel that may be new, finished, left halfway or patched by hand;
* **an input with lines missing** - which must not become a plausible profile.

What each component must guarantee is stated by the properties of its module;
every place where it can go wrong is listed, at its line, under `hazards`.

## 2. The plan

Modules, the most important behaviour first.

| # | Modules | Question | |
|---|---|---|---|
| 1 | `HatMap`, `HatMapProofs` | Is every translation right, and no data lost, whatever the sequence of operations? | done |
| 2 | `RevMap` (abstract), `RevChain` (refines it), `RevChainProofs` | Do the linked lists implement the set `HatMap` uses? | done |
| 3 | `TablePages`, `PagesProofs` | Is every page and unit of table memory accounted for? | done |
| 4 | `HatCounts`, `HatCountsProofs` | Do the counts follow the mappings and the softlocks? | done |
| 5 | `PageRelease`, `PagesProofs` | In what order does a page leave its owner? | done |
| 6 | `WriteBack`, `WriteBackProofs` | Are faulted stores completed once, in order, for the right process? | done |
| 7 | `KernelImage`, `KernelPatches`, `ImageBuild`, `ImageBuildProofs`, `KernelSet` (abstract) | Can any sequence of scripts and patchers leave a kernel that lacks what it needs, or two with one id? | done |
| 8 | `ProfCapture`, `ProfCaptureProofs` | Can a damaged capture be read as something that did not happen? | done |
| 9 | `A3091`, `A3091Proofs` | Is what the processor and the device read current; does every request end? | done |
| 10 | `HatPteload` | A load with `hat_ptalloc`'s sleep as a step of its own, two loads in one address space | open |
| 11 | `KrnFault`, page crossing of the 68060 (`wb060_xpage`) | Depth across sleeps; does a crossing access end? | open |
| 12 | `CodePub`, `FpuState` | Fetched instructions are the stored ones; FPU state follows its process | open |

Composition. `RevChain` implements `RevMap` by the refinement mapping on `pte`;
`HatMap` uses the set that `RevChain` shows the lists to be. `TablePages` and
`HatCounts` follow the same operations as `HatMap` and keep the state `HatMap`
leaves out; `HatCounts!LocksBalanced` is what makes the gate of `TablePages`
(`Retirable`) mean what it says. `PageRelease` opens up the step that `HatMap`
takes in one action (`UnloadRelease`, `UnloadAbort`). `ImageBuild` runs the
patchers of `KernelPatches` over `KernelImage` and implements `KernelSet`.
`A3091` composes three parties: the demultiplexer and the wrappers, which are
this repository's, the stock driver between them, and the chip below.

Theorems: done for every module above that is done (section 5), with the
refinements of `RevMap` and `KernelSet`. What the runs check and no theorem states
is liveness, and what the code violates.

## 3. The modules

**HatMap.** A descriptor is named by its position, `<<address space, virtual
page>>`; `TabOf` groups virtual pages into leaf tables. A handler that does not
sleep is one action: `PteloadFresh`, `PteloadSame`, `PteloadReplace` are the
paths `Lfreshleaf`/`Lwleaf`, `Lpfnok`, `Lreplace` of `hat_pteload`; `Unload`,
`UnloadRelease`, `UnloadAbort` are `hat_unload` without flags, with 4 and with
8; `DupTable`, `DupShare`, `DupCopy` are the steps between two calls of
`preempt()` in `hat_dup`. The processor is `Walk` (table search, sets M),
`WriteHit` (a store through an entry) and `Switch`. `dirty` is a ghost: the
frame holds data no backing store has. Left out: U and `p_ref`, which have the
life cycle of M and `p_mod`; the order of the lists; a device segment mapping a
managed frame with no `page_t`.

**RevMap, RevChain.** The link words as a function; a search that visits
`Budget` nodes. The link word of a cleared descriptor keeps its old value, as in
the code.

**TablePages.** One table is one page with four ptdat records and one metadata
unit; a metadata page is in use while one of its units is. Which records a list
holds is computed from the tables (`RecordsOf`), and `UnitsOwned` compares it
with the lists. `HatFree` is `hat_legacy_sdt_free` followed by `hat_ptfree` of
each table. `ptd_on` and `i40_on` are 1.

**HatCounts.** `locks` is what the segment drivers believe, the reference the
byte `pt_keepcnt` is compared with. Drivers are assumed to unload with flag 2
exactly what they hold and, with `LockedReplace = FALSE`, as in the run, not to
replace a page by a load that locks: the code does not count that lock (see the
disagreements below).

**PageRelease.** One page, the instruction groups of the code as program
points, with all three flags of `hat_unload`, `page_abort` and the end of an
asynchronous write, which may come at any of them. `leaf` is the processor's
view of the descriptors, `leafM` the memory the table search reads; a line may
be evicted at any time.

**WriteBack.** A kernel stack is a sequence of faults, each with its
write-backs, what `k_trap` and the wrapper saved, and where it is. All kernel
stacks have the same virtual address, so the stack pointer of a replay is its
depth. The resolver may succeed, fail, or sleep (`Switch`). A write-back of
SIZE=LINE in WB2 counts as none, as the code skips it. `wbf_prop_on`,
`wbf_sup_fatal` and `wb_dfc_on` have their shipped value 1.

**KernelImage, KernelPatches.** A kernel is the set of converted units (a patcher
family and a routine whose sites it rewrites), where each interesting relocation
points, and its symbols. What matters of the bytes at a site is only whether
they are the stock or the converted ones. A patcher is a record: what it writes
and whether all or nothing, what it puts back, the units it insists on finding
converted (`new`) or stock (`old`), the symbols it needs and adds, the
relocations it retargets and what it accepts there, the handler it saves for its
exit, the relocations that must agree, the checks that read only, the stamp.
`Accepts` is every `die` of the program, `Effect` what it leaves. One definition
per patcher translates it; those with groups selected by the environment take
the groups as an argument.

**ImageBuild.** One script runs at a time, as in one build directory. `Start`
links the stock kernel or copies the input, after the script's checks of it;
`Step` runs the next patcher; `Abort` is a refusal, after which
`tools/build-step.sh` ends the script and leaves the file; `Interrupt` does the
same at any step; `Draw`, `Exhausted` and `StampId` are `stamp_buildid.py` before
and after it writes `.build-seq`; `Finish`; `HandRun` is a patcher run by hand
between scripts, over any kernel, finished or not; `NextDay`. Of the calendar only
the day at a stamp matters. `done` is a ghost: a script left the file at its end,
from a finished input, and nothing changed it since. `MCImageBuild` holds the
scripts themselves, in the order of their files; `MCImageBuildChains` computes from
them which symbols each relocation of each kernel can come to name, for the
theorems on handlers (section 5).

**KernelSet.** What the scripts promise together: a finished kernel has the
whole port (`Port`: the conversions of the default base and the handlers a trap
must reach), a derived one loses nothing its base had, a finished one does not
change.

**ProfCapture.** `parse_capture` line by line: one action per kind of line, with
the headers, resets and errors of its branch, and the checks where a ring or a
stats dump is closed. A line is its kind and the item that printed it, so that
what the reader reports can be compared with what was printed. On the way a line
is lost, broken, stripped of a prefix, or preceded by one of the console.

**A3091.** `Enter` takes the demultiplexer's one snapshot of ISTR; `DemuxWd`,
`DemuxEint` (which acknowledges by CINT), `Reread`, `Residual` are its branches;
`Stock` is one step of the stock handler's DFA, which reads the chip's status
and thereby clears INTS; `Prepare`, `Push`, `Arm`, `Command` and `Stop`,
`Complete`, `After` are the wrappers around `startdma` and `stopdma`, each with
the record update, cache instruction or call of the real routine it makes. The
chip selects, transfers word by word, times out, announces messages
(disconnect, save data pointer) and ends; a unit that disconnected reselects,
also while another one is being selected; a FLUSH may end at any later time.
Data are abstracted to whether a copy is current. The processor stores anywhere
but on lines a device owns and in buffers of open requests: that is the contract
`dma_cache040.s` states for its callers. The message counter `msgs` is a bound
of the model.

## 4. The runs

| Run | Configuration | Shows |
|---|---|---|
| `HatShared` | 2 address spaces, 1 virtual page, 4 frames, 1 device frame | types, reverse map, ATC against the tables, freed pages, tables, dirty data, over forks, copies, device mappings, page-outs and teardown |
| `RevChain` | 4 descriptors, 2 pages, budget 4 | lists exact, finite, and an implementation of `RevMap` |
| `TablePages` | 2 address spaces, 4 pages, 3 units per page, legacy table of 2 | accounting, ownership, lists, no lost wakeup |
| `HatCounts` | 2 address spaces, 2 virtual pages in one table, 2 frames, 2 locks | `pt_keepcnt` equals the locks, `a_rss` covers the mappings |
| `PageRelease` | 2 descriptors, flags 0, 4 and 8, write ends at any time | nothing of the old owner survives the handler or reaches the new owner; `hat_unload` frees only what is retired |
| `WriteBack` | 2 processes, every combination of write-backs, nesting 2, interrupts | order, completeness, function code and pad across sleeps |
| `WriteBackOwner` | 2 processes, two stores each | expected violation, see below |
| `ImageBuild` | 15 scripts, 17 patchers run by hand, 5 states of disk and counter, 2 days, 2 events, ids 2 to 5 | no kernel lacks what a conversion needs, no handler is cut off, reruns are harmless, ids are unique, builds complete, `KernelSet` is implemented |
| `BuildTwoDrivers`, `BuildIdTwice` | the scripts concerned | expected violations, see below |
| `ProfCapture` | 14 captures of 1 to 4 items, versions 1 to 3 of which 1 and 2 are known, up to 4 faults | one dump per report, one fault never mixes two, an intact capture is read, spans and prices are of the right dump and unit |
| `A3091` | 2 units, 2 lines, 3 words, 2 messages per request | every load and fetch is current, the driver survives, every request ends |

Why these bounds are enough to be interesting. Two address spaces and one page
make every sharing case (shared, copied, sole owner again); the fourth frame is
needed for a copy while both tables exist. Two virtual pages in one table are
the least for "the table is emptied by the second unload". `HatCounts`
has them; `HatShared` has one, and the proofs of section 5 hold for tables of
any size. Four descriptors make a list with a head, a tail and two inner nodes,
and a budget of four is the case in which no search gives up. Three units and a
legacy table of two put two kinds of owner on one metadata page in both orders;
the code has 32 and 17. `MaxLock` 2 distinguishes "some" from "one too many",
`MaxRss` 3 lets `a_rss` drift once above the two possible mappings. Nesting 2 is
a replay whose store faults and is replayed in turn, inside a copy or user code;
with two processes each of the four replays can sleep inside the others.

In `ImageBuild` two events are a script and what disturbs it (an interrupt, a
patcher run by hand before or after it, a second script); longer histories are in
the starting states, which `MCImageBuild` computes by running scripts to their
end: an empty directory, a base without FPSP, a chain of four passes, a base with
the ISP pass, a base left halfway. Their counter files are missing, of another
day, at the last id, and beyond this machine's block. `MaxChain` 3 follows a
chain through four handlers. In `ProfCapture` four faults are what two
dumps need to swap their terminators, and what it takes to report samples of two
dumps under the header of a third: with the begin of the first, a header line and
the terminator of the second and one sample lost, all counts of the capture
`<<R(1, 4), R(1, 1), R(1, 4)>>` agree. `SamplesOfOneDump` therefore claims nothing
from the fourth loss on; it holds to the third. The captures put two dumps of the
same and of different lengths and versions, and boots, on both sides of one
another. In
`A3091` the buffer of one unit shares its line with a word of somebody else, the
case in which rounding outward can lose a store; the other unit's has a line of
its own and may be empty, a command without data. Two messages are a disconnect
and a saved pointer, or two disconnects.

Symmetry is used only for invariants and action properties; `RevChain`,
`ImageBuild`, `ProfCapture` and `A3091` run without it. Deadlock is checked but
where the modelled life ends: in `PageRelease` when the page is reused, in
`WriteBack` at a panic, in `ImageBuild` when its events are used up, in
`ProfCapture` at the end of the capture.

### Fairness

* `ImageBuild`: `WF_vars(JobStep)`. A script that runs goes on to its next
  command. Nobody is obliged to start one, to interrupt it or to let a day
  pass. Under it `BuildCompletes`: a build whose input is a finished kernel and
  whose knobs do not contradict each other ends built, unless interrupted or out
  of ids.
* `A3091`: `WF_vars(Handler)`, `WF_vars(Chip)` and `SF_vars(Reselect(u))` for
  each unit. The processor takes a pending interrupt and finishes its handler;
  the chip goes on with a command it has; a target that disconnected comes back,
  though the bus may be busy again and again before it wins it (hence strong).
  Nothing obliges a FLUSH to end or a target to disconnect. Under it
  `RequestsEnd`.

### Disagreements between the code and its documents

Under `findings`, with the quotations. Three have a run that TLC is expected to
find violated:

* `WriteBackOwner`: the owner of the landing pad is global, the pad is per
  process; two sleeping replays overwrite each other's owner, and an ordinary
  denied store panics as a foreign landing.
* `BuildTwoDrivers`: the z3660 pass says that the address of `parinit` is
  asserted; it is not, and over a kernel with the VA2000 driver that driver's
  initialisation is cut off.
* `BuildIdTwice`: the ttcompat pass patches a kernel that is already stamped and
  does not stamp it, so two kernels carry one id.

The others follow from reading the code and have no run:

* `hat040.s:554`: a search that gives up in `Lreplace` is said to leave the list
  as it is; the push that follows cuts it.
* `hat040.s:515`: `Lreplace` says the counts are right as they are; the lock flag
  of the new load is not counted.
* `hat040.s:1168`: the page-lifecycle contract says `page_abort` clears the
  descriptors of a page before it frees it; called by `hat_unload` with flag 8,
  it frees a page whose last descriptor is cleared after. `PageRelease` shows
  what still holds: nothing survives the handler's return, and no data is mixed.
* `wb040.s:226`: `krnxmemflt` returns success after a user store of its frame
  was denied.
* `prof-symbolize.py:1711`: the probe bracket is said to be this boot's; it is
  the last boot's of the capture.

## 5. The proofs

Each module of proofs defines an inductive invariant (`PagesProofs` one for each of
its two models, `ProfCaptureProofs` one for each property), proves that the initial
states satisfy it and that every action keeps it, by a lemma per action or per
conjunct with one step per action, and concludes by PTL.

| Module | Theorem | Property |
|---|---|---|
| `HatMapProofs` | `TypeCorrect` | `TypeOK` |
| | `ReverseMapIsExact` | `RevMapExact` |
| | `FreedPagesAreUnreachable` | `NoStaleTranslation` |
| | `TablesAreOwned` | `TablesOwned` |
| | `AtcNeverStale` | `AtcCoherent` |
| | `ModificationsAreTracked` | `DirtyTracked` |
| | `DirtyPagesAreNotDiscarded` | `NoDirtyDiscard` |
| | `TablesAreKept` | `TableKept` |
| `RevChainProofs` | `ListsAreExact`, `ListsAlwaysExact` | `ChainsExact` |
| | `ListsImplementRevMap` | `ImplementsRevMap` |
| `PagesProofs` | `PagesAccounted` | `AccountingExact` |
| | `EveryUnitOwned` | `UnitsOwned` |
| | `GivenBackUnused` | `FreedIsUnused` |
| | `SleepersCounted` | `NoLostSleeper` |
| | `ReleasedIsUnreachable` | `ReturnUnreachable` |
| | `FreedIsUncached` | `FreeUncached` |
| | `NewOwnerIsSafe` | `NewOwnerKeepsData` |
| | `RetiredFirst` | `RetiredBeforeFree` |
| `HatCountsProofs` | `RssNeverShort` | `RssCovers` |
| | `KeepcntIsLocks` | `LocksBalanced` |
| `WriteBackProofs` | `CallersFunctionCode` | `DfcKept` |
| | `OwnLandingPad` | `NofaultKept` |
| | `StoresInOrder` | `InOrder` |
| | `SuccessIsWhole` | `UserSuccessIsComplete` |
| `ImageBuildProofs` | `BuildTypeCorrect` | `TypeOK` |
| | `ConversionsInOrder` | `ProducersFirst` |
| | `OneIdOneKernel` | `IdNamesBytes` |
| | `RerunChangesNothing` | `RerunSafe` |
| | `HandlersStay` | `HandlersKept` |
| | `ScriptsImplementKernelSet` | `ImplementsKernels` |
| `A3091Proofs` | `LoadsAreCurrent` | `WordsCurrent` |
| | `FetchesAreCurrent` | `DeviceReadsCurrent` |
| | `DriverSurvives` | `NeverDead` |
| `ProfCaptureProofs` | `RingsAreOneDump` | `SamplesOfOneDump` |
| | `OneFaultMixesNone` | `OneFaultNeverMixes` |
| | `IntactCapturesAreRead` | `IntactIsRead` |
| | `SpansAreOfOneDump` | `SpansAreWhole` |
| | `PricesInOwnUnit` | `PriceInOwnUnit` |

**HatMapProofs**: any number of address spaces, virtual pages, tables and frames.
The only assumption is `HatAssumption`: `TabOf` maps virtual pages to tables,
managed and device frames are disjoint, `None` is none of them. `Inv` is the
conjunction of the invariants with one replacement: `NoStaleTranslation` follows
from "every descriptor maps a loadable frame" (`LoadableMapped`) and
`AtcCoherent`, by which every cached translation is also in the tables. The
conjuncts need each other. `RevMapExact` is what lets `page_free`'s test of
`p_mapping` imply that nothing maps the page (`NoStaleTranslation`), and what lets
`hat_pageunload` reach every M bit (`DirtyTracked`); `AtcCoherent` is what makes a
store through an entry whose M is set harmless (`DirtyTracked` under `WriteHit`);
`TablesOwned` keeps a page in use as a table from being handed out again.

**RevChainProofs**: any number of descriptors, pages and nodes a search visits,
from `RevChainAssumption`. A chain is followed by the recursive function `Node`.
The invariant does not speak of it: `HasPath` says that there is a path, a function
on the naturals that starts at the head, follows the link words, repeats no node,
is `None` after its last, and passes through exactly the descriptors that map the
page. What a step does to the list is then a new path (`PushedPath`,
`InsertedPath`, `RemovedPath`, `EmptiedPath`); the stale link words of cleared
descriptors are on no path and do not matter (`KeptPath`). That `Node` follows the path
(`NodeIsPath`) is an induction, done with the library's theorem on well-founded
relations in its set form: a set of naturals that holds 0 and successors is `Nat`
(`SetInduction`). The theorems have the proviso `[]WithinBudget`: no page ever
has more mappings than a search visits nodes, 256 in the code. Without it
`Lreplace` cuts the list, one of the disagreements above, and `ChainsExact`
is false; `ListsAlwaysExact` needs no proviso when the search may visit as many
nodes as there are descriptors. Under it `ListsImplementRevMap` maps each step to a
step of `RevMap`; that `UnloadPage` clears all mappings of its page and no other is
where exactness is needed.

**PagesProofs, of `TablePages`**: any number of address spaces, pages and units,
from `TablePagesAssumption`. `UnitsOwned` speaks of the whole bitmap; `IInv` says it
unit by unit (`OneOwner`: each unit belongs to one legacy table or one table page,
each metadata page has a unit), which is what a step changes, and `UnitByUnit` shows
the two forms equal. `Ownership` adds that a dead address space has neither tables
nor a legacy table left. `FreedIsUnused` is needed by `hat_free`: it is why the
tables it releases are all still table pages. The counters follow by the
cardinalities of a union of disjoint sets and of a difference (`Debited`,
`Credited`).

**PagesProofs, of `PageRelease`**: any number of mappings of the page. The
assumption is `PageReleaseAssumption`. The properties speak of moments (the return
of a handler, the call of `page_free`); what makes them true is where the handler
is. `ReleaseInv` says, for every program point, through which descriptors the
processor's view, memory and the ATC may still lead to the page, and that a page
given away has neither a mapping nor a cached line left. A line evicted between two
points, or a write that ends there, stays within that.

**HatCountsProofs**: any number of address spaces, pages and tables, from
`HatCountsAssumption`. A load counts at least the mapping it adds (`Counted`), an
unload subtracts at most the mappings it removes (`Uncounted`), and a dead space
has none. `LocksBalanced` compares a byte with a sum over the descriptors of a
table. `SumsExist` and `SumStep` give the sum over a finite set by induction on its
subsets (`SubsetInduction`), `ModAdd` the addition modulo the width of the byte.
The invariant `LInv` adds to it that the table of a mapping is in use and that only
mapped descriptors are locked: this is what makes the count of a table that
`hat_free` or an unload retires zero, and that of a new table start at zero. The
hypothesis `~LockedReplace` is the one of the run: a load that locks and replaces
is not counted by the code, and the theorem would be false.

**WriteBackProofs**: any number of processes, any write-backs and any nesting,
from `WriteBackAssumption`. The properties speak of the running process and of
its innermost fault. `IInv` speaks of every fault of every kernel stack, also of
processes that sleep: the first saved the function code and the pad of the copy
loop (`SavedFirst`), each other those of the store of the replay below it
(`SavedOver`), so whatever is popped restores what the code beneath needs. `RecOK`
is the order within one frame. The lemmas `TopReplaced`, `Pushed` and `PoppedOK`
carry this over the three things a step does to a stack.

**ImageBuildProofs**: any scripts, patchers, files and number of days and events.
The assumptions are those of `ImageBuild`: `BoundsAssumption`, `PatchAssumption`
and `ScriptAssumption` (records are well formed, a script does not write its
input), `RequiresAssumption` (every patcher that writes the first unit of a
required pair insists on the second, and none takes the second back) and
`AlreadyAssumption` (what earlier days left is in order, and its ids name one
kernel each). TLC
evaluates them for the real patchers in the run, so the theorem reduces "no
sequence of patchers breaks a dependency" to a check of one patcher at a time.
`OneIdOneKernel` needs the invariant `Ids`: no id is ahead of the counter, a
drawn number is on no kernel, and once the running script has stamped, no other
kernel has its id. Its hypothesis `EveryScriptStamps` is what
`relink-040-ttcompat.sh` breaks (`BuildIdTwice`).
`RerunChangesNothing` needs, of every finished kernel, that each patcher of its
build is `Quiet` over it: refused for a symbol, or all its units converted,
nothing to take back and no relocation left that it would replace (`FilesQuiet`).
`RerunAssumption` says of the tables alone, a pair of patchers at a time, that a
script makes the patchers of its build quiet at one of its steps, or starts from a
kernel over which they are, and that no later step undoes it (`Quiets`, `Keeps`);
or that the script cannot end, as with a step that insists on a unit no step before
it converts (`Fails`). TLC evaluates it for the real scripts in all three runs.

`HandlersStay` speaks of a kernel and of the one made of it: what a trap or a hook
reaches by passing from handler to handler may not shrink. `Handlers` follows the
chains with a recursive function of `KernelImage`; that it has a value at each
number of steps, and that its value holds what is reached by that number
(`FollowExists`, `HandlersBySteps`), is the induction in set form again.
`HandlersClosed` and `HandlersLeast` say that it is the least set which contains
what the entries name and what its members pass on to, if `MaxChain` steps suffice.
With that, a patcher keeps the handlers of a kernel if what it displaces at a slot
is what its own handler passes on to (`EffectKeepsHandlers`). Whether it is depends
on the symbol the slot names, so the hypothesis, `ChainsSettled(may, rank)`, has two
parameters: `may` bounds the symbols each slot of each file can come to name, and
`rank` falls along each chain. It is a statement about one patcher and one file at a
time, and about no history: each script and patcher keeps a file within `may`
(`Brings`, and the invariant `SlotsIn`), and on every kernel within it cuts no
handler off (`ChainsStay`). `MCImageBuildChains` computes the two for the real
scripts, and TLC evaluates the hypothesis in the run `ImageBuild`. For the scripts of
`BuildTwoDrivers`, where the handler of one driver does not pass on to that of the
other, it is false, as it must be.

`ScriptsImplementKernelSet` maps each action to a withdrawal, a release or nothing
of `KernelSet`, under the same hypothesis. A start withdraws the file it
overwrites, a patcher run by hand the kernel it changes; only `Finish` releases.
Its invariant is `PortInv`: every finished kernel has the port; a base link under
way has the conversions and the handlers of the steps it has done (`LinkMade`); a
pass started from a finished kernel still has all of it, and that kernel is still
finished (`PassKept`). `PortAssumption` says, of the tables alone, that no script
takes a conversion back, that the steps of a base link make the port or that it
cannot end, that a file has one way to come about, and that what earlier days
finished has the port; TLC evaluates it in all three runs.

**A3091Proofs**: any units, lines, words, buffers and number of messages, from
`A3091Assumption` alone. `IInv` has four parts besides the types. `SegInv`: the
record exists from before the transfer is armed until after it is stopped, and
covers what is left to move. `DataInv`: from the push to the completion no line
of the record is dirty, so neither an eviction nor the invalidation throws a
store away, and outside of it every copy the processor would load is current.
`StatusInv`: a status the chip announces is one the driver's state expects, and
an INTS that the snapshot saw is still pending when the stock handler is called.
`QueueInv` and `BusInv`: the unit the DFA works for is the one on the bus, and a
queued one is not. `NeverDead` is what these give at a dispatch.

**ProfCaptureProofs**: any captures of any items, any number of stages, any bound on
the faults. The only assumption is `CaptureAssumption`; it holds the known versions
to 1 and 2, what the code knows, because the reader treats every version but 1 as 2.
The model prints a whole capture and then takes lines away from it, so what the
invariants must relate to the reader's state is how far the capture has been read.
The lines follow one another by their kind alone (`After`); that what `Init` prints
is such a chain, for every capture, is an induction over its items in set form
(`PrintedSegment`). `ChainInv` says that what is left of the capture, with the
console's line taken off and a stripped prefix put back, is still a chain that ends
where the capture does. The position is then one value, the line that comes next
(`Here`), and `MovesNext` shows each of the eighteen actions to be one of six moves:
it stays, a line goes by unread (`Miss`) or passed over because nothing it belongs
to is open (`Skip`), the capture is cut off, the reader takes a line, or stops. Each
invariant is proved over these six.

`PriceInv`: what was accepted has a known version, and only version 2 calibrates.
`RingInv` is a budget: it says, for the open ring and the line that comes, what must
have been lost for the reader to hold it. Either the ring began at the dump that comes
(`OwnBegin`), or the end of the dump of its header was lost and every sample in excess
of it as well (`LostEnd`), or its header is of two dumps, which takes three losses and
one more if its samples are of two as well (`MixedHeader`); `OldHeader` is the same for
a header no ring has taken up yet. When the ring closes the counts agree, and the
arithmetic leaves either one dump, or four losses, or more losses than samples.
`StatsInv` is the budget of a stats dump whose end was lost, `SpansInv` that of spans
with no total read. `IntactInv` says that without a loss the reader's state is a
function of the line that comes: every dump before it is reported (`Before`), the open
ring holds the samples up to it, and the open stats dump is `RecordBy` of it. It is
stronger than `IntactIsRead` by all the states before the end of the capture, and what
the property says of the end follows from it.

Only model-checked: the liveness properties `BuildCompletes` and `RequestsEnd`, as
liveness under fairness is out of the prover's reach; `AlienIsForeign`, which the
code violates. `MCImageBuild` runs scripts with a RECURSIVE operator and carries no
theorem; that the real tables satisfy the assumptions of `ImageBuild` and
`ChainsSettled` is what TLC evaluates.

## 6. What is not modelled

* **HAT**: the cache modes (`Lcm_sel`), a pure choice by address; the sleep of
  `hat_ptalloc` inside a load, which is one step with the load (`WithTable`):
  that two loads of one address space could both install a table is a hazard
  without a property until `HatPteload`. The give-up of the bounded searches: the
  run has a budget that reaches every node, and the theorems have it as proviso.
* **Faults**: the depth of the kernel fault resolver across sleeps, and the page
  crossing of the 68060 (`wb060_xpage`), are the plan's item 11; decoding a fault
  frame is pure. `WriteBack` leaves out the byte-serial fallback, the
  `wbf_signo` attribution and the switches that restore the old behaviour.
* **DMA and A3091**: the `dma_prepare`/`dma_complete` service, which nothing in
  the image calls yet; a segment whose end lies before its start, which is counted
  and armed without ownership; `a3w_consume = 0`; the error sources of the gate
  array and reads of all ones, which are counted and handed to the stock handler
  unchanged; phase mismatches inside that handler; a processor that stores on
  the edge lines of a segment while the device owns them, which the contract
  forbids.
* **Building**: the compilation of the objects and the 68030 scripts; the checks
  that only read and that no script runs; the driver conversions
  `z3660_modelb.py` and `va2000_modelb.py`, over objects of other repositories;
  two builds at once in one directory, and ids across two directories.
* **Profiler**: symbolisation, the arithmetic and the rendering of the report,
  the comparison of two captures: all over one dump that was read.
* **Code publication, floating point, boot, context switch**: straight lines of
  instructions, vendored arithmetic, or code that runs once and alone; the
  switch of address space is `HatMap`'s `Switch`.
* **Segment drivers, segu, swap, screen and framebuffer drivers**: small changes
  to stock code whose state is outside the repository.
* **Diagnostics** linked into the handlers (`i10*`, `kdbg_on`, counters) record
  and change nothing; the test tools read and print.
