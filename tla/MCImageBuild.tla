---------------------------- MODULE MCImageBuild ----------------------------
(***************************************************************************)
(* The link scripts of the repository, as instances of ImageBuild.         *)
(***************************************************************************)
EXTENDS ImageBuild, KernelPatches, SequencesExt

CONSTANT Names   \* the scripts of this run

----------------------------------------------------------------------------
(* The stock kernel.                                                       *)

StockSlot ==
    [s \in {"vec48", "vec49", "vec50", "vec51", "vec52", "vec53", "vec54",
            "vec55", "vec60", "vec61", "vec11", "isp61.exit", "isp060.exit",
            "fpsp11.exit", "fpsp60.exit", "fpe_decline", "fpe_decline60"}
        |-> "nullvect"] @@
    [s \in {"sdt.cmn_err", "segmap.cmn_err", "utrap.cmn_err", "unt.exit"}
        |-> "cmn_err"] @@
    [s \in {"trap.u_trap", "srg.exit"} |-> "u_trap"] @@
    [s \in {"page_get", "pgrsv.exit"} |-> "page_get"] @@
    ("kvd.exit" :> "srg_utraps")       @@ ("uft.exit" :> "unt_latch") @@
    ("swa.exit" :> "swapadd")     @@ ("swapconf.swapadd" :> "swapadd") @@
    ("demux.exit" :> "a3091intr")      @@ ("int2.a3091" :> "a3091intr") @@
    ("int2.acia" :> "aciaaintr")       @@ ("int2.jb" :> "jbintr") @@
    ("int2.a2091" :> "a2091intr")      @@ ("int2.aen" :> "aenintr") @@
    ("stopdma" :> "stopdma")           @@ ("startdma" :> "startdma") @@
    ("badhardware" :> "badhardware")   @@ ("segdev_ops.unmap" :> "segdev_unmap") @@
    ("segdev_ops.setprot" :> "segdev_setprot") @@
    ("allocbmap" :> "allocbmap")       @@ ("freebmap" :> "freebmap") @@
    ("start.config" :> "config")       @@ ("start.main" :> "main") @@
    ("ptrace.suword" :> "suword")      @@ ("procfs.uiomove" :> "uiomove") @@
    ("sendsig.fpu_setup" :> "fpu_setup") @@
    ("free_vp_pages.freemem" :> "freemem") @@
    ("parinit" :> "parinit")           @@ ("parinit_orig" :> "parinit") @@
    ("cdevsw67" :> "nodev")            @@ ("cdevsw68" :> "nodev") @@
    ("main.vfs_mountroot" :> "vfs_mountroot") @@
    ("rth1.exit" :> "vfs_mountroot") @@
    ("scsicard" :> "scsicard")         @@ ("dd.iodone" :> "iodone")

\* The exits of objects only a pass links; swapadd_real is the stock swapadd
\* under the name relink-040-f6.sh gives it.
LaterExits == {"kvd.exit", "uft.exit", "swa.exit"}

TheStock == [conv |-> {}, slot |-> StockSlot,
             syms |-> {StockSlot[s] : s \in DOMAIN StockSlot \ LaterExits}]

BaseSyms ==
    {"dma_a3091_stopdma", "dma_a3091_startdma", "a3091_badhardware_dbg",
     "a3091intr_demux", "segdev_unmap_chk", "segdev_setprot_chk",
     "scr_allocbmap", "scr_freebmap", "config_cachefix", "hat_sdtfail_count",
     "smu_panic_latch", "unt_latch", "srg_utraps", "ini_main",
     "dbg_suword_publish", "dbg_uiomove_publish", "fpu_setup_gated",
     "cb_pgfree_enter", "cb_vpfree_enter", "bt_frame_ok", "ini_user_rte",
     "isp61_vec"}
FpspSyms == {"fpsp_vec11"} \cup DOMAIN [v \in {"fpsp_vec48", "fpsp_vec49",
     "fpsp_vec50", "fpsp_vec51", "fpsp_vec52", "fpsp_vec53", "fpsp_vec54",
     "fpsp_vec55", "fpsp_vec60"} |-> TRUE]

----------------------------------------------------------------------------
(* The scripts.                                                            *)

PagerGroups == DOMAIN PagerGroup
BaseSteps(live, fpsp) ==
    << Pflusha, Pmmu, Modelb, ModelbPager(PagerGroups),
       Writeback(DOMAIN WritebackGroup \ {"pageoutd"}), Swapin, Swapgeom,
       Execstk, Pageoutdefs, Mincore, DevmmapPfn, Segkmem, A3091Dma,
       A3091Badhardware, A3091Intr, SegdevBridge, SegdevOps, ScrdevPageb,
       ConfigCachefix, Sdtfail, Segmapdbg, Dbgpublish, CbRelease, Btwalk,
       XpanicSync, SlClosedq, AutoconLsr, Usptrap, Srgtrap, Inittrap,
       Inituser, Framesz060, SendsigFpu, Kmapools, Procio, Memcntl,
       Pagecreate(live \cup {"fbzero", "spec"}), Pvntrunc, Ufsbmap,
       Execboundary(DOMAIN ExecGroup), Devmmap2(DOMAIN Devmmap2Group),
       NfsPutpage, NfsGetpage, SysconfigPagesize >> \o
    (IF fpsp THEN << Link(FpspSyms), FpspVec11, FpspVectors >> ELSE <<>>) \o
    << IspVec61, CheckFpuRelocs(TRUE), CheckRelinkRelocs, Stamp >>

FromStock(steps, refuses) ==
    [linked |-> TRUE, in |-> "unix-040", out |-> "unix-040", has |-> {},
     lacks |-> {}, first |-> {}, link |-> Link(BaseSyms), steps |-> steps,
     refuses |-> refuses]

Pass(in, out, has, lacks, link, steps) ==
    [linked |-> FALSE, in |-> in, out |-> out, has |-> has, lacks |-> lacks,
     first |-> {}, link |-> link, steps |-> steps,
     refuses |-> FALSE]

AllScripts ==
  [ base        |-> FromStock(BaseSteps({"live"}, TRUE), FALSE),
    base_nofpsp |-> FromStock(BaseSteps({"live"}, FALSE), FALSE),
    base_nolive |-> FromStock(BaseSteps({}, TRUE), TRUE),
    dbg    |-> Pass("unix-040", "unix-040-dbg", {}, {}, Link({"k_trap"}),
                    << CbRelease, BtraceOn, Stamp >>),
    quiet  |-> Pass("unix-040", "unix-040-quiet", {}, {}, Link({"hardbus_orig"}),
                    << CbRelease, Stamp >>),
    z3660  |-> Pass("unix-040-dbg", "unix-040-z3660", {}, {}, LinkZ3660,
                    << Z3660(FALSE), CheckRelinkRelocs, Stamp >>),
    z3660_va |-> Pass("unix-040-va2000-dbg", "unix-040-z3660-va", {}, {}, LinkZ3660,
                    << Z3660(FALSE), CheckRelinkRelocs, Stamp >>),
    va2000 |-> Pass("unix-040-dbg", "unix-040-va2000-dbg", {"fpsp_vec11"},
                    {"va2000init"}, LinkVa2000,
                    << Va2000Cdevsw, CheckRelinkRelocs, Stamp >>),
    xsvga  |-> Pass("unix-040-dbg", "unix-040-xsvga-dbg", {"fpsp_vec11"}, {},
                    Link({"svgaopen"}), << Xsvga, CheckRelinkRelocs, Stamp >>),
    rtg    |-> Pass("unix-040-dbg", "unix-040-rtg-dbg", {"fpsp_vec11"},
                    {"va2000init", "svgaopen"},
                    [LinkVa2000 EXCEPT !.adds = @ \cup {"svgaopen"}],
                    << Xsvga, Va2000Cdevsw, CheckRelinkRelocs, Stamp >>),
    rth1   |-> Pass("unix-040", "unix-040-rth1", {"fpsp_vec11"},
                    {"fpe_vec11", "rth1_mountroot"}, Link({"rth1_mountroot"}),
                    << Rth1Hook, CheckRth1, CheckRelinkRelocs, Stamp >>),
    f4arms |-> Pass("unix-040-z3660", "unix-040-f4",
                    {"z3660queue", "unt_latch"}, {},
                    Link({"uft_latch", "uft_magic", "zc_magic", "z3660_cache",
                          "zc_armed"}),
                    << Ufault, Z3660Cache("60"), CheckRelinkRelocs, Stamp >>),
    f6     |-> [Pass("unix-040-f4", "unix-040-f6",
                     {"z3660queue", "uft_latch", "zc_magic"}, {},
                     Link({"kvd_utraps", "kvd_magic", "swa_latch",
                           "swapadd_real", "swa_magic"}),
                     << Kvecdisp, Swapadd, CheckRelinkRelocs, Stamp >>)
                EXCEPT !.first = {Z3660CacheCheck}],
    fpe    |-> [Pass("unix-040", "unix-040-fpe", {}, {"ucp_magic"},
                     Link({"fpe_vec11", "fpe_vec60"}),
                     << FpeVec11, FpeVec60, CheckRelinkRelocs, CheckFpeRelocs,
                        Stamp, CheckRootFamily >>)
                EXCEPT !.first = {CheckRootFamily}],
    isp060 |-> Pass("unix-040", "unix-040-isp060", {"fpsp_vec11"},
                    {"fpe_vec11", "isp060_unimp"}, Link({"isp060_unimp"}),
                    << Isp060Hook, CheckIsp060, CheckRelinkRelocs, Stamp >>),
    fpe_isp |-> [Pass("unix-040-isp060", "unix-040-isp060-fpe", {}, {"ucp_magic"},
                     Link({"fpe_vec11", "fpe_vec60"}),
                     << FpeVec11, FpeVec60, CheckRelinkRelocs, CheckFpeRelocs,
                        Stamp, CheckRootFamily >>)
                EXCEPT !.first = {CheckRootFamily}],
    pgrsv  |-> Pass("unix-040", "unix-040-pgrsv", {"fpsp_vec11"},
                    {"fpe_vec11", "pgrsv_get"}, Link({"pgrsv_get"}),
                    << PgrsvSites, CheckPgrsv, CheckRelinkRelocs, Stamp >>),
    ttcompat |-> Pass("unix-040", "unix-040-ttcompat", {}, {"fpe_vec11"},
                      Link({}), << TtcompatInit >>) ]

MCScript == [n \in Names |-> AllScripts[n]]
MCFile   == {AllScripts[n].out : n \in Names}

MCPatcher ==
    { Ufsbmap, Pagecreate({"live"}), Segkmem, NfsGetpage, NfsGetpageRevert,
      Usptrap, Srgtrap, FpeVec11, FpeVec60, Isp060Hook, FpspVec11, IspVec61,
      Ufault, Kvecdisp, Z3660Cache("0"), TtcompatInit, XpageFlip }

MCRequires ==
    { <<<<"ufsbmap", "ufs_bmap">>, <<"pagecreate", "as_iolock">>>>,
      <<<<"pagecreate", "as_iolock">>, <<"pager", "segmap_pagecreate">>>>,
      <<<<"devmmap", "mmmmap">>, <<"mincore", "mincore">>>>,
      <<<<"devmmap", "mmmmap">>, <<"devmmap", "scrmmap">>>>,
      <<<<"exec", "execmap">>, <<"modelb", "execmap.bss">>>> }

MCEntry == {"vec11", "vec60", "vec61", "utrap.cmn_err", "trap.u_trap",
            "page_get", "swapconf.swapadd", "int2.a3091", "parinit",
            "main.vfs_mountroot"}

\* What every kernel of the port carries: the default base link's conversions.
MCPort == [conv  |-> UNION {BaseSteps({"live"}, FALSE)[i].writes :
                              i \in DOMAIN BaseSteps({"live"}, FALSE)},
           reach |-> {"unt_latch", "srg_utraps", "isp61_vec", "a3091intr_demux"}]

----------------------------------------------------------------------------
(* What earlier days left: some scripts, each run to its end.              *)

\* The set around each image makes TLC evaluate it before the next step.
Explicit(k) == [conv |-> {u : u \in k.conv}, slot |-> k.slot @@ <<>>,
                syms |-> {s : s \in k.syms}]
RECURSIVE RunAll(_, _)
RunAll(k, steps) ==
    IF steps = <<>> THEN k
    ELSE CHOOSE end \in {RunAll(img, Tail(steps)) :
                           img \in {Explicit(Effect(Head(steps), k))}} : TRUE

AfterScripts(ns) ==
    LET d[i \in 0 .. Len(ns)] ==
          IF i = 0 THEN [f \in File |-> Absent]
          ELSE LET n == AllScripts[ns[i]]
                   k == IF n.linked THEN Stock ELSE d[i - 1][n.in].img
               IN  [d[i - 1] EXCEPT ![n.out] =
                      [there |-> TRUE, img |-> RunAll(Effect(n.link, k), n.steps),
                       id |-> <<0, SeqLo + i - 1>>, done |-> TRUE]]
    IN  d[Len(ns)]

\* A base link that was interrupted halfway.
Halfway == [AfterScripts(<<>>) EXCEPT !["unix-040"] =
              [there |-> TRUE, done |-> FALSE, id |-> NoId,
               img |-> LET n == AllScripts["base"]
                       IN  RunAll(Effect(n.link, Stock), SubSeq(n.steps, 1, 30))]]

Left(files, day, num) == [disk |-> files, seqfile |-> [day |-> day, n |-> num]]

\* The counter file is missing, yesterday's, today's and used up, or copied
\* from a machine with another block of numbers.
MCAlready ==
    { Left(AfterScripts(<<>>), 0, 0),
      Left(AfterScripts(<<"base_nofpsp">>), 0, SeqLo),
      Left(AfterScripts(<<"base", "dbg", "z3660", "f4arms">>), 1, SeqHi),
      Left(AfterScripts(<<"base", "isp060">>), 1, SeqLo),
      Left(Halfway, 1, SeqHi + 1) }
DbgBuilt  == { Left(AfterScripts(<<"base", "dbg">>), 0, 0) }
EmptyDisk == { Left(AfterScripts(<<>>), 0, 0) }
BaseBuilt == { Left(AfterScripts(<<"base">>), 1, SeqLo) }
=============================================================================
