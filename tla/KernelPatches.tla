--------------------------- MODULE KernelPatches ---------------------------
(***************************************************************************)
(* One definition per image patcher: what it rewrites or retargets, and    *)
(* everything it insists on finding first.  A unit is a pair of a patcher  *)
(* family and the kernel routine whose sites it converts; the bytes, the   *)
(* number of sites in a routine and the reports are left out.  A patcher   *)
(* that the environment restricts to some groups takes them as an argument.*)
(***************************************************************************)
EXTENDS KernelImage, TLC

Sites(family, routines) == {<<family, r>> : r \in routines}
Rewrite(us)             == [NoPatch EXCEPT !.writes = us]
RewriteAll(us)          == [NoPatch EXCEPT !.writes = us, !.whole = TRUE]
\* The selected groups of a table of groups.
Chosen(gs, of)          == UNION {of[g] : g \in gs \cap DOMAIN of}
\* Retarget some relocations; every new symbol must be linked.
Point(links)            == [NoPatch EXCEPT
                              !.links = links,
                              !.needs = {links[s].to : s \in DOMAIN links}]
One(s, from, to)        == s :> Retarget({from}, to)

----------------------------------------------------------------------------
(* 030 instructions that must not reach the 68040.                         *)

Pflusha == Rewrite(Sites("pflusha", {"_start", "resume", "hat_map", "hat_exec",
                                     "hat_asload", "flushmmu", "swtch"}))

Pmmu == Rewrite(Sites("pmmu", {"ptest", "ptest0", "nomsg", "swtch", "hat_map",
                               "hat_exec", "hat_asload"}))

----------------------------------------------------------------------------
(* patch_modelb.py: the 4 KiB page frame, by subsystem.                    *)

ModelbBoot   == {"mlsetup", "p0init", "kvm_init", "segkmem_alloc",
                 "segkmem_mapin", "sptalloc", "seg_alloc", "svp"}
ModelbHat    == {"hat_ptalloc", "hat_sdtalloc", "hat_pt2ptdat", "hat_sdtfree",
                 "hat_ptfree"}
ModelbAnon   == {"anon_resv", "anon_unresv", "swap_xlate", "swap_anon"}
ModelbProc   == {"execmap.bss", "elfexec.auxpagesz", "brk", "grow"}
ModelbSegvn  == {"segvn_create", "segvn_extend_prev", "segvn_extend_next",
                 "anonmap_alloc", "segvn_dup", "segvn_unmap", "segvn_free",
                 "segvn_softunlock", "non_anon", "segvn_faulta",
                 "segvn_unload", "segvn_setprot", "segvn_checkprot",
                 "segvn_getprot", "segvn_kluster", "segvn_swapout",
                 "segvn_sync", "segvn_incore", "segvn_lockop", "segvn_vpage",
                 "segvn_isanon"}
ModelbAs     == {"as_faulta", "as_setprot", "as_checkprot", "as_unmap",
                 "as_map", "as_incore", "as_ctl", "map_addr"}
ModelbSegu   == {"segu_getprot", "segu_softunload", "segu_softload"}
ModelbFault  == {"as_fault", "segvn_fault", "anon_free", "anon_dup"}
ModelbCopy   == {"ppcopy", "pagecopy", "pagezero", "hat_ptalloc.zero"}
ModelbUsrx   == {"usrxmemflt"}
ModelbPages  == {"main.banner", "execstk_addr", "anon_zero", "anon_private",
                 "s5getapage", "ufs_getapage", "rfc_writefill", "rfc_pageget",
                 "segmap_pagecreate.page_get", "page_delmem", "hardbus"}
ModelbKmem   == {"kmem_alloc", "kmem_free", "sptfree", "segkmem_mapout",
                 "segkmem_free", "kseg", "unkseg"}
ModelbFaultpage == {"segvn_faultpage"}
ModelbShm    == {"shmget", "shm_lock", "shm_unlock", "shm_rm_amp", "shmat"}

Modelb == Rewrite(Sites("modelb",
            ModelbBoot \cup ModelbHat \cup ModelbAnon \cup ModelbProc \cup
            ModelbSegvn \cup ModelbAs \cup ModelbSegu \cup ModelbFault \cup
            ModelbCopy \cup ModelbUsrx \cup ModelbPages \cup ModelbKmem \cup
            ModelbFaultpage \cup ModelbShm))

----------------------------------------------------------------------------
(* The rest of the page-size conversion that rewrites and checks nothing   *)
(* but its own sites.                                                      *)

PagerGroup ==
    [ufs    |-> {"ufs_getapage", "ufs_getpage"}, s5gp  |-> {"s5getapage"},
     specgp |-> {"spec_getapage"},               pvngp |-> {"pvn_getpages"},
     pvnk   |-> {"pvn_kluster", "pvn_done"},     pgget |-> {"page_get"},
     segmap |-> {"segmap_pagecreate", "segmap_unlock"},
     buf    |-> {"bp_mapin", "bp_mapout"},       genst |-> {"gen_strategy"},
     bufbk  |-> {"buf_breakup"},                 dmapio |-> {"dma_pageio"},
     segu   |-> {"segu_get", "segu_softload"}]
ModelbPager(gs) == Rewrite(Sites("pager", Chosen(gs, PagerGroup)))

WritebackGroup ==
    [spec    |-> {"spec_putpage"}, pvn |-> {"pvn_range_dirty"},
     ufs     |-> {"ufs_putpage", "mountfs"},
     callers |-> {"checkpage", "fsflush", "segvn_swapout", "segvn_sync"},
     pageoutd |-> {"setupclock", "pageout"}]
Writeback(gs) == Rewrite(Sites("writeback", Chosen(gs, WritebackGroup)))

Swapin   == Rewrite(Sites("swapin", {"spec_getpage", "anon_getpage",
                                     "pvn_fail", "klustsize"}))
Swapgeom == Rewrite(Sites("swapgeom", {"swapdel_byname", "swapadd", "swapdel",
                                       "swapinfo_free", "undelswap"}))
Execstk  == Rewrite(Sites("execstk", {"extractarg", "exec_initialstk"}))
Pageoutdefs == Rewrite(Sites("pageoutdefs", {"setupclock", "vmmeter"}))
Mincore     == Rewrite(Sites("mincore", {"mincore"}))
DevmmapPfn  == Rewrite(Sites("devmmap", {"scrmmap", "ammmap", "timmap"}))
Kmapools    == Rewrite(Sites("kmapools", {"allocspool", "allocbpool",
                                          "freepool", "kmem_avail"}))
Procio      == Rewrite(Sites("procio", {"prfastmapout", "prusrio"}))
SlClosedq   == Rewrite(Sites("sl", {"slproc", "delay"}))
AutoconLsr  == Rewrite(Sites("autocon", {"autocon"}))
XpanicSync  == Rewrite(Sites("xpanic", {"xpanic"}))
Framesz060  == Rewrite(Sites("framesz", {"framesz[4]"}))

----------------------------------------------------------------------------
(* Conversions that also insist on what must not, or must already, have    *)
(* been converted.                                                         *)

Segkmem == [Rewrite(Sites("segkmem", {"segkmem_checkprot", "segkmem_getprot"}))
            EXCEPT !.old = Sites("segkmem", {"segkmem_setprot", "sptfree.flag0",
                                             "flushmmu.body"})]

\* The bridge holds only while seg_dev keeps its 2 KiB vpage array.
SegdevShift  == Sites("segdev", {"segdev_fault.shift", "segdev_getprot.shift"})
SegdevBridge == [Rewrite(Sites("segdev", {"spec_segmap", "segdev_fault"}))
                 EXCEPT !.old = Sites("segdev", {"segdev_fault.shift"})]

Memcntl == [Rewrite(Sites("memcntl", {"memcntl", "mem_unlock"}))
            EXCEPT !.old = Sites("errno", {"textlock", "datalock", "ublock",
                                           "memcntl", "segvn_lockop"})]

PagecreateGroup == [live   |-> {"as_iolock", "rwip", "rwvp"},
                    fbzero |-> {"fbzero"}, spec |-> {"spec_write"}]
Pagecreate(gs) ==
    [Rewrite(Sites("pagecreate", Chosen(gs, PagecreateGroup)))
     EXCEPT !.new = Sites("pager", {"segmap_pagecreate"}) \cup
                    Sites("modelb", {"segmap_pagecreate.page_get"})]

Pvntrunc == [Rewrite(Sites("pvntrunc", {"pvn_vptrunc"}))
             EXCEPT !.old = Sites("segmapslot", {"pvn_vptrunc"})]

\* The reads it skips are safe only once the as_iolock unit is converted.
Ufsbmap == [Rewrite(Sites("ufsbmap", {"ufs_bmap"}))
            EXCEPT !.old = Sites("ndaddr", {"ufs_bmap"}),
                   !.new = Sites("pagecreate", {"as_iolock"})]

ExecGroup == [exhd    |-> {"exhd_getfbuf", "exhd_nomap"},
              execmap |-> {"execmap"}, elfsz |-> {"mapelfexec", "elfexec"}]
Execboundary(gs) ==
    [Rewrite(Sites("exec", Chosen(gs, ExecGroup)))
     EXCEPT !.old = Sites("segmapslot", {"exhd_getfbuf", "elfexec"}),
            !.new = Sites("modelb", {"execmap.bss", "elfexec.auxpagesz"})]

Devmmap2Group == [pfn |-> {"mmmmap", "resmmap"}, incore |-> {"segdev_incore"}]
Devmmap2(gs) ==
    [Rewrite(Sites("devmmap", Chosen(gs, Devmmap2Group)))
     EXCEPT !.new = DevmmapPfn.writes \cup Mincore.writes, !.old = SegdevShift]

NfsPutpage == [RewriteAll(Sites("nfs", {"nfs_putpage"}))
               EXCEPT !.old = Sites("nfs", {"nfs_putpage.bounds"})]
NfsGet     == Sites("nfs", {"nfs_getpage", "nfs_getapage"})
NfsGetpage == [RewriteAll(NfsGet)
               EXCEPT !.old = Sites("nfs", {"nfs_getpage.bounds"})]
\* --revert checks none of the canaries and takes any mix of its sites.
NfsGetpageRevert == [NoPatch EXCEPT !.reverts = NfsGet]

SysconfigPagesize == [Rewrite(Sites("sysconfig", {"sysconfig"}))
                      EXCEPT !.old = Sites("sysconfig", {"sysconfig.cases"})]

----------------------------------------------------------------------------
(* Calls and table entries of the stock kernel pointed at the port's own   *)
(* routines, all linked by the base build.                                 *)

\* Its four stopdma calls move together, and its two startdma calls do.
A3091Dma == Point(One("stopdma", "stopdma", "dma_a3091_stopdma") @@
                  One("startdma", "startdma", "dma_a3091_startdma"))
A3091Badhardware == Point(One("badhardware", "badhardware",
                              "a3091_badhardware_dbg"))
A3091Intr ==
    [Point(One("int2.a3091", "a3091intr", "a3091intr_demux"))
     EXCEPT !.at = ("int2.acia"  :> {"aciaaintr"}) @@ ("int2.jb" :> {"jbintr"}) @@
                   ("int2.a2091" :> {"a2091intr"}) @@ ("int2.aen" :> {"aenintr"})]
SegdevOps   == Point(One("segdev_ops.unmap", "segdev_unmap",
                         "segdev_unmap_chk") @@
                     One("segdev_ops.setprot", "segdev_setprot",
                         "segdev_setprot_chk"))
ScrdevPageb == [Point(One("allocbmap", "allocbmap", "scr_allocbmap") @@
                      One("freebmap", "freebmap", "scr_freebmap"))
                EXCEPT !.writes = Sites("scrdev", {"AllocMem"})]
ConfigCachefix == Point(One("start.config", "config", "config_cachefix"))
Sdtfail     == Point(One("sdt.cmn_err", "cmn_err", "hat_sdtfail_count"))
Segmapdbg   == Point(One("segmap.cmn_err", "cmn_err", "smu_panic_latch"))
Usptrap     == Point(One("utrap.cmn_err", "cmn_err", "unt_latch"))
Srgtrap     == Point(One("trap.u_trap", "u_trap", "srg_utraps"))
Inittrap    == Point(One("start.main", "main", "ini_main"))
Dbgpublish  == Point(One("ptrace.suword", "suword", "dbg_suword_publish") @@
                     One("procfs.uiomove", "uiomove", "dbg_uiomove_publish"))
SendsigFpu  == Point(One("sendsig.fpu_setup", "fpu_setup", "fpu_setup_gated"))
\* Islands: a branch written over stock code, rewritten on every run.
CbRelease   == [Point(One("free_vp_pages.freemem", "freemem",
                          "cb_vpfree_enter"))
                EXCEPT !.writes = Sites("cb", {"page_free"}),
                       !.needs = {"cb_pgfree_enter", "cb_vpfree_enter"}]
Btwalk      == [Rewrite(Sites("bt", {"backtrace"}))
                EXCEPT !.needs = {"bt_frame_ok"}]
Inituser    == [Rewrite(Sites("ini", {"_start.handoff"}))
                EXCEPT !.needs = {"ini_user_rte"}]

----------------------------------------------------------------------------
(* Exception vectors.                                                      *)

FpspVec11   == Point(One("vec11", "nullvect", "fpsp_vec11"))
FpspVectors == Point(One("vec48", "nullvect", "fpsp_vec48") @@
                     One("vec49", "nullvect", "fpsp_vec49") @@
                     One("vec50", "nullvect", "fpsp_vec50") @@
                     One("vec51", "nullvect", "fpsp_vec51") @@
                     One("vec52", "nullvect", "fpsp_vec52") @@
                     One("vec53", "nullvect", "fpsp_vec53") @@
                     One("vec54", "nullvect", "fpsp_vec54") @@
                     One("vec55", "nullvect", "fpsp_vec55") @@
                     One("vec60", "nullvect", "fpsp_vec60"))
IspVec61Alone == [Point(One("vec61", "nullvect", "isp61_vec"))
                  EXCEPT !.at = "vec60" :> {"nullvect"}]
\* Vector 60 is a landmark: a kernel with and one without the FPSP both pass.
IspVec61    == [Point(One("vec61", "nullvect", "isp61_vec"))
                EXCEPT !.at = "vec60" :> {"nullvect", "fpsp_vec60"}]

\* The emulator goes in front of whichever handler holds the vector, and
\* saves that handler as the target of its own decline.
FpeVec11    == [Point("vec11" :> Retarget({"fpsp_vec11", "nullvect"},
                                          "fpe_vec11"))
                EXCEPT !.saves = "fpe_decline" :> "vec11"]
FpeVec60    == [Point("vec60" :> Retarget({"fpsp_vec60", "nullvect"},
                                          "fpe_vec60"))
                EXCEPT !.saves = "fpe_decline60" :> "vec60"]
Isp060Hook  == [Point(One("isp61.exit", "nullvect", "isp060_unimp"))
                EXCEPT !.at = ("vec61" :> {"isp61_vec"}) @@
                              ("isp060.exit" :> {"nullvect"})]

----------------------------------------------------------------------------
(* Instruments and drivers a pass adds.                                    *)

Ufault   == [Point(One("utrap.cmn_err", "unt_latch", "uft_latch"))
             EXCEPT !.needs = {"uft_latch", "unt_latch", "uft_magic"}]
Kvecdisp == [Point(One("trap.u_trap", "srg_utraps", "kvd_utraps"))
             EXCEPT !.needs = {"kvd_utraps", "srg_utraps", "kvd_magic"}]
Swapadd  == [Point(One("swapconf.swapadd", "swapadd", "swa_latch"))
             EXCEPT !.needs = {"swa_latch", "swapadd_real", "swa_magic"}]
Z3660Bound == <<"z3660", "scsicard.bound">>
Z3660(ddOrder) ==
    [Point(One("scsicard", "scsicard", "z3660_scsicard") @@
           (IF ddOrder THEN One("dd.iodone", "iodone", "dd_startio_first")
                       ELSE <<>>))
     EXCEPT !.writes = {Z3660Bound}]
\* The option word holds 0, 40 or 60; 0 is the unit set empty.
Arms          == Sites("z3660_cache", {"40", "60"})
Z3660CacheCheck == [NoPatch EXCEPT !.needs = {"zc_magic", "z3660_cache",
                                              "zc_armed", "z3660queue"}]
Z3660Cache(v) == [Z3660CacheCheck EXCEPT
                    !.writes  = Arms \cap {<<"z3660_cache", v>>},
                    !.reverts = Arms \ {<<"z3660_cache", v>>}]
PgrsvSites == [Point(One("page_get", "page_get", "pgrsv_get"))
               EXCEPT !.new = Sites("pager", {"page_get"})]
Rth1Hook   == Point(One("main.vfs_mountroot", "vfs_mountroot",
                        "rth1_mountroot"))
\* The six entry points of a cdevsw row move together.
Xsvga      == [Point(One("cdevsw67", "nodev", "svgaopen"))
               EXCEPT !.writes = Sites("xsvga", {"svgammap"})]
Va2000Cdevsw == Point(One("cdevsw68", "nodev", "va2000open"))
BtraceOn   == Rewrite(Sites("btrace", {"btrace_on", "kdbg_on"}))
XpageFlip  == Rewrite(Sites("xpage", {"xpage_on"}))
TtcompatInit == Rewrite(Sites("ttcompat", {"ttcompatopen"}))

----------------------------------------------------------------------------
(* Checkers: they write nothing and may stop the build.                    *)

CheckFpuRelocs(gated) ==
    [NoPatch EXCEPT !.at = "sendsig.fpu_setup" :>
        IF gated THEN {"fpu_setup_gated"} ELSE {"fpu_setup"}]
CheckRelinkRelocs == [NoPatch EXCEPT !.closed = TRUE]
CheckFpeRelocs ==
    [NoPatch EXCEPT !.at =
        ("vec11" :> {"fpe_vec11"}) @@ ("vec60" :> {"fpe_vec60"}) @@
        ("fpe_decline"   :> {"fpsp_vec11", "nullvect"}) @@
        ("fpe_decline60" :> {"fpsp_vec60", "nullvect"})]
\* The scanned rows are those of the table the loop names.
CheckRootFamily ==
    [NoPatch EXCEPT !.agree = {<<"scsicard", "z3660_scsicard", Z3660Bound>>}]
CheckIsp060  == [Isp060Hook EXCEPT !.links = <<>>,
                                   !.at = @ @@ ("isp61.exit" :> {"isp060_unimp"})]
CheckPgrsv   == [PgrsvSites EXCEPT !.links = <<>>,
                                   !.at = "page_get" :> {"pgrsv_get"}]
CheckRth1    == [NoPatch EXCEPT !.at = "main.vfs_mountroot" :> {"rth1_mountroot"}]
Link(syms)   == [NoPatch EXCEPT !.adds = syms]
\* A link whose object wraps the weakened parinit; the wrapper goes on to
\* parinit_orig, the stock address.  va2000 and rtg check that parinit is
\* still the stock one, z3660 does not.
LinkParinit(syms, over, wrapper) ==
    [Link(syms \cup {wrapper}) EXCEPT !.links = "parinit" :> Retarget(over, wrapper)]
LinkVa2000   == LinkParinit({"va2000init", "va2000open"}, {"parinit"},
                            "va2000_parinit")
LinkZ3660    == LinkParinit({"z3660queue", "z3660_scsicard", "dd_startio_first"},
                            {"parinit", "va2000_parinit"}, "z3660_parinit")
Stamp        == [NoPatch EXCEPT !.stamp = TRUE]

----------------------------------------------------------------------------
(* Where a handler passes on what it does not take: the relocation in its  *)
(* own code that the next handler is named by.                             *)

PassesOn ==
    [unt_latch |-> "unt.exit",       uft_latch |-> "uft.exit",
     srg_utraps |-> "srg.exit",      kvd_utraps |-> "kvd.exit",
     isp61_vec |-> "isp61.exit",     isp060_unimp |-> "isp060.exit",
     fpsp_vec11 |-> "fpsp11.exit",   fpsp_vec60 |-> "fpsp60.exit",
     fpe_vec11 |-> "fpe_decline",    fpe_vec60 |-> "fpe_decline60",
     swa_latch |-> "swa.exit",       pgrsv_get |-> "pgrsv.exit",
     rth1_mountroot |-> "rth1.exit", va2000_parinit |-> "parinit_orig",
     z3660_parinit |-> "parinit_orig", a3091intr_demux |-> "demux.exit"]
=============================================================================
