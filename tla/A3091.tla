-------------------------------- MODULE A3091 --------------------------------
(***************************************************************************)
(* The A3000's SCSI: the interrupt demultiplexer of a3091demux040.s, the   *)
(* DMA wrappers of dma_cache040.s and the stock driver between them.  The  *)
(* chip (WD33C93A), the DMA gate array (SDMAC), the targets, the data      *)
(* cache and the stock driver a3091intr are external.                      *)
(*                                                                         *)
(* Data are abstracted to whether a copy is current.  A word of memory has *)
(* a copy in RAM and, while its line is cached, one in the copyback cache; *)
(* lines are pushed and invalidated whole.  A saved transfer count is the  *)
(* set of words it leaves to move.                                         *)
(***************************************************************************)
EXTENDS Naturals, FiniteSets, Sequences

CONSTANTS Unit, Line, Word, None,
          LineOf,    \* the cache line of a word
          Requests,  \* the buffers, sets of words, a unit is asked to move
          MaxMsgs    \* bound: messages a target sends during one request

ASSUME A3091Assumption ==
    /\ LineOf \in [Word -> Line]
    /\ Requests \in [Unit -> SUBSET SUBSET Word]
    /\ None \notin Unit
    /\ MaxMsgs \in Nat

VARIABLES
    unit,      \* comhead of each unit: its request, the saved count
    startq,    \* starthead: the units ready to start
    istate,    \* the DFA's state
    cur,       \* curunitp
    seg,       \* dma_seg_*: the one ownership record
    dma,       \* dma_on, and what the SDMAC has left to move
    wd,        \* INTS, the status it announces, the running command, the bus
    eint,      \* E_INT, latched in the SDMAC
    flush,     \* a FLUSH whose end may still be announced
    ram,       \* words whose copy in RAM is current
    held,      \* words whose copy in the cache is current
    cached, dirty,  \* lines in the cache, lines to be written back
    at,        \* where the processor is
    how        \* what it carries from one place to the next

driver == <<unit, startq, istate, cur>>
chip   == <<dma, wd, eint, flush>>
memory == <<ram, held, cached, dirty>>
vars   == <<driver, seg, chip, memory, at, how>>

Event == [what : {"done", "timeout", "sdp", "disc", "resel"}, who : Unit]
NoEvent == [what |-> "none", who |-> None]

Lines(ws) == {LineOf[w] : w \in ws}
On(l) == {w \in Word : LineOf[w] = l}

-----------------------------------------------------------------------------
(* The data cache.                                                         *)

Fill(l) ==
    /\ l \notin cached
    /\ cached' = cached \cup {l}
    /\ held' = held \cup (On(l) \cap ram)
    /\ UNCHANGED <<driver, seg, chip, ram, dirty, at, how>>

Evict(l) ==
    /\ l \in cached
    /\ ram' = IF l \in dirty THEN (ram \ On(l)) \cup (held \cap On(l)) ELSE ram
    /\ cached' = cached \ {l}
    /\ dirty' = dirty \ {l}
    /\ held' = held \ On(l)
    /\ UNCHANGED <<driver, seg, chip, at, how>>

(* cpusha dc: every dirty line to RAM, and nothing left behind.            *)
PushAll ==
    /\ ram' = {w \in Word : IF LineOf[w] \in dirty THEN w \in held ELSE w \in ram}
    /\ cached' = {} /\ dirty' = {} /\ held' = {}

(* cinvl over the lines of ws: dirty or not, they are gone.                *)
Invalidate(ws) ==
    /\ cached' = cached \ Lines(ws)
    /\ dirty' = dirty \ Lines(ws)
    /\ held' = {w \in held : LineOf[w] \notin Lines(ws)}
    /\ UNCHANGED ram

(* The lines the device owns: the segment, rounded outward.                *)
Owned == IF seg.state = "EMPTY" THEN {} ELSE Lines(seg.words)

(* A process or the kernel stores a word.  It keeps off the lines a device *)
(* owns and off the buffer of a request that has not ended.                *)
CpuWrite(w) ==
    /\ at = "user"
    /\ LineOf[w] \notin Owned
    /\ \A u \in Unit : unit[u].state # "idle" => w \notin unit[u].req
    /\ cached' = cached \cup {LineOf[w]}
    /\ dirty' = dirty \cup {LineOf[w]}
    /\ held' = {w} \cup held \cup
               (IF LineOf[w] \in cached THEN {} ELSE On(LineOf[w]) \cap ram)
    /\ ram' = ram \ {w}
    /\ UNCHANGED <<driver, seg, chip, at, how>>

-----------------------------------------------------------------------------
(* The chip, the gate array and the targets.                               *)

Interrupt(what, who) == [wd EXCEPT !.ints = TRUE, !.run = FALSE,
                                   !.ss = [what |-> what, who |-> who]]

Select ==
    /\ wd.run /\ ~wd.ints /\ wd.bus = None
    /\ wd' = [wd EXCEPT !.bus = cur]
    /\ UNCHANGED <<driver, seg, dma, eint, flush, memory, at, how>>

NoTarget ==
    /\ wd.run /\ ~wd.ints /\ wd.bus = None
    /\ wd' = Interrupt("timeout", cur)
    /\ UNCHANGED <<driver, seg, dma, eint, flush, memory, at, how>>

(* A disconnected target comes back; a selection that was under way is     *)
(* abandoned.                                                              *)
Reselect(u) ==
    /\ ~wd.ints /\ wd.bus = None /\ unit[u].state = "disc"
    /\ wd' = [Interrupt("resel", u) EXCEPT !.bus = u]
    /\ UNCHANGED <<driver, seg, dma, eint, flush, memory, at, how>>

Connected == wd.run /\ ~wd.ints /\ wd.bus # None

Transfer(w) ==
    /\ Connected /\ dma.on /\ w \in dma.left
    /\ dma' = [dma EXCEPT !.left = @ \ {w}]
    /\ IF dma.reading THEN ram' = ram \cup {w} /\ held' = held \ {w}
                      ELSE UNCHANGED <<ram, held>>
    /\ UNCHANGED <<driver, seg, wd, eint, flush, cached, dirty, at, how>>

Done ==
    /\ Connected
    /\ wd' = [Interrupt("done", wd.bus) EXCEPT !.bus = None]
    /\ UNCHANGED <<driver, seg, dma, eint, flush, memory, at, how>>

(* Save Data Pointers, or a disconnection with or without one before it.   *)
Message(what) ==
    /\ Connected /\ unit[wd.bus].msgs < MaxMsgs
    /\ unit' = [unit EXCEPT ![wd.bus].msgs = @ + 1]
    /\ wd' = [Interrupt(what, wd.bus) EXCEPT !.bus = IF what = "disc" THEN None ELSE @]
    /\ UNCHANGED <<startq, istate, cur, seg, dma, eint, flush, memory, at, how>>

(* The end of a FLUSH is announced after stopdma has looked for it.        *)
FlushEnds ==
    /\ flush
    /\ flush' = FALSE /\ eint' = TRUE
    /\ UNCHANGED <<driver, seg, dma, wd, memory, at, how>>

Pending == wd.ints \/ eint

-----------------------------------------------------------------------------
(* The demultiplexer.  how.snap is its one snapshot of ISTR.               *)

NoSnap == [ints |-> FALSE, eint |-> FALSE]

Enter ==
    /\ at = "user" /\ Pending
    /\ at' = "demux"
    /\ how' = [how EXCEPT !.snap = [ints |-> wd.ints, eint |-> eint]]
    /\ UNCHANGED <<driver, seg, chip, memory>>

Delegate(back) == at' = "stock" /\ how' = [how EXCEPT !.snap = NoSnap, !.back = back]

\* Mutant of DemuxWd: a combination of sources is dropped, not delegated.
DemuxWdAlone ==
    /\ at = "demux" /\ how.snap.ints
    /\ IF how.snap.eint THEN at' = "user" /\ how' = [how EXCEPT !.snap = NoSnap]
                        ELSE Delegate("resid")
    /\ UNCHANGED <<driver, seg, chip, memory>>

(* The chip asked: the stock handler's business, and a DMA event that rode *)
(* in with it is acknowledged after.                                       *)
DemuxWd ==
    /\ at = "demux" /\ how.snap.ints
    /\ Delegate("resid")
    /\ UNCHANGED <<driver, seg, chip, memory>>

\* Mutant of DemuxEint: a3w_consume = 0, every source is the chip's.
DemuxEintDelegated ==
    /\ at = "demux" /\ ~how.snap.ints
    /\ Delegate("user")
    /\ UNCHANGED <<driver, seg, chip, memory>>

(* E_INT alone: CINT, without reading the chip's status.                   *)
DemuxEint ==
    /\ at = "demux" /\ ~how.snap.ints
    /\ eint' = FALSE /\ at' = "reread" /\ how' = [how EXCEPT !.snap = NoSnap]
    /\ UNCHANGED <<driver, seg, dma, wd, flush, memory>>

(* Did the chip ask while E_INT was being acknowledged?                    *)
Reread ==
    /\ at = "reread"
    /\ IF wd.ints THEN Delegate("user") ELSE at' = "user" /\ UNCHANGED how
    /\ UNCHANGED <<driver, seg, chip, memory>>

Residual ==
    /\ at = "resid"
    /\ eint' = FALSE /\ at' = "user" /\ how' = [how EXCEPT !.back = "user"]
    /\ UNCHANGED <<driver, seg, dma, wd, flush, memory>>

-----------------------------------------------------------------------------
(* a3091intr: one status read, one action of the DFA.                      *)

Action(e) ==
    CASE istate \in {"STARTING", "RESUMING"} /\ e.what = "done" -> "finish"
      [] istate \in {"STARTING", "RESUMING"} /\ e.what = "disc" -> "disconnect"
      [] istate \in {"STARTING", "RESUMING"} /\ e.what = "sdp" -> "save"
      [] istate = "STARTING" /\ e.what = "timeout" -> "finish"
      [] istate = "STARTING" /\ e.what = "resel" -> "requeue"
      [] istate = "IDLE" /\ e.what = "resel" -> "reconnect"
      [] OTHER -> "die"

(* What the unit that reselected goes on with.                             *)
Resume(u) ==
    /\ cur' = u
    /\ istate' = "RESUMING"
    /\ at' = "prepare"

Dispatch(e) ==
    LET a == IF e.what = "resel" /\ unit[e.who].state # "disc" THEN "die" ELSE Action(e)
    IN  CASE a = "die" ->
               /\ istate' = "DEAD" /\ at' = how.back
               /\ UNCHANGED <<unit, startq, cur, how>>
          [] a = "save" ->
               /\ unit' = [unit EXCEPT ![cur].rest = dma.left]
               /\ istate' = "RESUMING" /\ at' = "command"
               /\ UNCHANGED <<startq, cur, how>>
          [] a = "reconnect" ->
               /\ unit' = [unit EXCEPT ![e.who].state = "active"]
               /\ Resume(e.who)
               /\ UNCHANGED <<startq, how>>
          [] OTHER ->
               /\ at' = "stop" /\ how' = [how EXCEPT !.act = a, !.who = e.who]
               /\ UNCHANGED driver

Stock ==
    /\ at = "stock"
    /\ IF ~Pending THEN at' = how.back /\ UNCHANGED <<driver, wd, how>>
       ELSE \E e \in IF wd.ints THEN {wd.ss} ELSE Event :
                /\ Dispatch(e)
                /\ wd' = [wd EXCEPT !.ints = FALSE, !.ss = NoEvent]
    /\ UNCHANGED <<seg, dma, eint, flush, memory>>

(* startany and the request that called it.                                *)
Queue(u, reading, ws) ==
    /\ at = "user" /\ unit[u].state = "idle"
    /\ unit' = [unit EXCEPT ![u] = [state |-> "queued", reading |-> reading,
                                    req |-> ws, rest |-> {}, msgs |-> 0]]
    /\ startq' = Append(startq, u)
    /\ at' = "startany" /\ how' = [how EXCEPT !.back = "user"]
    /\ UNCHANGED <<istate, cur, seg, chip, memory>>

StartAny ==
    /\ at = "startany"
    /\ IF istate = "IDLE" /\ startq # <<>>
       THEN /\ cur' = Head(startq) /\ startq' = Tail(startq)
            /\ unit' = [unit EXCEPT ![Head(startq)].state = "active",
                                    ![Head(startq)].rest = unit[Head(startq)].req]
            /\ istate' = "STARTING" /\ at' = "prepare"
       ELSE at' = how.back /\ UNCHANGED driver
    /\ UNCHANGED <<seg, chip, memory, how>>

(* A command given while the chip interrupts is ignored.                   *)
Command ==
    /\ at = "command"
    /\ wd' = [wd EXCEPT !.run = ~wd.ints]
    /\ at' = how.back
    /\ UNCHANGED <<driver, seg, dma, eint, flush, memory, how>>

-----------------------------------------------------------------------------
(* dma_a3091_startdma and dma_a3091_startdma_reconn.                       *)

Prepare ==
    /\ at = "prepare"
    /\ IF unit[cur].rest = {} \/ seg.state # "EMPTY"
       THEN at' = "arm" /\ UNCHANGED seg
       ELSE /\ seg' = [state |-> "PREPARING", words |-> unit[cur].rest,
                       reading |-> unit[cur].reading]
            /\ at' = "push"
    /\ UNCHANGED <<driver, chip, memory, how>>

\* Mutant of Push: nothing is pushed for a segment the device only reads.
PushForReads ==
    /\ at = "push"
    /\ IF seg.reading THEN PushAll ELSE UNCHANGED memory
    /\ seg' = [seg EXCEPT !.state = "PREPARED"]
    /\ at' = "arm"
    /\ UNCHANGED <<driver, chip, how>>

Push ==
    /\ at = "push"
    /\ PushAll
    /\ seg' = [seg EXCEPT !.state = "PREPARED"]
    /\ at' = "arm"
    /\ UNCHANGED <<driver, chip, how>>

(* The real startdma, which arms nothing for a count of 0.                 *)
Arm ==
    /\ at = "arm"
    /\ dma' = IF unit[cur].rest = {} THEN dma
              ELSE [on |-> TRUE, left |-> unit[cur].rest, reading |-> unit[cur].reading]
    /\ at' = "command"
    /\ UNCHANGED <<driver, seg, wd, eint, flush, memory, how>>

(* dma_a3091_stopdma: the real stopdma first, then the record's lines.     *)
Stop ==
    /\ at = "stop"
    /\ how' = [how EXCEPT !.inv = dma.on /\ seg.state = "PREPARED"]
    /\ IF dma.on
       THEN /\ dma' = [on |-> FALSE, left |-> {}, reading |-> FALSE]
            /\ eint' = FALSE /\ flush' = TRUE
       ELSE UNCHANGED <<dma, eint, flush>>
    /\ at' = "complete"
    /\ UNCHANGED <<driver, seg, wd, memory>>

NoSegment == [state |-> "EMPTY", words |-> {}, reading |-> FALSE]

\* Mutant of Stale: the whole cache, as completion did before copyback.
WholeCache(s) == IF s.reading THEN Word ELSE {}

(* The lines a completed segment leaves to be fetched again.               *)
Stale(s) == IF s.reading THEN s.words ELSE {}

Complete ==
    /\ at = "complete"
    /\ IF how.inv THEN Invalidate(Stale(seg)) /\ seg' = NoSegment
                  ELSE UNCHANGED <<memory, seg>>
    /\ at' = "after" /\ how' = [how EXCEPT !.inv = FALSE]
    /\ UNCHANGED <<driver, chip>>

Idle == [state |-> "idle", reading |-> FALSE, req |-> {}, rest |-> {}, msgs |-> 0]

(* The rest of the action that stopped the transfer.                       *)
After ==
    /\ at = "after"
    /\ CASE how.act = "finish" ->
              /\ unit' = [unit EXCEPT ![cur] = Idle]
              /\ istate' = "IDLE" /\ cur' = None /\ at' = "startany"
              /\ UNCHANGED startq
         [] how.act = "disconnect" ->
              /\ unit' = [unit EXCEPT ![cur].state = "disc"]
              /\ istate' = "IDLE" /\ cur' = None /\ at' = "startany"
              /\ UNCHANGED startq
         [] how.act = "requeue" ->
              /\ unit' = [unit EXCEPT ![cur].state = "queued", ![cur].rest = {},
                                      ![how.who].state = "active"]
              /\ startq' = Append(startq, cur)
              /\ Resume(how.who)
    /\ how' = [how EXCEPT !.act = "none", !.who = None]
    /\ UNCHANGED <<seg, chip, memory>>

-----------------------------------------------------------------------------

Init ==
    /\ unit = [u \in Unit |-> Idle]
    /\ startq = <<>> /\ istate = "IDLE" /\ cur = None
    /\ seg = NoSegment
    /\ dma = [on |-> FALSE, left |-> {}, reading |-> FALSE]
    /\ wd = [ints |-> FALSE, ss |-> NoEvent, run |-> FALSE, bus |-> None]
    /\ eint = FALSE /\ flush = FALSE
    /\ ram = Word /\ held = {} /\ cached = {} /\ dirty = {}
    /\ at = "user"
    /\ how = [snap |-> NoSnap, back |-> "user", act |-> "none", who |-> None,
              inv |-> FALSE]

Chip == Select \/ NoTarget \/ Done \/ \E w \in Word : Transfer(w)

Handler ==
    \/ Enter \/ DemuxWd \/ DemuxEint \/ Reread \/ Residual
    \/ Stock \/ StartAny \/ Command
    \/ Prepare \/ Push \/ Arm \/ Stop \/ Complete \/ After

Next ==
    \/ Chip
    \/ Handler
    \/ FlushEnds
    \/ \E u \in Unit : Reselect(u)
    \/ \E what \in {"sdp", "disc"} : Message(what)
    \/ \E u \in Unit, reading \in BOOLEAN : \E ws \in Requests[u] : Queue(u, reading, ws)
    \/ \E l \in Line : Fill(l) \/ Evict(l)
    \/ \E w \in Word : CpuWrite(w)

(* The processor goes on with its handler and takes a pending interrupt;   *)
(* the chip goes on with a command; a target that disconnected comes back  *)
(* although it may lose the bus to others many times.                      *)
Spec == /\ Init /\ [][Next]_vars
        /\ WF_vars(Handler) /\ WF_vars(Chip)
        /\ \A u \in Unit : SF_vars(Reselect(u))

-----------------------------------------------------------------------------
Seen(w) == IF LineOf[w] \in cached THEN w \in held ELSE w \in ram

(* What the processor loads is current, but for the words a device is      *)
(* writing: no completed read is hidden by an old line, no store beside a  *)
(* segment or during a transfer is thrown away with it.                    *)
WordsCurrent ==
    \A w \in Word : (seg.state # "EMPTY" /\ seg.reading /\ w \in seg.words) \/ Seen(w)

(* What a device has yet to fetch is in RAM: a store the processor has     *)
(* only in its cache was pushed before the transfer was armed, also for    *)
(* the suffix armed again after a reconnection.                            *)
DeviceReadsCurrent == dma.on /\ ~dma.reading => dma.left \subseteq ram

(* The driver never shuts down: a status is dispatched only when the chip  *)
(* announced it, in a state that expects it, however late a FLUSH ends.    *)
NeverDead == istate # "DEAD"

(* Every request ends, whatever disconnects, reselections and flushes      *)
(* come between its steps.                                                 *)
RequestsEnd ==
    \A u \in Unit : unit[u].state # "idle" ~> unit[u].state = "idle"
=============================================================================
