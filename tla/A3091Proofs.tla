----------------------------- MODULE A3091Proofs -----------------------------
(***************************************************************************)
(* Proofs about A3091, for any units, lines, words and requests: what the  *)
(* processor and the device read is current, and the driver never shuts    *)
(* down.  The inductive invariant has a part for the types, one for the    *)
(* ownership record, one for the memory it protects and one for the        *)
(* agreement of the chip with the driver.                                  *)
(***************************************************************************)
EXTENDS A3091, TLAPS

Running == {"STARTING", "RESUMING"}
Arming == {"prepare", "push", "arm", "command"}
Stopping == {"stop", "complete", "after"}
Quiet == {"user", "demux", "reread", "resid", "stock", "startany"}

Request == [state : {"idle", "queued", "active", "disc"}, reading : BOOLEAN,
            req : SUBSET Word, rest : SUBSET Word, msgs : Nat]

DriverOK ==
    /\ unit \in [Unit -> Request]
    /\ startq \in Seq(Unit)
    /\ istate \in {"IDLE", "STARTING", "RESUMING", "DEAD"}
    /\ cur \in Unit \cup {None}

SegOK == seg \in [state : {"EMPTY", "PREPARING", "PREPARED"}, words : SUBSET Word,
                  reading : BOOLEAN]

DmaOK ==
    /\ dma \in [on : BOOLEAN, left : SUBSET Word, reading : BOOLEAN]
    /\ eint \in BOOLEAN /\ flush \in BOOLEAN

WdOK == wd \in [ints : BOOLEAN, ss : Event \cup {NoEvent}, run : BOOLEAN,
                bus : Unit \cup {None}]

MemoryOK ==
    /\ ram \subseteq Word /\ held \subseteq Word
    /\ cached \subseteq Line /\ dirty \subseteq Line

AtOK == at \in Quiet \cup Arming \cup Stopping

HowOK == how \in [snap : [ints : BOOLEAN, eint : BOOLEAN], back : {"user", "resid"},
                  act : {"none", "finish", "disconnect", "requeue"},
                  who : Unit \cup {None}, inv : BOOLEAN]

TypeOK == DriverOK /\ SegOK /\ DmaOK /\ WdOK /\ MemoryOK /\ AtOK /\ HowOK

(* The record is made before the transfer it describes and outlives it.    *)
SegInv ==
    /\ dma.on => /\ seg.state = "PREPARED"
                 /\ dma.left \subseteq seg.words /\ dma.reading = seg.reading
    /\ seg.state = "PREPARING" <=> at = "push"
    /\ at = "push" => /\ seg.words = unit[cur].rest
                      /\ seg.reading = unit[cur].reading
                      /\ unit[cur].rest # {}
    /\ seg.state = "PREPARED" /\ ~dma.on =>
          \/ at = "complete" /\ how.inv
          \/ /\ at = "arm" /\ unit[cur].rest # {}
             /\ seg.words = unit[cur].rest /\ seg.reading = unit[cur].reading
    /\ at = "arm" => ~dma.on /\ (seg.state = "EMPTY" => unit[cur].rest = {})
    /\ at = "complete" => ~dma.on /\ seg.state = IF how.inv THEN "PREPARED" ELSE "EMPTY"
    /\ at \in {"prepare", "after"} \/ istate = "IDLE" => seg.state = "EMPTY"
    /\ at \in Arming \cup Stopping => istate \in Running
    /\ istate \in Running => cur \in Unit

DataInv ==
    /\ dirty \subseteq cached
    /\ \A w \in held : LineOf[w] \in dirty \/ w \in ram
    /\ \A w \in Word : (seg.state = "PREPARED" /\ seg.reading /\ w \in seg.words) \/ Seen(w)
    /\ seg.state = "PREPARED" =>
          \A w \in seg.words : w \in ram /\ LineOf[w] \notin dirty

(* What the driver's state says of the bus, and the bus of the status the  *)
(* chip announces.                                                         *)
Reselected == wd.ints /\ wd.ss.what = "resel" /\ wd.ss.who = wd.bus
Requeuing == at \in Stopping /\ how.act = "requeue"
Ending == at \in Stopping /\ how.act \in {"finish", "disconnect"}

StatusInv ==
    /\ at = "stock" => wd.ints
    /\ at = "demux" /\ how.snap.ints => wd.ints
    /\ wd.ints => wd.ss \in Event
    /\ wd.ints /\ wd.ss.what \in {"done", "disc", "sdp"} => at \in Quiet /\ istate \in Running
    /\ wd.ints /\ wd.ss.what = "timeout" => at \in Quiet /\ istate = "STARTING"
    /\ wd.ints /\ wd.ss.what = "resel" =>
          /\ wd.ss.who = wd.bus /\ unit[wd.bus].state = "disc"
          /\ istate \in {"IDLE", "STARTING"} \/ Ending

BusInv ==
    /\ wd.ints /\ wd.ss.what \in {"done", "disc", "timeout"} => wd.bus = None
    /\ wd.ints /\ wd.ss.what = "sdp" => wd.bus = cur
    /\ wd.run => at \in Quiet /\ istate \in Running /\ ~wd.ints
    /\ wd.run /\ wd.bus = None => istate = "STARTING"
    /\ istate \in Running => unit[cur].state = "active"
    /\ at \in Stopping => how.act # "none"
    /\ Requeuing => /\ ~wd.ints /\ istate = "STARTING"
                    /\ wd.bus = how.who /\ how.who # None
                    /\ unit[how.who].state = "disc"
    /\ Ending => wd.bus = None \/ Reselected
    /\ wd.bus # None =>
          \/ wd.bus = cur /\ istate \in Running
          \/ unit[wd.bus].state = "disc" /\ (Reselected \/ Requeuing)
    /\ istate = "RESUMING" =>
          \/ wd.bus = cur
          \/ wd.ints /\ wd.ss.what \in {"done", "disc"} /\ at \in Quiet
          \/ Ending

(* A unit waits once, and only while it is ready to start.                 *)
QueueInv ==
    \A i \in DOMAIN startq :
        /\ unit[startq[i]].state = "queued"
        /\ \A j \in DOMAIN startq : startq[i] = startq[j] => i = j

IInv == TypeOK /\ QueueInv /\ SegInv /\ DataInv /\ StatusInv /\ BusInv /\ NeverDead

-----------------------------------------------------------------------------
(* What Stock does, once the invariant says which status it can find.      *)
Acknowledges ==
    /\ at = "stock" /\ wd.ints /\ wd.ss \in Event
    /\ wd' = [wd EXCEPT !.ints = FALSE, !.ss = NoEvent]
    /\ UNCHANGED <<seg, dma, eint, flush, memory>>

Saves ==
    /\ Acknowledges
    /\ wd.ss.what = "sdp" /\ istate \in Running /\ cur \in Unit
    /\ unit' = [unit EXCEPT ![cur] = [unit[cur] EXCEPT !.rest = dma.left]]
    /\ istate' = "RESUMING" /\ at' = "command"
    /\ UNCHANGED <<startq, cur, how>>

Reconnects ==
    /\ Acknowledges
    /\ wd.ss.what = "resel" /\ istate = "IDLE"
    /\ wd.bus \in Unit /\ unit[wd.bus].state = "disc"
    /\ unit' = [unit EXCEPT ![wd.bus] = [unit[wd.bus] EXCEPT !.state = "active"]]
    /\ cur' = wd.bus /\ istate' = "RESUMING" /\ at' = "prepare"
    /\ UNCHANGED <<startq, how>>

Stops(act) ==
    /\ Acknowledges
    /\ istate \in Running /\ at' = "stop"
    /\ \/ act = "finish" /\ wd.ss.what = "done"
       \/ act = "finish" /\ wd.ss.what = "timeout" /\ istate = "STARTING"
       \/ act = "disconnect" /\ wd.ss.what = "disc"
       \/ /\ act = "requeue" /\ wd.ss.what = "resel" /\ istate = "STARTING"
          /\ wd.ss.who = wd.bus /\ unit[wd.bus].state = "disc"
    /\ how' = [how EXCEPT !.act = act, !.who = wd.ss.who]
    /\ UNCHANGED <<unit, startq, istate, cur>>

LEMMA StockCases ==
    ASSUME IInv, Stock
    PROVE  Saves \/ Reconnects \/ \E act \in {"finish", "disconnect", "requeue"} : Stops(act)
<1> USE DEF IInv
<1>1. /\ at = "stock" /\ wd.ints /\ wd.ss \in Event
      /\ istate \in {"IDLE", "STARTING", "RESUMING"}
      /\ istate \in Running => cur \in Unit
  BY DEF Stock, StatusInv, TypeOK, DriverOK, NeverDead, SegInv
<1> DEFINE e == wd.ss
           a == IF e.what = "resel" /\ unit[e.who].state # "disc" THEN "die" ELSE Action(e)
<1>2. Acknowledges /\ Dispatch(e)
  BY <1>1 DEF Stock, Pending, Acknowledges
<1>3. /\ e.what \in {"done", "disc", "sdp"} => istate \in Running
      /\ e.what = "timeout" => istate = "STARTING"
      /\ e.what = "resel" => /\ e.who = wd.bus /\ unit[wd.bus].state = "disc"
                             /\ istate \in {"IDLE", "STARTING"}
      /\ e.what \in {"done", "timeout", "sdp", "disc", "resel"} /\ e.who \in Unit
  BY <1>1 DEF StatusInv, Ending, Stopping, Event
<1>4. CASE e.what = "sdp"
  <2>1. a = "save"
    BY <1>3, <1>4 DEF Action, Running
  <2> QED
    BY <1>1, <1>2, <1>3, <1>4, <2>1 DEF Dispatch, Saves
<1>5. CASE e.what = "resel" /\ istate = "IDLE"
  <2>1. a = "reconnect"
    BY <1>3, <1>5 DEF Action
  <2> QED
    BY <1>2, <1>3, <1>5, <2>1 DEF Dispatch, Resume, Reconnects
<1>6. CASE \/ e.what \in {"done", "timeout", "disc"}
         \/ (e.what = "resel" /\ istate = "STARTING")
  <2>1. /\ a = IF e.what = "disc" THEN "disconnect"
               ELSE IF e.what = "resel" THEN "requeue" ELSE "finish"
        /\ istate \in Running
    BY <1>3, <1>6 DEF Action, Running
  <2>2. at' = "stop" /\ how' = [how EXCEPT !.act = a, !.who = e.who] /\ UNCHANGED driver
    BY <1>2, <2>1 DEF Dispatch
  <2> HIDE DEF a
  <2>3. Stops(a)
    BY <1>2, <1>3, <1>6, <2>1, <2>2 DEF Stops, driver
  <2> QED
    BY <2>1, <2>3
<1> HIDE DEF e
<1> QED
  BY <1>3, <1>4, <1>5, <1>6

(* And what After does.                                                    *)
Finishes ==
    /\ how.act = "finish"
    /\ unit' = [unit EXCEPT ![cur] = Idle]
    /\ istate' = "IDLE" /\ cur' = None /\ at' = "startany"
    /\ UNCHANGED startq

Disconnects ==
    /\ how.act = "disconnect"
    /\ unit' = [unit EXCEPT ![cur] = [unit[cur] EXCEPT !.state = "disc"]]
    /\ istate' = "IDLE" /\ cur' = None /\ at' = "startany"
    /\ UNCHANGED startq

Requeues ==
    /\ how.act = "requeue" /\ istate = "STARTING" /\ ~wd.ints
    /\ wd.bus = how.who /\ how.who \in Unit /\ how.who # cur
    /\ unit[how.who].state = "disc"
    /\ unit' = [unit EXCEPT ![cur] = [unit[cur] EXCEPT !.state = "queued", !.rest = {}],
                            ![how.who] = [unit[how.who] EXCEPT !.state = "active"]]
    /\ startq' = Append(startq, cur)
    /\ cur' = how.who /\ istate' = "RESUMING" /\ at' = "prepare"

LEMMA AfterCases ==
    ASSUME IInv, After
    PROVE  /\ at = "after" /\ cur \in Unit /\ unit[cur].state = "active"
           /\ how' = [how EXCEPT !.act = "none", !.who = None]
           /\ UNCHANGED <<seg, chip, memory>>
           /\ Finishes \/ Disconnects \/ Requeues
<1>1. /\ at = "after" /\ istate \in Running /\ cur \in Unit /\ unit[cur].state = "active"
      /\ how.act \in {"finish", "disconnect", "requeue"}
      /\ how' = [how EXCEPT !.act = "none", !.who = None] /\ UNCHANGED <<seg, chip, memory>>
  BY DEF IInv, After, SegInv, BusInv, TypeOK, HowOK, Stopping
<1>2. CASE how.act = "finish"
  BY <1>1, <1>2 DEF After, Finishes
<1>3. CASE how.act = "disconnect"
  BY <1>1, <1>3 DEF After, Disconnects
<1>4. CASE how.act = "requeue"
  <2>1. /\ istate = "STARTING" /\ ~wd.ints /\ wd.bus = how.who
        /\ how.who \in Unit /\ unit[how.who].state = "disc"
    BY <1>1, <1>4 DEF IInv, BusInv, Requeuing, Stopping, TypeOK, HowOK
  <2>2. how.who # cur
    BY <1>1, <2>1
  <2>3. unit' = [unit EXCEPT ![cur].state = "queued", ![cur].rest = {},
                             ![how.who].state = "active"]
    BY <1>1, <1>4 DEF After
  <2>4. unit' = [unit EXCEPT ![cur] = [unit[cur] EXCEPT !.state = "queued", !.rest = {}],
                             ![how.who] = [unit[how.who] EXCEPT !.state = "active"]]
    BY <1>1, <2>1, <2>2, <2>3 DEF IInv, TypeOK, DriverOK
  <2>5. startq' = Append(startq, cur) /\ cur' = how.who /\ istate' = "RESUMING" /\ at' = "prepare"
    BY <1>1, <1>4 DEF After, Resume
  <2> QED
    BY <1>1, <1>4, <2>1, <2>2, <2>4, <2>5 DEF Requeues
<1> QED
  BY <1>1, <1>2, <1>3, <1>4

-----------------------------------------------------------------------------

(* A step keeps the types; what it leaves alone keeps them by <1>a.         *)
LEMMA TypeOKStep == IInv /\ [Next]_vars => TypeOK'
<1> SUFFICES ASSUME IInv, [Next]_vars PROVE TypeOK'
    OBVIOUS
<1> USE A3091Assumption DEF IInv, TypeOK, driver, chip, memory
<1>a. /\ UNCHANGED driver => DriverOK'
      /\ UNCHANGED seg => SegOK'
      /\ UNCHANGED <<dma, eint, flush>> => DmaOK'
      /\ UNCHANGED wd => WdOK'
      /\ UNCHANGED memory => MemoryOK'
      /\ UNCHANGED at => AtOK'
      /\ UNCHANGED how => HowOK'
  BY DEF DriverOK, SegOK, DmaOK, WdOK, MemoryOK, AtOK, HowOK
<1> USE <1>a
<1>1. ASSUME Select PROVE TypeOK'
  BY <1>1 DEF Select, WdOK, DriverOK
<1>2. ASSUME NoTarget PROVE TypeOK'
  BY <1>2 DEF NoTarget, Interrupt, WdOK, BusInv, SegInv, Running, DriverOK, Event
<1>3. ASSUME Done PROVE TypeOK'
  BY <1>3 DEF Done, Interrupt, Connected, WdOK, Event
<1>4. ASSUME \E w \in Word : Transfer(w) PROVE TypeOK'
  <2>1. DmaOK'
    BY <1>4 DEF Transfer, Connected, DmaOK
  <2>2. MemoryOK'
    BY <1>4 DEF Transfer, Connected, MemoryOK
  <2> QED
    BY <1>4, <2>1, <2>2 DEF Transfer, Connected
<1>5. ASSUME Enter PROVE TypeOK'
  <2>1. AtOK'
    BY <1>5 DEF Enter, Pending, AtOK, Quiet, Arming, Stopping
  <2>2. [ints |-> wd.ints, eint |-> eint] \in [ints : BOOLEAN, eint : BOOLEAN]
    BY DEF WdOK, DmaOK
  <2>3. HowOK'
    BY <1>5, <2>2 DEF Enter, HowOK
  <2> QED
    BY <1>5, <2>1, <2>3 DEF Enter
<1>6. ASSUME DemuxWd PROVE TypeOK'
  <2>1. AtOK'
    BY <1>6 DEF DemuxWd, Delegate, NoSnap, AtOK, Quiet, Arming, Stopping
  <2>2. HowOK'
    BY <1>6 DEF DemuxWd, Delegate, NoSnap, HowOK
  <2> QED
    BY <1>6, <2>1, <2>2 DEF DemuxWd, Delegate, NoSnap
<1>7. ASSUME DemuxEint PROVE TypeOK'
  <2>1. DmaOK'
    BY <1>7 DEF DemuxEint, NoSnap, DmaOK
  <2>2. AtOK'
    BY <1>7 DEF DemuxEint, NoSnap, AtOK, Quiet, Arming, Stopping
  <2>3. HowOK'
    BY <1>7 DEF DemuxEint, NoSnap, HowOK
  <2> QED
    BY <1>7, <2>1, <2>2, <2>3 DEF DemuxEint, NoSnap
<1>8. ASSUME Reread PROVE TypeOK'
  <2>1. AtOK'
    BY <1>8 DEF Reread, Delegate, AtOK, Quiet, Arming, Stopping
  <2>2. CASE wd.ints
    <3>1. HowOK'
      <4>1. how' = [how EXCEPT !.snap = NoSnap, !.back = "user"]
        BY <1>8, <2>2 DEF Reread, Delegate
      <4> QED
        BY <4>1 DEF NoSnap, HowOK
    <3> QED
      BY <1>8, <2>1, <2>2, <3>1 DEF Reread
  <2>3. CASE ~wd.ints
    BY <1>8, <2>1, <2>3 DEF Reread
  <2> QED
    BY <2>2, <2>3
<1>9. ASSUME Residual PROVE TypeOK'
  <2>1. DmaOK'
    BY <1>9 DEF Residual, DmaOK
  <2>2. AtOK'
    BY <1>9 DEF Residual, AtOK, Quiet, Arming, Stopping
  <2>3. HowOK'
    BY <1>9 DEF Residual, HowOK
  <2> QED
    BY <1>9, <2>1, <2>2, <2>3 DEF Residual
<1>10. ASSUME Stock PROVE TypeOK'
  <2>1. CASE Saves
    <3>1. [unit[cur] EXCEPT !.rest = dma.left] \in Request
      <4>1. unit[cur] \in Request /\ dma.left \subseteq Word
        BY <2>1 DEF Saves, DriverOK, DmaOK
      <4> QED
        BY <4>1 DEF Request
    <3>2. DriverOK' /\ AtOK' /\ HowOK'
      BY <2>1, <3>1 DEF Saves, DriverOK, AtOK, Arming
    <3> QED
      BY <2>1, <3>2 DEF Saves, Acknowledges, WdOK
  <2>2. CASE Reconnects
    <3>1. [unit[wd.bus] EXCEPT !.state = "active"] \in Request
      <4>1. unit[wd.bus] \in Request
        BY <2>2 DEF Reconnects, DriverOK
      <4> QED
        BY <4>1 DEF Request
    <3>2. DriverOK' /\ AtOK' /\ HowOK'
      BY <2>2, <3>1 DEF Reconnects, DriverOK, AtOK, Arming
    <3> QED
      BY <2>2, <3>2 DEF Reconnects, Acknowledges, WdOK
  <2>3. ASSUME NEW act \in {"finish", "disconnect", "requeue"}, Stops(act)
        PROVE  TypeOK'
    <3>1. wd.ss.who \in Unit
      BY <2>3 DEF Stops, Acknowledges, Event
    <3>2. AtOK' /\ HowOK'
      BY <2>3, <3>1 DEF Stops, AtOK, Stopping, HowOK
    <3> QED
      BY <2>3, <3>2 DEF Stops, Acknowledges, WdOK
  <2> QED
    BY <1>10, <2>1, <2>2, <2>3, StockCases
<1>11. ASSUME StartAny PROVE TypeOK'
  <2>1. AtOK'
    BY <1>11 DEF StartAny, AtOK, HowOK, Quiet, Arming, Stopping
  <2>2. CASE istate = "IDLE" /\ startq # <<>>
    <3>1. Head(startq) \in Unit /\ Tail(startq) \in Seq(Unit)
      BY <2>2 DEF DriverOK
    <3>2. unit' \in [Unit -> Request]
      <4> DEFINE h == Head(startq)
      <4>1. [unit[h] EXCEPT !.state = "active", !.rest = unit[h].req] \in Request
        BY <3>1 DEF DriverOK, Request
      <4>2. unit' = [unit EXCEPT ![h] =
                       [unit[h] EXCEPT !.state = "active", !.rest = unit[h].req]]
        BY <1>11, <2>2, <3>1 DEF StartAny, DriverOK
      <4> QED
        BY <3>1, <4>1, <4>2 DEF DriverOK
    <3> QED
      BY <1>11, <2>1, <2>2, <3>1, <3>2 DEF StartAny, DriverOK
  <2>3. CASE ~(istate = "IDLE" /\ startq # <<>>)
    BY <1>11, <2>1, <2>3 DEF StartAny
  <2> QED
    BY <2>2, <2>3
<1>12. ASSUME Command PROVE TypeOK'
  <2>1. WdOK'
    <3>1. (~wd.ints) \in BOOLEAN
      OBVIOUS
    <3> QED
      BY <1>12, <3>1 DEF Command, WdOK
  <2>2. AtOK'
    BY <1>12 DEF Command, AtOK, HowOK, Quiet, Arming, Stopping
  <2> QED
    BY <1>12, <2>1, <2>2 DEF Command
<1>13. ASSUME Prepare PROVE TypeOK'
  <2>1. SegOK'
    BY <1>13 DEF Prepare, SegOK, DriverOK, Request, SegInv, Running, Arming
  <2>2. AtOK'
    BY <1>13 DEF Prepare, AtOK, Quiet, Arming, Stopping, DriverOK, Request, SegInv, Running, Arming
  <2> QED
    BY <1>13, <2>1, <2>2 DEF Prepare
<1>14. ASSUME Push PROVE TypeOK'
  <2>1. SegOK'
    BY <1>14 DEF Push, PushAll, SegOK
  <2>2. MemoryOK'
    BY <1>14 DEF Push, PushAll, MemoryOK
  <2>3. AtOK'
    BY <1>14 DEF Push, PushAll, AtOK, Quiet, Arming, Stopping
  <2> QED
    BY <1>14, <2>1, <2>2, <2>3 DEF Push, PushAll
<1>15. ASSUME Arm PROVE TypeOK'
  <2>1. DmaOK'
    BY <1>15 DEF Arm, DmaOK, DriverOK, Request, SegInv, Running, Arming
  <2>2. AtOK'
    BY <1>15 DEF Arm, AtOK, Quiet, Arming, Stopping, DriverOK, Request, SegInv, Running, Arming
  <2> QED
    BY <1>15, <2>1, <2>2 DEF Arm
<1>16. ASSUME Stop PROVE TypeOK'
  <2>1. DmaOK'
    <3>1. CASE dma.on
      <4>1. /\ dma' = [on |-> FALSE, left |-> {}, reading |-> FALSE]
            /\ eint' = FALSE /\ flush' = TRUE
        BY <1>16, <3>1 DEF Stop
      <4> QED
        BY <4>1 DEF DmaOK
    <3>2. CASE ~dma.on
      BY <1>16, <3>2 DEF Stop
    <3> QED
      BY <3>1, <3>2
  <2>2. AtOK'
    BY <1>16 DEF Stop, AtOK, Stopping
  <2>3. HowOK'
    <3>1. (dma.on /\ seg.state = "PREPARED") \in BOOLEAN
      OBVIOUS
    <3> QED
      BY <1>16, <3>1 DEF Stop, HowOK
  <2> QED
    BY <1>16, <2>1, <2>2, <2>3 DEF Stop
<1>17. ASSUME Complete PROVE TypeOK'
  <2>1. SegOK'
    <3>1. NoSegment \in [state : {"EMPTY", "PREPARING", "PREPARED"},
                         words : SUBSET Word, reading : BOOLEAN]
      BY DEF NoSegment
    <3>2. seg' \in {NoSegment, seg}
      BY <1>17 DEF Complete
    <3> QED
      BY <3>1, <3>2 DEF SegOK
  <2>2. MemoryOK'
    BY <1>17 DEF Complete, Invalidate, MemoryOK
  <2>3. AtOK' /\ HowOK'
    BY <1>17 DEF Complete, AtOK, Stopping, HowOK
  <2> QED
    BY <1>17, <2>1, <2>2, <2>3 DEF Complete
<1>18. ASSUME After PROVE TypeOK'
  <2>1. cur \in Unit /\ HowOK'
    BY <1>18, AfterCases DEF HowOK
  <2>2. CASE Finishes
    <3>1. Idle \in Request
      BY DEF Idle, Request
    <3> QED
      BY <1>18, <2>1, <2>2, <3>1, AfterCases DEF Finishes, DriverOK, AtOK, Quiet
  <2>3. CASE Disconnects
    <3>1. [unit[cur] EXCEPT !.state = "disc"] \in Request
      BY <2>1 DEF DriverOK, Request
    <3> QED
      BY <1>18, <2>1, <2>3, <3>1, AfterCases DEF Disconnects, DriverOK, AtOK, Quiet
  <2>4. CASE Requeues
    <3>1. /\ [unit[cur] EXCEPT !.state = "queued", !.rest = {}] \in Request
          /\ [unit[how.who] EXCEPT !.state = "active"] \in Request
      <4>1. unit[cur] \in Request /\ unit[how.who] \in Request
        BY <2>1, <2>4 DEF Requeues, DriverOK
      <4> QED
        BY <4>1 DEF Request
    <3>2. unit' \in [Unit -> Request]
      BY <2>1, <2>4, <3>1 DEF Requeues, DriverOK
    <3>3. startq' \in Seq(Unit)
      BY <2>1, <2>4 DEF Requeues, DriverOK
    <3> QED
      BY <1>18, <2>1, <2>4, <3>2, <3>3, AfterCases DEF Requeues, DriverOK, AtOK, Arming
  <2> QED
    BY <1>18, <2>2, <2>3, <2>4, AfterCases
<1>19. ASSUME FlushEnds PROVE TypeOK'
  BY <1>19 DEF FlushEnds, DmaOK
<1>20. ASSUME \E u \in Unit : Reselect(u) PROVE TypeOK'
  <2> PICK u \in Unit : Reselect(u)
    BY <1>20
  <2>1. [what |-> "resel", who |-> u] \in Event
    BY DEF Event
  <2>2. WdOK'
    BY <2>1 DEF Reselect, Interrupt, WdOK
  <2> QED
    BY <2>2 DEF Reselect
<1>21. ASSUME \E what \in {"sdp", "disc"} : Message(what) PROVE TypeOK'
  <2> PICK what \in {"sdp", "disc"} : Message(what)
    BY <1>21
  <2>1. wd.bus \in Unit
    BY DEF Message, Connected, WdOK
  <2>2. DriverOK'
    <3>1. [unit[wd.bus] EXCEPT !.msgs = @ + 1] \in Request
      <4>1. unit[wd.bus] \in Request
        BY <2>1 DEF DriverOK
      <4>2. unit[wd.bus].msgs + 1 \in Nat
        BY <4>1 DEF Request
      <4> QED
        BY <4>1, <4>2 DEF Request
    <3>2. unit' = [unit EXCEPT ![wd.bus] = [unit[wd.bus] EXCEPT !.msgs = @ + 1]]
      BY <2>1 DEF Message, DriverOK
    <3> QED
      BY <2>1, <3>1, <3>2 DEF Message, DriverOK
  <2>3. [what |-> what, who |-> wd.bus] \in Event
    BY <2>1 DEF Event
  <2>4. WdOK'
    BY <2>3 DEF Message, Interrupt, WdOK
  <2> QED
    BY <2>2, <2>4 DEF Message
<1>22. ASSUME \E u \in Unit, reading \in BOOLEAN : \E ws \in Requests[u] : Queue(u, reading, ws) PROVE TypeOK'
  <2>1. DriverOK'
    BY <1>22 DEF Queue, DriverOK, Request
  <2>2. AtOK'
    BY <1>22 DEF Queue, AtOK, Quiet, Arming, Stopping
  <2>3. HowOK'
    BY <1>22 DEF Queue, HowOK
  <2> QED
    BY <1>22, <2>1, <2>2, <2>3 DEF Queue
<1>23. ASSUME \E l \in Line : Fill(l) PROVE TypeOK'
  BY <1>23 DEF Fill, On, MemoryOK
<1>24. ASSUME \E l \in Line : Evict(l) PROVE TypeOK'
  BY <1>24 DEF Evict, On, MemoryOK
<1>25. ASSUME \E w \in Word : CpuWrite(w) PROVE TypeOK'
  BY <1>25 DEF CpuWrite, On, Owned, Lines, MemoryOK
<1>26. ASSUME UNCHANGED vars PROVE TypeOK'
    BY <1>26 DEF vars
<1> QED
  BY <1>1, <1>2, <1>3, <1>4, <1>5, <1>6, <1>7, <1>8, <1>9, <1>10, <1>11, <1>12, <1>13, <1>14, <1>15, <1>16, <1>17, <1>18, <1>19, <1>20, <1>21, <1>22, <1>23, <1>24, <1>25, <1>26
  DEF Next, Chip, Handler

(* Only idle units join the queue, and a unit leaves it from its head.      *)
LEMMA QueueInvStep == IInv /\ [Next]_vars => QueueInv'
<1> SUFFICES ASSUME IInv, [Next]_vars PROVE QueueInv'
    OBVIOUS
<1> USE A3091Assumption DEF IInv, TypeOK, DriverOK, Request, QueueInv, BusInv,
  driver, chip, memory
<1>1. ASSUME UNCHANGED <<unit, startq>> PROVE QueueInv'
  BY <1>1 DEF QueueInv
<1>2. ASSUME Stock PROVE QueueInv'
  <2>1. CASE Saves
    BY <1>2, <2>1 DEF Saves
  <2>2. CASE Reconnects
    BY <1>2, <2>2 DEF Reconnects
  <2>3. CASE \E act \in {"finish", "disconnect", "requeue"} : Stops(act)
    BY <1>2, <2>3 DEF Stops
  <2> QED
    BY <1>2, <2>1, <2>2, <2>3, StockCases
<1>3. ASSUME StartAny PROVE QueueInv'
  <2>1. CASE istate = "IDLE" /\ startq # <<>>
    <3>1. /\ startq' = Tail(startq) /\ Head(startq) = startq[1]
          /\ \A u \in Unit : u # Head(startq) => unit'[u] = unit[u]
      BY <1>3, <2>1 DEF StartAny
    <3>2. /\ Len(startq') = Len(startq) - 1
          /\ \A i \in 1..Len(startq') : startq'[i] = startq[i + 1]
          /\ DOMAIN startq = 1..Len(startq) /\ DOMAIN startq' = 1..Len(startq')
          /\ Len(startq) \in Nat \ {0}
      BY <2>1, <3>1
    <3>3. \A i \in DOMAIN startq' : /\ i + 1 \in DOMAIN startq /\ startq[i + 1] \in Unit
                                   /\ startq[i + 1] # startq[1]
      BY <3>2
    <3>4. \A i \in DOMAIN startq' : unit'[startq'[i]].state = "queued"
      BY <3>1, <3>2, <3>3
    <3>5. \A i, j \in DOMAIN startq' : startq'[i] = startq'[j] => i = j
      BY <3>2, <3>3
    <3> QED
      BY <3>4, <3>5
  <2>2. CASE ~(istate = "IDLE" /\ startq # <<>>)
    BY <1>3, <2>2 DEF StartAny
  <2> QED
    BY <2>1, <2>2
<1>4. ASSUME After PROVE QueueInv'
  <2>1. cur \in Unit /\ unit[cur].state = "active"
    BY <1>4, AfterCases
  <2>2. CASE Finishes
    BY <2>1, <2>2 DEF Finishes
  <2>3. CASE Disconnects
    BY <2>1, <2>3 DEF Disconnects
  <2>4. CASE Requeues
    <3>1. /\ startq' = Append(startq, cur) /\ unit'[cur].state = "queued"
          /\ \A u \in Unit : unit[u].state = "queued" => unit'[u] = unit[u]
      BY <2>1, <2>4 DEF Requeues
    <3> QED
      BY <2>1, <3>1
  <2> QED
    BY <1>4, <2>2, <2>3, <2>4, AfterCases
<1>5. ASSUME \E what \in {"sdp", "disc"} : Message(what) PROVE QueueInv'
  BY <1>5 DEF Message, Interrupt, Connected
<1>6. ASSUME \E u \in Unit, reading \in BOOLEAN : \E ws \in Requests[u] : Queue(u, reading, ws) PROVE QueueInv'
  BY <1>6 DEF Queue
<1> QED
  BY <1>1, <1>2, <1>3, <1>4, <1>5, <1>6
  DEF Next, Chip, Handler, Select, NoTarget, Done, Transfer, Enter, DemuxWd,
    DemuxEint, Reread, Residual, Command, Prepare, Push, Arm, Stop, Complete,
    FlushEnds, Reselect, Fill, Evict, CpuWrite, vars, driver, chip, memory,
    PushAll, Invalidate, Delegate

(* The record is made empty before it is made again: Prepare finds it so. *)
LEMMA SegInvStep == IInv /\ [Next]_vars => SegInv'
<1> SUFFICES ASSUME IInv, [Next]_vars PROVE SegInv'
    OBVIOUS
<1> USE A3091Assumption DEF IInv, NeverDead, TypeOK, DriverOK, SegOK, DmaOK,
  WdOK, MemoryOK, AtOK, HowOK, Request, SegInv, Running, Arming, Stopping,
  Quiet, driver, chip, memory
<1>1. ASSUME UNCHANGED <<unit, cur, istate, seg, dma, at, how>> PROVE SegInv'
  BY <1>1 DEF SegInv
<1>2. ASSUME \E w \in Word : Transfer(w) PROVE SegInv'
  BY <1>2 DEF Transfer, Connected
<1>3. ASSUME Enter PROVE SegInv'
  BY <1>3 DEF Enter, Pending
<1>4. ASSUME DemuxWd PROVE SegInv'
  BY <1>4 DEF DemuxWd, Delegate, NoSnap
<1>5. ASSUME DemuxEint PROVE SegInv'
  BY <1>5 DEF DemuxEint, NoSnap
<1>6. ASSUME Reread PROVE SegInv'
  BY <1>6 DEF Reread, Delegate, NoSnap
<1>7. ASSUME Residual PROVE SegInv'
  BY <1>7 DEF Residual
<1>8. ASSUME Stock PROVE SegInv'
  <2>1. CASE Saves
    BY <1>8, <2>1 DEF Saves, Acknowledges
  <2>2. CASE Reconnects
    BY <1>8, <2>2 DEF Reconnects, Acknowledges
  <2>3. CASE \E act \in {"finish", "disconnect", "requeue"} : Stops(act)
    BY <1>8, <2>3 DEF Stops, Acknowledges
  <2> QED
    BY <1>8, <2>1, <2>2, <2>3, StockCases
<1>9. ASSUME StartAny PROVE SegInv'
  BY <1>9 DEF StartAny
<1>10. ASSUME Command PROVE SegInv'
  BY <1>10 DEF Command
<1>11. ASSUME Prepare PROVE SegInv'
  BY <1>11 DEF Prepare
<1>12. ASSUME Push PROVE SegInv'
  BY <1>12 DEF Push, PushAll
<1>13. ASSUME Arm PROVE SegInv'
  BY <1>13 DEF Arm
<1>14. ASSUME Stop PROVE SegInv'
  BY <1>14 DEF Stop
<1>15. ASSUME Complete PROVE SegInv'
  BY <1>15 DEF Complete, Invalidate, Stale, NoSegment, Lines
<1>16. ASSUME After PROVE SegInv'
  <2>1. CASE Finishes
    BY <1>16, <2>1, AfterCases DEF Finishes, Idle
  <2>2. CASE Disconnects
    BY <1>16, <2>2, AfterCases DEF Disconnects
  <2>3. CASE Requeues
    BY <1>16, <2>3, AfterCases DEF Requeues
  <2> QED
    BY <1>16, <2>1, <2>2, <2>3, AfterCases
<1>17. ASSUME \E what \in {"sdp", "disc"} : Message(what) PROVE SegInv'
  BY <1>17 DEF Message, Interrupt, Connected
<1>18. ASSUME \E u \in Unit, reading \in BOOLEAN : \E ws \in Requests[u] : Queue(u, reading, ws) PROVE SegInv'
  BY <1>18 DEF Queue
<1> QED
  BY <1>1, <1>2, <1>3, <1>4, <1>5, <1>6, <1>7, <1>8, <1>9, <1>10, <1>11, <1>12,
    <1>13, <1>14, <1>15, <1>16, <1>17, <1>18
  DEF Next, Chip, Handler, Select, NoTarget, Done, FlushEnds, Reselect, Fill,
    Evict, CpuWrite, vars, driver, chip, memory, PushAll, Invalidate, Delegate

(* A line of the segment is clean from the push to the completion, and the *)
(* completion forgets only what the device replaced.                       *)
LEMMA DataInvStep == IInv /\ [Next]_vars => DataInv'
<1> SUFFICES ASSUME IInv, [Next]_vars PROVE DataInv'
    OBVIOUS
<1> USE A3091Assumption DEF IInv, TypeOK, DriverOK, SegOK, DmaOK, WdOK,
  MemoryOK, AtOK, HowOK, SegInv, DataInv, Seen, Lines, On, driver, chip, memory
<1>1. ASSUME UNCHANGED <<seg, memory>> PROVE DataInv'
  BY <1>1 DEF DataInv
<1>2. ASSUME \E w \in Word : Transfer(w) PROVE DataInv'
  BY <1>2 DEF Transfer, Connected
<1>3. ASSUME Prepare PROVE DataInv'
  BY <1>3 DEF Prepare
<1>4. ASSUME Push PROVE DataInv'
  BY <1>4 DEF Push, PushAll
<1>5. ASSUME Complete PROVE DataInv'
  <2>1. CASE how.inv
    <3>1. /\ seg' = NoSegment
          /\ Invalidate(Stale(seg))
      BY <1>5, <2>1 DEF Complete
    <3>2. CASE seg.reading
      <4>1. /\ cached' = cached \ Lines(seg.words) /\ dirty' = dirty \ Lines(seg.words)
            /\ held' = {w \in held : LineOf[w] \notin Lines(seg.words)}
            /\ UNCHANGED ram
        BY <3>1, <3>2 DEF Invalidate, Stale
      <4>2. \A w \in Word : LineOf[w] \in Lines(seg.words) => LineOf[w] \notin dirty /\ w \in ram
        <5>1. SUFFICES ASSUME NEW w \in Word, NEW v \in seg.words, LineOf[w] = LineOf[v]
                       PROVE  LineOf[w] \notin dirty /\ w \in ram
          BY DEF Lines
        <5>2. LineOf[w] \notin dirty
          BY <1>5, <2>1, <5>1 DEF Complete
        <5> QED
          BY <1>5, <2>1, <5>2 DEF Complete
      <4> QED
        BY <3>1, <4>1, <4>2 DEF NoSegment
    <3>3. CASE ~seg.reading
      BY <1>5, <2>1, <3>1, <3>3 DEF Complete, Invalidate, Stale, NoSegment
    <3> QED
      BY <3>2, <3>3
  <2>2. CASE ~how.inv
    BY <1>5, <2>2 DEF Complete
  <2> QED
    BY <2>1, <2>2
<1>6. ASSUME \E l \in Line : Fill(l) PROVE DataInv'
  BY <1>6 DEF Fill, On
<1>7. ASSUME \E l \in Line : Evict(l) PROVE DataInv'
  BY <1>7 DEF Evict, On
<1>8. ASSUME \E w \in Word : CpuWrite(w) PROVE DataInv'
  BY <1>8 DEF CpuWrite, On, Owned, Lines
<1> QED
  BY <1>1, <1>2, <1>3, <1>4, <1>5, <1>6, <1>7, <1>8
  DEF Next, Chip, Handler, Select, NoTarget, Done, Enter, DemuxWd, DemuxEint,
    Reread, Residual, Stock, StartAny, Command, Arm, Stop, After, FlushEnds,
    Reselect, Message, Queue, vars, driver, chip, memory, PushAll, Invalidate,
    Delegate

(* A status waits where nothing changes what it was announced for.         *)
LEMMA StatusInvStep == IInv /\ [Next]_vars => StatusInv'
<1> SUFFICES ASSUME IInv, [Next]_vars PROVE StatusInv'
    OBVIOUS
<1> USE A3091Assumption DEF IInv, NeverDead, TypeOK, DriverOK, SegOK, DmaOK,
  WdOK, MemoryOK, AtOK, HowOK, Request, SegInv, StatusInv, BusInv, Reselected,
  Requeuing, Ending, Running, Arming, Stopping, Quiet, Event, driver, chip,
  memory
<1>1. ASSUME UNCHANGED <<unit, istate, wd, at, how>> PROVE StatusInv'
  BY <1>1 DEF StatusInv
<1>2. ASSUME Select PROVE StatusInv'
  BY <1>2 DEF Select
<1>3. ASSUME NoTarget PROVE StatusInv'
  BY <1>3 DEF NoTarget, Interrupt
<1>4. ASSUME Done PROVE StatusInv'
  BY <1>4 DEF Done, Interrupt, Connected
<1>5. ASSUME Enter PROVE StatusInv'
  BY <1>5 DEF Enter, Pending
<1>6. ASSUME DemuxWd PROVE StatusInv'
  BY <1>6 DEF DemuxWd, Delegate, NoSnap
<1>7. ASSUME DemuxEint PROVE StatusInv'
  BY <1>7 DEF DemuxEint, NoSnap
<1>8. ASSUME Reread PROVE StatusInv'
  BY <1>8 DEF Reread, Delegate, NoSnap
<1>9. ASSUME Residual PROVE StatusInv'
  BY <1>9 DEF Residual
<1>10. ASSUME Stock PROVE StatusInv'
  <2>1. CASE Saves
    BY <1>10, <2>1 DEF Saves, Acknowledges
  <2>2. CASE Reconnects
    BY <1>10, <2>2 DEF Reconnects, Acknowledges
  <2>3. CASE \E act \in {"finish", "disconnect", "requeue"} : Stops(act)
    BY <1>10, <2>3 DEF Stops, Acknowledges
  <2> QED
    BY <1>10, <2>1, <2>2, <2>3, StockCases
<1>11. ASSUME StartAny PROVE StatusInv'
  <2>1. CASE istate = "IDLE" /\ startq # <<>>
    <3>1. Head(startq) = startq[1] /\ 1 \in DOMAIN startq /\ Head(startq) \in Unit
      BY <2>1
    <3>2. unit[Head(startq)].state = "queued"
      BY <3>1 DEF QueueInv
    <3>3. /\ \A u \in Unit : u # Head(startq) => unit'[u] = unit[u]
          /\ istate' = "STARTING" /\ at' = "prepare" /\ UNCHANGED <<wd, how>>
      BY <1>11, <2>1, <3>1 DEF StartAny
    <3>4. ASSUME wd.ints, wd.ss.what = "resel"
          PROVE  wd.ss.who = wd.bus /\ unit'[wd.bus].state = "disc"
      BY <3>2, <3>3, <3>4
    <3> QED
      BY <2>1, <3>3, <3>4
  <2>2. CASE ~(istate = "IDLE" /\ startq # <<>>)
    BY <1>11, <2>2 DEF StartAny
  <2> QED
    BY <2>1, <2>2
<1>12. ASSUME Command PROVE StatusInv'
  BY <1>12 DEF Command
<1>13. ASSUME Prepare PROVE StatusInv'
  BY <1>13 DEF Prepare
<1>14. ASSUME Push PROVE StatusInv'
  BY <1>14 DEF Push, PushAll
<1>15. ASSUME Arm PROVE StatusInv'
  BY <1>15 DEF Arm
<1>16. ASSUME Stop PROVE StatusInv'
  BY <1>16 DEF Stop
<1>17. ASSUME Complete PROVE StatusInv'
  BY <1>17 DEF Complete, Invalidate, Stale, NoSegment, Lines
<1>18. ASSUME After PROVE StatusInv'
  <2>1. CASE Finishes
    BY <1>18, <2>1, AfterCases DEF Finishes, Idle
  <2>2. CASE Disconnects
    BY <1>18, <2>2, AfterCases DEF Disconnects
  <2>3. CASE Requeues
    BY <1>18, <2>3, AfterCases DEF Requeues
  <2> QED
    BY <1>18, <2>1, <2>2, <2>3, AfterCases
<1>19. ASSUME \E u \in Unit : Reselect(u) PROVE StatusInv'
  BY <1>19 DEF Reselect, Interrupt
<1>20. ASSUME \E what \in {"sdp", "disc"} : Message(what) PROVE StatusInv'
  BY <1>20 DEF Message, Interrupt, Connected
<1>21. ASSUME \E u \in Unit, reading \in BOOLEAN : \E ws \in Requests[u] : Queue(u, reading, ws) PROVE StatusInv'
  BY <1>21 DEF Queue
<1> QED
  BY <1>1, <1>2, <1>3, <1>4, <1>5, <1>6, <1>7, <1>8, <1>9, <1>10, <1>11, <1>12,
    <1>13, <1>14, <1>15, <1>16, <1>17, <1>18, <1>19, <1>20, <1>21
  DEF Next, Chip, Handler, Transfer, FlushEnds, Fill, Evict, CpuWrite, vars,
    driver, chip, memory, PushAll, Invalidate, Delegate

(* The bus belongs to the current unit, or to one that reselected.         *)
LEMMA BusInvStep == IInv /\ [Next]_vars => BusInv'
<1> SUFFICES ASSUME IInv, [Next]_vars PROVE BusInv'
    OBVIOUS
<1> USE A3091Assumption DEF IInv, NeverDead, TypeOK, DriverOK, SegOK, DmaOK,
  WdOK, MemoryOK, AtOK, HowOK, Request, QueueInv, SegInv, StatusInv, BusInv,
  Reselected, Requeuing, Ending, Running, Arming, Stopping, Quiet, Event,
  driver, chip, memory
<1>1. ASSUME UNCHANGED <<unit, cur, istate, wd, at, how>> PROVE BusInv'
  BY <1>1 DEF BusInv
<1>2. ASSUME Select PROVE BusInv'
  BY <1>2 DEF Select
<1>3. ASSUME NoTarget PROVE BusInv'
  BY <1>3 DEF NoTarget, Interrupt
<1>4. ASSUME Done PROVE BusInv'
  BY <1>4 DEF Done, Interrupt, Connected
<1>5. ASSUME Enter PROVE BusInv'
  BY <1>5 DEF Enter, Pending
<1>6. ASSUME DemuxWd PROVE BusInv'
  BY <1>6 DEF DemuxWd, Delegate, NoSnap
<1>7. ASSUME DemuxEint PROVE BusInv'
  BY <1>7 DEF DemuxEint, NoSnap
<1>8. ASSUME Reread PROVE BusInv'
  BY <1>8 DEF Reread, Delegate, NoSnap
<1>9. ASSUME Residual PROVE BusInv'
  BY <1>9 DEF Residual
<1>10. ASSUME Stock PROVE BusInv'
  <2>1. CASE Saves
    BY <1>10, <2>1 DEF Saves, Acknowledges
  <2>2. CASE Reconnects
    BY <1>10, <2>2 DEF Reconnects, Acknowledges
  <2>3. CASE \E act \in {"finish", "disconnect", "requeue"} : Stops(act)
    BY <1>10, <2>3 DEF Stops, Acknowledges
  <2> QED
    BY <1>10, <2>1, <2>2, <2>3, StockCases
<1>11. ASSUME StartAny PROVE BusInv'
  BY <1>11 DEF StartAny
<1>12. ASSUME Command PROVE BusInv'
  BY <1>12 DEF Command
<1>13. ASSUME Prepare PROVE BusInv'
  BY <1>13 DEF Prepare
<1>14. ASSUME Push PROVE BusInv'
  BY <1>14 DEF Push, PushAll
<1>15. ASSUME Arm PROVE BusInv'
  BY <1>15 DEF Arm
<1>16. ASSUME Stop PROVE BusInv'
  BY <1>16 DEF Stop
<1>17. ASSUME Complete PROVE BusInv'
  BY <1>17 DEF Complete, Invalidate, Stale, NoSegment, Lines
<1>18. ASSUME After PROVE BusInv'
  <2>1. CASE Finishes
    BY <1>18, <2>1, AfterCases DEF Finishes, Idle
  <2>2. CASE Disconnects
    BY <1>18, <2>2, AfterCases DEF Disconnects
  <2>3. CASE Requeues
    BY <1>18, <2>3, AfterCases DEF Requeues
  <2> QED
    BY <1>18, <2>1, <2>2, <2>3, AfterCases
<1>19. ASSUME \E u \in Unit : Reselect(u) PROVE BusInv'
  BY <1>19 DEF Reselect, Interrupt
<1>20. ASSUME \E what \in {"sdp", "disc"} : Message(what) PROVE BusInv'
  BY <1>20 DEF Message, Interrupt, Connected
<1>21. ASSUME \E u \in Unit, reading \in BOOLEAN : \E ws \in Requests[u] : Queue(u, reading, ws) PROVE BusInv'
  BY <1>21 DEF Queue
<1> QED
  BY <1>1, <1>2, <1>3, <1>4, <1>5, <1>6, <1>7, <1>8, <1>9, <1>10, <1>11, <1>12,
    <1>13, <1>14, <1>15, <1>16, <1>17, <1>18, <1>19, <1>20, <1>21
  DEF Next, Chip, Handler, Transfer, FlushEnds, Fill, Evict, CpuWrite, vars,
    driver, chip, memory, PushAll, Invalidate, Delegate

(* The driver dies of no status: StockCases leaves none it would die of.    *)
LEMMA NeverDeadStep == IInv /\ [Next]_vars => NeverDead'
<1> SUFFICES ASSUME IInv, [Next]_vars PROVE NeverDead'
    OBVIOUS
<1> USE DEF IInv, NeverDead
<1>1. ASSUME UNCHANGED istate PROVE NeverDead'
  BY <1>1
<1>2. ASSUME Stock PROVE NeverDead'
  BY <1>2, StockCases DEF Saves, Reconnects, Stops
<1>3. ASSUME StartAny PROVE NeverDead'
  BY <1>3 DEF StartAny, driver
<1>4. ASSUME After PROVE NeverDead'
  BY <1>4, AfterCases DEF Finishes, Disconnects, Requeues
<1> QED
  BY <1>1, <1>2, <1>3, <1>4
  DEF Next, Chip, Handler, Select, NoTarget, Done, Transfer, Enter, DemuxWd,
      DemuxEint, Reread, Residual, Command, Prepare, Push, Arm, Stop, Complete,
      FlushEnds, Reselect, Message, Queue, Fill, Evict, CpuWrite, vars, driver,
      chip, memory

LEMMA InitIInv == Init => IInv
<1> SUFFICES ASSUME Init PROVE IInv
    OBVIOUS
<1> USE A3091Assumption DEF Init
<1>1. Idle \in Request
  BY DEF Idle, Request
<1>2. DriverOK /\ SegOK
  BY <1>1 DEF DriverOK, SegOK, NoSegment
<1>3. DmaOK /\ WdOK /\ MemoryOK /\ AtOK /\ HowOK
  BY DEF DmaOK, WdOK, MemoryOK, AtOK, HowOK, Quiet, NoSnap
<1>4. QueueInv /\ SegInv
  BY DEF QueueInv, SegInv, NoSegment, Running, Arming, Stopping
<1>5. DataInv
  BY DEF DataInv, Seen, NoSegment
<1>6. StatusInv /\ BusInv /\ NeverDead
  BY DEF StatusInv, BusInv, NeverDead, Requeuing, Ending, Running, Stopping
<1> QED
  BY <1>2, <1>3, <1>4, <1>5, <1>6 DEF IInv, TypeOK

LEMMA StepIInv == IInv /\ [Next]_vars => IInv'
  BY TypeOKStep, QueueInvStep, SegInvStep, DataInvStep, StatusInvStep, BusInvStep,
     NeverDeadStep
  DEF IInv

-----------------------------------------------------------------------------

(* The driver's tables, the ownership record, the chip and the caches keep *)
(* their shape; a handler that runs to its end leaves no half-made record. *)
THEOREM A3091TypeCorrect == Spec => []TypeOK
<1>1. IInv => TypeOK
  BY DEF IInv
<1> QED
  BY <1>1, InitIInv, StepIInv, PTL DEF Spec

(* What the processor loads is current, however its own stores, the cache's *)
(* fills and evictions and a device's transfers interleave.                 *)
THEOREM LoadsAreCurrent == Spec => []WordsCurrent
<1>1. IInv => WordsCurrent
  BY DEF IInv, DataInv, WordsCurrent
<1> QED
  BY <1>1, InitIInv, StepIInv, PTL DEF Spec

(* What a device has yet to fetch is in RAM, for the first segment of a    *)
(* request and for the suffix armed again after a reconnection.            *)
THEOREM FetchesAreCurrent == Spec => []DeviceReadsCurrent
<1>1. IInv => DeviceReadsCurrent
  BY DEF IInv, SegInv, DataInv, DeviceReadsCurrent
<1> QED
  BY <1>1, InitIInv, StepIInv, PTL DEF Spec

(* No order of chip interrupts, flush ends, reselections and requests      *)
(* brings the driver a status it shuts down on.                            *)
THEOREM DriverSurvives == Spec => []NeverDead
<1>1. IInv => NeverDead
  BY DEF IInv
<1> QED
  BY <1>1, InitIInv, StepIInv, PTL DEF Spec
=============================================================================
