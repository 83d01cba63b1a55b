---------------------------- MODULE KernelImage ----------------------------
(***************************************************************************)
(* The relocatable kernel as the image patchers see it, and what one run   *)
(* of a patcher does to it.                                                *)
(*                                                                         *)
(* A kernel is a record:                                                   *)
(*   conv  the units (groups of pinned byte sites) that hold their new     *)
(*         bytes; every other unit holds the stock bytes                   *)
(*   slot  for each relocated word (or group of words that one patcher      *)
(*         retargets together), the symbol it names                        *)
(*   syms  the symbols linked into it                                      *)
(* A patcher is a record of the fields of NoPatch.  A unit never holds a   *)
(* third value: every patcher reads the whole file, checks every site and  *)
(* writes once, and the build starts from one pinned stock kernel.         *)
(***************************************************************************)
EXTENDS Naturals

NoPatch ==
    [ writes  |-> {},       \* units rewritten, each accepted old or new
      whole   |-> FALSE,    \* refuses a unit set of which only a part is new
      reverts |-> {},       \* units put back
      new     |-> {},       \* canaries that must hold the new bytes
      old     |-> {},       \* canaries that must hold the stock bytes
      needs   |-> {},       \* symbols that must be linked
      adds    |-> {},       \* symbols this step links (ld -r)
      at      |-> <<>>,     \* canary slots: slot -> symbols allowed there
      links   |-> <<>>,     \* slot -> [from: symbols replaced, to: symbol]
      saves   |-> <<>>,     \* slot -> the slot whose displaced symbol it gets
      agree   |-> {},       \* <<slot, symbol, unit>>: named iff converted
      closed  |-> FALSE,    \* every slot names a linked symbol
      stamp   |-> FALSE ]   \* stamp_buildid.py

\* One retarget: a relocation that names one of "from" is made to name "to".
Retarget(from, to) == [from |-> from, to |-> to]

InPlace(p, k) ==
    /\ p.writes \subseteq k.conv
    /\ \A s \in DOMAIN p.links : k.slot[s] = p.links[s].to

AlreadyIgnored(p, k) == FALSE
\* A patcher that saves what it displaces returns at once when its own
\* symbol is already in the slot.
AlreadyDone(p, k) == DOMAIN p.saves # {} /\ InPlace(p, k)

StockCanaries(p, k) == p.old \cap k.conv = {}
\* The sites a patcher reads but does not write.
Canaries(p, k) == p.new \subseteq k.conv /\ p.old \cap k.conv = {}

Accepts(p, k) ==
    \/ AlreadyDone(p, k)
    \/ /\ p.needs \subseteq k.syms
       /\ p.adds \cap k.syms = {}
       /\ Canaries(p, k)
       /\ p.whole => p.writes \subseteq k.conv \/ p.writes \cap k.conv = {}
       /\ \A s \in DOMAIN p.at : k.slot[s] \in p.at[s]
       /\ \A s \in DOMAIN p.links :
             k.slot[s] \in p.links[s].from \cup {p.links[s].to}
       /\ \A s \in DOMAIN p.saves : k.slot[s] = "nullvect"
       /\ \A a \in p.agree : k.slot[a[1]] = a[2] <=> a[3] \in k.conv
       /\ p.closed => \A s \in DOMAIN k.slot : k.slot[s] \in k.syms

SavedNothing(p, k, s) == k.slot[s]
\* The slot a handler declines to gets the symbol the handler displaces.
Saved(p, k, s) ==
    IF s \in DOMAIN p.saves THEN k.slot[p.saves[s]] ELSE k.slot[s]

Patched(p, k) ==
    [ conv |-> (k.conv \cup p.writes) \ p.reverts,
      slot |-> [s \in DOMAIN k.slot |->
                  IF s \in DOMAIN p.links THEN p.links[s].to
                                          ELSE Saved(p, k, s)],
      syms |-> k.syms \cup p.adds ]

\* The file after a patcher that accepted it.
Effect(p, k) == IF AlreadyDone(p, k) THEN k ELSE Patched(p, k)

----------------------------------------------------------------------------
(* Handler chains.  exit maps a linked handler to the slot through which   *)
(* it passes on what it does not take itself.                              *)

\* The symbols the chains from the slots es visit in their first n + 1 steps.
Follow(k, exit, es, n) ==
    LET seen[i \in 0 .. n] ==
          IF i = 0 THEN {k.slot[s] : s \in es}
          ELSE seen[i - 1] \cup
               {k.slot[exit[h]] : h \in seen[i - 1] \cap DOMAIN exit}
    IN  seen[n]
=============================================================================
