----------------------------- MODULE KernelSet -----------------------------
(***************************************************************************)
(* What the link scripts promise of the kernels they leave on disk: every  *)
(* finished kernel carries the whole port, a kernel derived from a         *)
(* finished one loses nothing that one had, and a finished kernel never    *)
(* changes while it still counts as finished.  What a kernel has is the    *)
(* set of its conversions and the set of handlers a trap can reach in it.  *)
(***************************************************************************)
CONSTANTS File,     \* kernel files
          From,     \* file -> the file it is derived from, or Linked
          Linked,   \* "derived from" of a kernel linked from the stock one
          Port      \* what every kernel of the port has

VARIABLE kernels    \* file -> [done: finished and trusted, has: what it has]

Nothing == [done |-> FALSE, has |-> [conv |-> {}, reach |-> {}]]

Covers(b, a) == a.conv \subseteq b.conv /\ a.reach \subseteq b.reach

Init == /\ DOMAIN kernels = File
        /\ \A f \in File : IF kernels[f].done THEN Covers(kernels[f].has, Port)
                                              ELSE kernels[f] = Nothing

\* A file is overwritten by a new link, or changed by hand.
Withdraw(f) == /\ kernels[f].done
               /\ kernels' = [kernels EXCEPT ![f] = Nothing]

\* A link or a pass finishes; a pass started from a finished kernel and
\* keeps what that one has.
Release(f) == /\ ~kernels[f].done
              /\ kernels'[f].done
              /\ Covers(kernels'[f].has, Port)
              /\ From[f] # Linked => /\ kernels[From[f]].done
                                     /\ Covers(kernels'[f].has, kernels[From[f]].has)
              /\ kernels' = [kernels EXCEPT ![f] = kernels'[f]]

Next == \E f \in File : Withdraw(f) \/ Release(f)

Spec == Init /\ [][Next]_kernels
=============================================================================
