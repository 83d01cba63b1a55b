------------------------- MODULE MCImageBuildChains -------------------------
(***************************************************************************)
(* What each relocation of each kernel can come to name, from the scripts  *)
(* of MCImageBuild: TLC evaluates the hypothesis of the theorems on        *)
(* handler chains for the real patchers before it checks the run.          *)
(***************************************************************************)
EXTENDS MCImageBuild

\* f and the files it is derived from: no pass is more than five away from
\* the base link.
Up(fs) == fs \cup {Script[n].in : n \in {m \in Names :
                       ~Script[m].linked /\ Script[m].out \in fs}}
Lineage(f) == Up(Up(Up(Up(Up({f})))))

\* What can have run over f or over what it is derived from.
RunOver(f) == Patcher \cup UNION {{Script[n].link} \cup ToSet(Script[n].steps) :
                                    n \in {m \in Names : Script[m].out \in Lineage(f)}}

\* A slot names its stock symbol, one that a patcher gives it, or one that a
\* patcher displaced.
CanName ==
    [f \in File |->
        LET retarget == {p \in RunOver(f) : DOMAIN p.links # {}}
        IN  [s \in Slots |->
                {Stock.slot[s]}
                \cup {p.links[s].to : p \in {q \in retarget : s \in DOMAIN q.links}}
                \cup UNION {p.links[p.saves[s]].from :
                              p \in {q \in retarget : s \in DOMAIN q.saves}}]]

\* The set around it makes TLC evaluate it once.
MCMay == CHOOSE m \in {CanName} : TRUE

\* The place of a handler before the end of its chain.
MCRank == [h \in DOMAIN Exit |->
             IF h \in {"uft_latch", "kvd_utraps", "isp61_vec", "fpe_vec11",
                       "fpe_vec60"} THEN 1 ELSE 0]

ASSUME MCChains == ChainsSettled(MCMay, MCRank)
=============================================================================
