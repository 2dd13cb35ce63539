---------------------------- MODULE JtagTargets ----------------------------
(***************************************************************************)
(* Which core and which debug port belong to an FPGA: the selection that   *)
(* DISCOVER_JTAG_TARGETS_TCL makes among all the targets the hardware      *)
(* server lists, those of the other boards on the hub included.            *)
(***************************************************************************)
EXTENDS Naturals, Sequences, FiniteSets

CONSTANT NoContext

\* What the script reads of a target: the cable it hangs on, its context, and
\* what its name and JTAG device say of it.  A core can be a debug port too.
Kinds == {"fpga", "processor", "#0", "dap"}

Target(cable, ctx, is, level) == [cable |-> cable, ctx |-> ctx, is |-> is, level |-> level]

\* Places in the list of targets.
On(chain, cable, kind) ==
    {i \in DOMAIN chain : chain[i].cable = cable /\ kind \in chain[i].is}

First(S) == CHOOSE i \in S : \A j \in S : i <= j
Last(S) == CHOOSE i \in S : \A j \in S : j <= i

\* The first core that is number 0, or else the first core.
SelectedCore(chain, cable) ==
    LET cores == On(chain, cable, "processor")
        zeroes == {i \in cores : "#0" \in chain[i].is}
    IN  IF cores = {} THEN NoContext
        ELSE chain[First(IF zeroes = {} THEN cores ELSE zeroes)].ctx

\* The last debug port of the cable is taken, whatever its level.
LastDap(chain, cable) ==
    LET daps == On(chain, cable, "dap")
    IN  IF daps = {} THEN NoContext ELSE chain[Last(daps)].ctx

\* The first debug port stands until one of level 0 comes; the last of those stays.
SelectedDap(chain, cable) ==
    LET daps == On(chain, cable, "dap")
        roots == {i \in daps : chain[i].level = 0}
    IN  IF daps = {} THEN NoContext
        ELSE chain[IF roots = {} THEN First(daps) ELSE Last(roots)].ctx

\* The places of the FPGAs, in the order of the targets.
Fpgas(chain) ==
    LET places == {i \in DOMAIN chain : "fpga" \in chain[i].is}
    IN  CHOOSE f \in [1..Cardinality(places) -> places] :
            \A i, j \in DOMAIN f : i < j => f[i] < f[j]

\* One line of the listing for every FPGA.
Contexts(chain) ==
    [n \in DOMAIN Fpgas(chain) |->
        LET fpga == chain[Fpgas(chain)[n]]
        IN  [cable |-> fpga.cable, fpga |-> fpga.ctx,
             core  |-> SelectedCore(chain, fpga.cable),
             dap   |-> SelectedDap(chain, fpga.cable)]]

-----------------------------------------------------------------------------

\* ctx names a target of the cable that is of the kind, and one of the preferred
\* places if there is any; it is missing only where there is none at all.
Fits(chain, cable, ctx, kind, preferred) ==
    LET all == On(chain, cable, kind)
        best == all \cap preferred
    IN  IF all = {} THEN ctx = NoContext
        ELSE \E i \in IF best = {} THEN all ELSE best : ctx = chain[i].ctx

\* What program_pl, program_ps and reset_board need of a context, without the
\* order of the listing: every part is on the cable of the FPGA, core number 0
\* and a debug port of level 0 are preferred.
IsBoard(chain, c) ==
    /\ \E i \in On(chain, c.cable, "fpga") : chain[i].ctx = c.fpga
    /\ Fits(chain, c.cable, c.core, "processor", {i \in DOMAIN chain : "#0" \in chain[i].is})
    /\ Fits(chain, c.cable, c.dap, "dap", {i \in DOMAIN chain : chain[i].level = 0})
=============================================================================
