--------------------------- MODULE MCTclSession ----------------------------
(* Hubs with two boards, in different orders, and one with a bare FPGA.     *)
EXTENDS TclSession

\* A Zynq: its debug port, two cores and the fabric.
Dap(c) == Target(c, <<c, "dap">>, {"dap"}, 0)
Core0(c) == Target(c, <<c, "core0">>, {"processor", "#0", "dap"}, 1)
Core1(c) == Target(c, <<c, "core1">>, {"processor", "dap"}, 1)
Fpga(c) == Target(c, <<c, "fpga">>, {"fpga"}, 0)

MCChains ==
    {<<Dap("a"), Core0("a"), Core1("a"), Fpga("a"), Dap("b"), Core0("b"), Core1("b"), Fpga("b")>>,
     <<Fpga("a"), Fpga("b"), Core1("b"), Core0("b"), Dap("b"), Core1("a"), Core0("a"), Dap("a")>>,
     <<Core1("b"), Core1("a"), Core0("b"), Fpga("b"), Fpga("a"), Dap("b")>>,
     <<Fpga("b")>>}
=============================================================================
