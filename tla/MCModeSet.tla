----------------------------- MODULE MCModeSet -----------------------------
(* A desktop of generation 4 with a laptop panel, the analog and digital    *)
(* ports of generation 5, two ports on one pipe and PLL of generation 6,    *)
(* pipe C and its PLL A on generation 7, a DDI port of generation 9 with    *)
(* the PLL the firmware chose, and pipe D with the plane of A on            *)
(* generation 12.                                                          *)
EXTENDS ModeSet

Port(class, pipe, pll) == [class |-> class, pipe |-> pipe, pll |-> pll]

MCMachines ==
  {[gen |-> 4, ports |-> <<Port("dp", "A", 0), Port("lvds", "B", 0)>>],
   [gen |-> 5, ports |-> <<Port("analog", "A", 0), Port("lvds", "B", 0)>>],
   [gen |-> 6, ports |-> <<Port("lvds", "A", 0), Port("digital", "A", 0)>>],
   [gen |-> 7, ports |-> <<Port("digital", "C", 0)>>],
   [gen |-> 9, ports |-> <<Port("ddi", "A", 1)>>],
   [gen |-> 12, ports |-> <<Port("ddi", "A", 0), Port("ddi", "D", 1)>>]}

MCModes == {[pitch |-> 1, height |-> 2], [pitch |-> 3, height |-> 1]}
============================================================================
