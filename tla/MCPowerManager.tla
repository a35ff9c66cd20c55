--------------------------- MODULE MCPowerManager ----------------------------
(***************************************************************************)
(* An instance of PowerManager: a laptop that never sleeps by itself, so   *)
(* that the idle machine is small and the other parts have room.           *)
(***************************************************************************)
EXTENDS PowerManager

QuietLaptop ==
  [type |-> [ac |-> "nothing", battery |-> "nothing"],
   timeout |-> [ac |-> 0, battery |-> 0],
   idle_dim |-> FALSE, idle_delay |-> 300, ambient |-> FALSE]

OneSetting == {QuietLaptop}
==============================================================================
