---------------------------- MODULE MCPowerIdle ------------------------------
(***************************************************************************)
(* Instances of PowerIdle: setting states that differ in one key, so that  *)
(* the daemon can go from one to the next.                                 *)
(***************************************************************************)
EXTENDS PowerIdle

SettingsOf(ac, battery, ac_timeout, battery_timeout, dim, delay, ambient) ==
  [type |-> [ac |-> ac, battery |-> battery],
   timeout |-> [ac |-> ac_timeout, battery |-> battery_timeout],
   idle_dim |-> dim, idle_delay |-> delay, ambient |-> ambient]

\* Suspending on battery, never on AC.
Laptop == SettingsOf("suspend", "suspend", 0, 900, TRUE, 300, TRUE)

LaptopOnly == {Laptop}

\* One key away from Laptop each.
LaptopSettings ==
  {Laptop,
   SettingsOf("suspend", "hibernate", 0, 900, TRUE, 300, TRUE),
   SettingsOf("suspend", "nothing", 0, 900, TRUE, 300, TRUE),
   SettingsOf("suspend", "suspend", 900, 900, TRUE, 300, TRUE),
   SettingsOf("suspend", "suspend", 0, 900, FALSE, 300, TRUE),
   SettingsOf("suspend", "suspend", 0, 900, TRUE, 15, TRUE),
   SettingsOf("suspend", "suspend", 0, 900, TRUE, 0, TRUE)}

\* The actions that blank or log out, and the sensor turned off.
DesktopSettings ==
  {SettingsOf("blank", "blank", 900, 900, TRUE, 300, TRUE),
   SettingsOf("blank", "blank", 900, 900, TRUE, 300, FALSE),
   SettingsOf("logout", "blank", 900, 900, TRUE, 300, TRUE),
   SettingsOf("interactive", "blank", 900, 900, TRUE, 300, TRUE)}
==============================================================================
