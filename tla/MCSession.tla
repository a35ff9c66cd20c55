------------------------------ MODULE MCSession ------------------------------
(***************************************************************************)
(* Instances of the daemons' constants that are more than a set of names.   *)
(* A set of worlds lists, for a daemon, what may happen in a behaviour, so    *)
(* that TLC combines the happenings that meet and not all of them.           *)
(***************************************************************************)
EXTENDS Session, TLC

MCRadioType   == "bt" :> "bluetooth" @@ "ww" :> "wwan"
\* A headset: its keys, its output and its microphone.
MCUsbOf       == "kbd" :> {"usb", "mic"}
MCCarrierType == [n \in {"wired", "open_wifi", "mobile"} |-> n]
MCPrinterOf   == [j \in Jobs |-> "p"]

\* Of a day of 12 units: over midnight, in the day, and all of it; a place where
\* the sun sets after midnight, and one where it does not set.
MCSchedules == {[from |-> 9, to |-> 3], [from |-> 4, to |-> 5], [from |-> 6, to |-> 6]}
NoSun       == [from |-> -1, to |-> -1]
MCSunAt     == "here" :> [from |-> 8, to |-> 4] @@ "west" :> [from |-> 13, to |-> 3] @@ "polar" :> NoSun

MCFstab == <<"home", "root", "snap">>

\* A directory with a file, one of another file system, and a symbolic link of
\* somebody else among the temporary files; a directory with a file in the trash.
Node(parent, top, kind, fs, mine) ==
  [parent |-> parent, top |-> top, kind |-> kind, fs |-> fs, mine |-> mine]
MCTree ==
  "d" :> Node("tmp:", "d", "dir", "root", TRUE) @@ "f" :> Node("d", "d", "file", "root", TRUE) @@
  "m" :> Node("tmp:", "m", "dir", "usb", TRUE) @@ "o" :> Node("tmp:", "o", "symlink", "root", FALSE) @@
  "t" :> Node("trash:", "t", "dir", "root", TRUE) @@ "g" :> Node("t", "t", "file", "root", TRUE)

MCThumbs   == "x" :> 1 @@ "y" :> 2
MCMaxAges  == {-1, 0, 3}
MCMaxSizes == {-1, 0, 2}

\* Two zones of the country at 0 and of the one at 2, a city further on.
MCTzDb == {[zone |-> "Here", country |-> "a", at |-> 0], [zone |-> "There", country |-> "b", at |-> 2]}
MCWeatherCities ==
  {[zone |-> "Far", country |-> "b", at |-> 6], [zone |-> "no zone", country |-> "a", at |-> 3]}
MCCountryOf == 0 :> "a" @@ 1 :> "b" @@ 5 :> "b" @@ 6 :> "c"

\* An empty layout in the middle, and fewer variants than layouts.
MCLocaledAnswers ==
  {[layouts |-> <<"de", "", "gr">>, variants |-> <<>>, options |-> <<>>],
   [layouts |-> <<"us", "de">>, variants |-> <<"intl">>, options |-> <<"grp:alt">>]}
MCOldLayouts == <<[layout |-> "ru", variant |-> ""]>>
MCOldOptions == <<"old">>
=============================================================================
