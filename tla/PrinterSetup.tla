----------------------------- MODULE PrinterSetup -----------------------------
(***************************************************************************)
(* gsd-printer: in each session one process that sets up new printers.      *)
(* They take the two names of system-config-printer on the system bus from  *)
(* each other when their user becomes active, and give them up when he is   *)
(* idle.  A new printer is set up with calls that block the process.        *)
(***************************************************************************)
EXTENDS Naturals, Sequences, SequencesExt, FiniteSets

CONSTANTS
  Sessions,
  Devices,          \* printers that are plugged in, all of one model
  MaxQueues,        \* bound: CUPS queues of that model
  MaxStatuses,      \* bound: presence changes and logouts in a behaviour
  PsWorlds          \* bound: the happenings of a behaviour are from one of these sets

VARIABLE ps

Names    == {"NewPrinterNotification", "PrinterDriversInstaller"}
Nobody   == "nobody"
\* The queues of the model: its name, and its name with a number.
QueueIds == 1 .. MaxQueues
Messages == [kind : {"bus_acquired", "name_lost"}, name : Names]
Steps    == {"get_best_ppd", "create_name", "add_printer", "accept", "enable", "autoconfigure",
             "paper_size", "packages"}

PsTypeOK ==
  /\ ps.may \in PsWorlds /\ ps.alive \subseteq Sessions
  /\ ps.owner_id \in [Sessions -> SUBSET Names] /\ ps.registration_id \in [Sessions -> SUBSET Names]
  /\ ps.inbox \in [Sessions -> Seq(Messages)] /\ ps.bus \in [Names -> Seq(Sessions)]
  /\ ps.busy \in [Sessions -> Steps \cup {"no"}] /\ ps.device \in [Sessions -> Devices \cup {Nobody}]
  /\ ps.queue \in [Sessions -> 0 .. MaxQueues] /\ ps.dests \in [QueueIds -> Devices \cup {Nobody, "admin"}]
  /\ ps.accepting \subseteq QueueIds /\ ps.enabled \subseteq QueueIds
  /\ ps.new \subseteq Devices /\ ps.missing_driver \subseteq Devices /\ ps.changes \in 0 .. MaxStatuses

-------------------------------------------------------------------------------
(* Names and objects.                                                      *)

Deliver(s, who, kind, name) == [s EXCEPT !.inbox[who] = Append(@, [kind |-> kind, name |-> name])]

\* unregister_objects
UnregisterObjects(s, who) == [s EXCEPT !.registration_id[who] = {}]

\* unown_names: whoever waits for the name has it; a process is in a line once.
\* What is under way for it is dropped.
UnownNames(s, who) ==
  [s EXCEPT !.owner_id[who] = {}, !.inbox[who] = <<>>,
            !.bus = [n \in Names |-> RemoveFirst(@[n], who)]]

\* g_bus_own_name, twice: on_npn_bus_acquired and on_pdi_bus_acquired are called
\* when the bus is there.
OwnNames(s, who) ==
  [s EXCEPT !.owner_id[who] = Names,
            !.inbox[who] = @ \o <<[kind |-> "bus_acquired", name |-> "NewPrinterNotification"],
                                  [kind |-> "bus_acquired", name |-> "PrinterDriversInstaller"]>>]

\* on_npn_bus_acquired and on_pdi_bus_acquired, and the RequestName that
\* follows, which replaces the owner; he waits in line and is told.
BusAcquired(s, who, name) ==
  LET line == s.bus[name]
      mine == [s EXCEPT !.registration_id[who] = @ \cup {name},
                        !.bus[name] = <<who>> \o RemoveFirst(@, who)]
  IN IF line = <<>> \/ Head(line) = who THEN mine ELSE Deliver(mine, Head(line), "name_lost", name)

\* Mistake: the loss of a name takes only its own object away, that of the
\* other name stays.
NameLostKeepsOther(s, who, name) == [s EXCEPT !.registration_id[who] = @ \ {"NewPrinterNotification"}]

\* on_name_lost: either name, both objects.
NameLost(s, who, name) == UnregisterObjects(s, who)

-------------------------------------------------------------------------------
PsInit ==
  \E may \in PsWorlds :
    ps = [may |-> may, alive |-> {}, owner_id |-> [s \in Sessions |-> {}],
          registration_id |-> [s \in Sessions |-> {}], inbox |-> [s \in Sessions |-> <<>>],
          bus |-> [n \in Names |-> <<>>], busy |-> [s \in Sessions |-> "no"],
          device |-> [s \in Sessions |-> Nobody], queue |-> [s \in Sessions |-> 0],
          dests |-> [q \in QueueIds |-> Nobody], accepting |-> {}, enabled |-> {},
          new |-> {}, missing_driver |-> {}, changes |-> 0]

Free(who) == who \in ps.alive /\ ps.busy[who] = "no"

\* main
SessionStarts == \E who \in Sessions \ ps.alive : ps' = [OwnNames(ps, who) EXCEPT !.alive = @ \cup {who}]

\* client_signal_handler, EndSession, and the end of main.
SessionEnds ==
  /\ "logout" \in ps.may /\ ps.changes < MaxStatuses
  /\ \E who \in Sessions :
       /\ Free(who)
       /\ ps' = [UnownNames(UnregisterObjects(ps, who), who) EXCEPT !.alive = @ \ {who}, !.changes = @ + 1]

\* session_signal_handler: idle or available; another presence is no matter.
StatusChanged ==
  /\ ps.changes < MaxStatuses
  /\ \E who \in Sessions, available \in BOOLEAN :
       /\ Free(who)
       /\ LET given_up == UnownNames(UnregisterObjects([ps EXCEPT !.changes = @ + 1], who), who)
          IN ps' = IF available THEN OwnNames(given_up, who) ELSE given_up

HandleMessage ==
  \E who \in Sessions :
    /\ Free(who) /\ ps.inbox[who] # <<>>
    /\ LET message == Head(ps.inbox[who])
           rest    == [ps EXCEPT !.inbox[who] = Tail(@)]
       IN ps' = IF message.kind = "bus_acquired" THEN BusAcquired(rest, who, message.name)
                ELSE NameLost(rest, who, message.name)

\* A printer is plugged in; handle_method_call is called where the object is.
NewPrinter ==
  /\ "printers" \in ps.may
  /\ \E who \in Sessions, d \in Devices \ ps.new :
       /\ Free(who) /\ "NewPrinterNotification" \in ps.registration_id[who]
       /\ ps.bus["NewPrinterNotification"] # <<>> /\ Head(ps.bus["NewPrinterNotification"]) = who
       /\ ps' = [ps EXCEPT !.new = @ \cup {d}, !.busy[who] = "get_best_ppd", !.device[who] = d]

-------------------------------------------------------------------------------
(* setup_printer, a blocking call at a time.                               *)

Ends(s, who) == [s EXCEPT !.busy[who] = "no", !.device[who] = Nobody, !.queue[who] = 0]
Fails(s, who) == Ends([s EXCEPT !.missing_driver = @ \cup {s.device[who]}], who)

GetBestPpd ==
  \E who \in Sessions :
    /\ ps.busy[who] = "get_best_ppd"
    /\ \/ ps' = [ps EXCEPT !.busy[who] = "create_name"]
       \/ ps' = Fails(ps, who)

\* create_name: the first name no queue has.
CreateName ==
  \E who \in Sessions :
    /\ ps.busy[who] = "create_name"
    /\ \E q \in QueueIds :
         /\ ps.dests[q] = Nobody /\ \A p \in 1 .. q - 1 : ps.dests[p] # Nobody
         /\ ps' = [ps EXCEPT !.busy[who] = "add_printer", !.queue[who] = q]

\* add_printer: the answer of PrinterAdd is not looked at, but whether there is
\* a queue of the name, whoever has made it.
AddPrinter ==
  \E who \in Sessions, works \in BOOLEAN :
    /\ ps.busy[who] = "add_printer"
    /\ LET q    == ps.queue[who]
           made == IF works THEN [ps EXCEPT !.dests[q] = ps.device[who]] ELSE ps
       IN ps' = IF made.dests[q] = Nobody THEN Fails(made, who) ELSE [made EXCEPT !.busy[who] = "accept"]

\* printer_set_accepting_jobs and printer_set_enabled; nobody looks whether
\* they worked.
PrinterOptions ==
  \E who \in Sessions, works \in BOOLEAN :
    LET q == ps.queue[who]
    IN \/ /\ ps.busy[who] = "accept"
          /\ ps' = [ps EXCEPT !.busy[who] = "enable", !.accepting = IF works THEN @ \cup {q} ELSE @]
       \/ /\ ps.busy[who] = "enable"
          /\ ps' = [ps EXCEPT !.busy[who] = "autoconfigure", !.enabled = IF works THEN @ \cup {q} ELSE @]

\* printer_autoconfigure, with its maintenance command; the PPD of the new queue
\* may be refused, and then nothing follows.
Autoconfigure ==
  \E who \in Sessions :
    /\ ps.busy[who] = "autoconfigure"
    /\ ps' \in {[ps EXCEPT !.busy[who] = "paper_size"], Ends(ps, who)}

\* set_default_paper_size, a setting of the queue that nothing here reads.
SetDefaultPaperSize ==
  \E who \in Sessions :
    ps.busy[who] = "paper_size" /\ ps' = [ps EXCEPT !.busy[who] = "packages"]

\* get_missing_executables, find_packages_for_executables and install_packages:
\* PackageKit is waited for, and whatever it answers the printer is set up.
InstallPackages ==
  \E who \in Sessions : ps.busy[who] = "packages" /\ ps' = Ends(ps, who)

\* Somebody else makes a queue.
AdminAddsQueue ==
  /\ "admin" \in ps.may
  /\ \E q \in QueueIds : ps.dests[q] = Nobody /\ ps' = [ps EXCEPT !.dests[q] = "admin"]

PsNext ==
  \/ SessionStarts \/ SessionEnds \/ StatusChanged \/ HandleMessage \/ NewPrinter \/ GetBestPpd
  \/ CreateName \/ AddPrinter \/ PrinterOptions \/ Autoconfigure
  \/ SetDefaultPaperSize \/ InstallPackages \/ AdminAddsQueue

PsSpec == PsInit /\ [][PsNext]_ps

-------------------------------------------------------------------------------
(* Properties                                                              *)

\* When every session has heard of what became of the names, one that has an
\* object on the bus owns its name: a printer is not announced to two users,
\* however they became active in turns.
ObjectsHaveNames ==
  (\A who \in Sessions : ps.inbox[who] = <<>>) =>
    \A who \in Sessions : \A n \in ps.registration_id[who] : ps.bus[n] # <<>> /\ Head(ps.bus[n]) = who

\* And the owner of a name has its object there.  It does not hold: a process
\* whose names were taken waits for them, and has them again, without objects,
\* when the other gives them up.
OwnersHaveObjects ==
  (\A who \in Sessions : ps.inbox[who] = <<>>) =>
    \A n \in Names : ps.bus[n] # <<>> => n \in ps.registration_id[Head(ps.bus[n])]
=============================================================================
