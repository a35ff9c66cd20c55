--------------------------- MODULE ScreensaverProxy ---------------------------
(***************************************************************************)
(* gsd-screensaver-proxy: org.freedesktop.ScreenSaver for applications,    *)
(* made from inhibitors of the session manager.  The session manager sees   *)
(* one client, this daemon, so it is up to the daemon to drop what an       *)
(* application that left the bus has asked for.                            *)
(***************************************************************************)
EXTENDS Naturals, Sequences

CONSTANTS
  Clients,       \* applications
  MaxCookies,    \* bound: inhibitors in a behaviour
  MaxQueued      \* bound: calls the daemon has not read

VARIABLE sp

Cookies == 1 .. MaxCookies
SpCalls == [op : {"Inhibit"}, from : Clients] \cup [op : {"UnInhibit"}, from : Clients, cookie : Cookies]

SpTypeOK ==
  /\ sp.phase \in {"registered", "running", "stopped", "gone"}
  /\ sp.bus \subseteq Clients /\ sp.left \subseteq Clients
  /\ sp.calls \in Seq(SpCalls) /\ Len(sp.calls) <= MaxQueued
  /\ sp.watch_ht \subseteq Clients
  /\ sp.cookie_ht \subseteq Cookies \X Clients
  /\ sp.held \subseteq Cookies /\ sp.given \in 0 .. MaxCookies

-------------------------------------------------------------------------------
\* name_vanished_cb: the inhibitors go, in the session manager and in the
\* table, and so does the watch.  What Uninhibit answers is not looked at.
NameVanished(s, c) ==
  LET gone == {p \in s.cookie_ht : p[2] = c}
  IN [s EXCEPT !.held = @ \ {p[1] : p \in gone}, !.cookie_ht = @ \ gone, !.watch_ht = @ \ {c}]

\* Mistake: a sender is watched until it has dropped its first inhibitor.
UnInhibitUnwatches(s, call) ==
  IF call.cookie \notin s.held THEN s
  ELSE [s EXCEPT !.held = @ \ {call.cookie}, !.watch_ht = @ \ {call.from},
                 !.cookie_ht = {p \in @ : p[1] # call.cookie}]

\* handle_method_call, UnInhibit: of a cookie of any client.  The session
\* manager refuses one it does not know, and the table then keeps it.
UnInhibit(s, call) ==
  IF call.cookie \notin s.held THEN s
  ELSE [s EXCEPT !.held = @ \ {call.cookie}, !.cookie_ht = {p \in @ : p[1] # call.cookie}]

\* handle_method_call, Inhibit: the answer of the session manager is waited
\* for.  The caller may have left by now: its name is watched all the same,
\* and a watch reports a name that is not on the bus.
Inhibit(s, call) ==
  LET cookie == s.given + 1
  IN [s EXCEPT !.given = cookie, !.held = @ \cup {cookie},
               !.cookie_ht = {p \in @ : p[1] # cookie} \cup {<<cookie, call.from>>},
               !.watch_ht = @ \cup {call.from}]

SpInit ==
  sp = [phase |-> "registered", bus |-> {}, left |-> {}, calls |-> <<>>, watch_ht |-> {},
        cookie_ht |-> {}, held |-> {}, given |-> 0]

\* gsd_screensaver_proxy_manager_startup, after the object was registered.
SpStartup == sp.phase = "registered" /\ sp' = [sp EXCEPT !.phase = "running"]

\* A call of the queue is handled; there may be no session manager to ask, or
\* it refuses, and the caller gets an error.
HandleMethodCall ==
  /\ sp.calls # <<>> /\ sp.phase # "gone"
  /\ LET call == Head(sp.calls)
         s    == [sp EXCEPT !.calls = Tail(@)]
     IN IF sp.phase # "running" THEN sp' = s
        ELSE IF call.op = "UnInhibit" THEN sp' = UnInhibit(s, call)
        ELSE sp' = s \/ (sp.given < MaxCookies /\ sp' = Inhibit(s, call))

\* The bus tells of a watched name that has no owner.
NameVanishes(c) ==
  /\ sp.phase = "running" /\ c \in sp.watch_ht /\ c \notin sp.bus
  /\ sp' = NameVanished(sp, c)

\* gsd_screensaver_proxy_manager_shutdown
SpShutdown ==
  /\ sp.phase = "running"
  /\ sp' = [sp EXCEPT !.phase = "stopped", !.watch_ht = {}, !.cookie_ht = {}]

\* The process ends, or crashes: the session manager drops what it held.
SpExit ==
  sp.phase # "gone" /\ sp' = [sp EXCEPT !.phase = "gone", !.calls = <<>>, !.watch_ht = {},
                                        !.cookie_ht = {}, !.held = {}]

\* Applications: the unique name of one is never used again.
ClientAppears(c) == c \notin sp.bus \cup sp.left /\ sp' = [sp EXCEPT !.bus = @ \cup {c}]
ClientLeaves(c)  == c \in sp.bus /\ sp' = [sp EXCEPT !.bus = @ \ {c}, !.left = @ \cup {c}]
ClientCalls(c) ==
  /\ c \in sp.bus /\ sp.phase # "gone" /\ Len(sp.calls) < MaxQueued
  /\ \/ sp' = [sp EXCEPT !.calls = Append(@, [op |-> "Inhibit", from |-> c])]
     \/ \E cookie \in Cookies :
          /\ cookie <= sp.given
          /\ sp' = [sp EXCEPT !.calls = Append(@, [op |-> "UnInhibit", from |-> c, cookie |-> cookie])]

SpNext ==
  \/ SpStartup
  \/ HandleMethodCall
  \/ \E c \in Clients : \/ NameVanishes(c)
                        \/ ClientAppears(c)
                        \/ ClientLeaves(c)
                        \/ ClientCalls(c)
  \/ SpShutdown
  \/ SpExit

-------------------------------------------------------------------------------
\* While the daemon runs, every inhibitor it holds is in its table, for a
\* sender it watches: whatever order the calls and the departures come in, the
\* screen is never kept on for an application nobody waits to see leave.
InhibitorsHaveOwners ==
  sp.phase = "running" =>
    \A cookie \in sp.held : \E c \in sp.watch_ht : <<cookie, c>> \in sp.cookie_ht
==============================================================================
