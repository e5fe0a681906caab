--------------------------- MODULE MCDnsDecision ---------------------------
EXTENDS DnsDecision

\* A policy of the given mode with the given flags set.
Make(mode, flags) ==
  [mode |-> mode, sites |-> "sites" \in flags, allows |-> "allows" \in flags,
   blocks |-> "blocks" \in flags, denyAll |-> "denyAll" \in flags]

WorldsOf(zones, students, floors, subnets, booleans) ==
  [zone : zones, device : BOOLEAN, student : students, floor : floors,
   subnet : subnets, global : booleans, override : BOOLEAN, dryRun : BOOLEAN,
   listed : BOOLEAN]

\* Every layer with every other.
MCWorlds ==
  WorldsOf({"none", "local"},
    { Make("standard", {}), Make("lesson", {}), Make("penalty_box", {"sites"}),
      Make("penalty_box", {"allows"}) },
    { Make("standard", {"blocks"}), Make("standard", {"denyAll"}), Make("open", {}) },
    { NoPolicy, Make("standard", {}) },
    {FALSE})
  \cup
  WorldsOf({"none", "forward"}, { Make("lockdown", {}), Make("lesson", {"sites"}) },
    { Make("standard", {}), Make("standard", {"allows"}) },
    { NoPolicy, Make("standard", {"denyAll"}) }, BOOLEAN)

\* Redis gone, gone halfway through the reply, the backend gone with its answers
\* not cached, and single lookups.
MCOutages ==
  { Lookups, {"listed", "category"}, {"category"}, {"subnet", "floor", "global"},
    {"device"}, {"dryRun"} }
=============================================================================
