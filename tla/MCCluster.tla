----------------------------- MODULE MCCluster ------------------------------
(***************************************************************************)
(* What becomes of a cluster in the long run, for TLC. A behaviour is      *)
(* about one of two things, which share nothing in the models: the roles   *)
(* of two nodes, or the DHCP scope that the primary serves.                *)
(***************************************************************************)
EXTENDS HaPromotion, DhcpIpam

VARIABLE part

clusterVars == <<vars, dhcpVars, part>>

\* A behaviour about the scope begins with one address reserved, whichever it is, and the
\* others leased; one about the roles has an empty pool beside it.
ClusterInit ==
  /\ Init /\ DhcpInit
  /\ \/ part = "roles" /\ Reserved = {} /\ leases = {}
     \/ part = "dhcp" /\ Reserved = {CHOOSE h \in Hosts : TRUE} /\ leases = Hosts \ Reserved

ClusterSpec ==
  /\ ClusterInit
  /\ [][/\ \/ part = "roles" /\ Next /\ UNCHANGED dhcpVars
           \/ part = "dhcp" /\ DhcpNext /\ UNCHANGED vars
        /\ UNCHANGED part]_clusterVars

\* Fairness and DhcpFairness, for the behaviours about each.
FairClusterSpec ==
  /\ ClusterSpec
  /\ \A n \in Nodes : /\ WF_vars(part = "roles" /\ Heartbeat(n))
                      /\ WF_vars(part = "roles" /\ Promotion(n))
                      /\ WF_vars(part = "roles" /\ Watcher(n))
                      /\ WF_vars(part = "roles" /\ Replicate(n))
  /\ \A t \in Clerks : WF_dhcpVars(part = "dhcp" /\ ClerkStep(t))
  /\ \A t \in Pushes : WF_dhcpVars(part = "dhcp" /\ (StartPush(t) \/ ClerkStep(t)))
  /\ \A l \in LeaseRuns : WF_dhcpVars(part = "dhcp" /\ LeaseStep(l))

\* Every row, flag, handler and run keeps its shape.
ClusterTypeOK == TypeOK /\ DhcpTypeOK
=============================================================================
