----------------------------- MODULE HaPromotion -----------------------------
(***************************************************************************)
(* Automatic and manual promotion of a standby, backend/src/routes/ha.js   *)
(* and infrastructure/update-watcher/update-watcher.sh.                    *)
(*                                                                         *)
(* Every node runs an API on a Postgres of its own. The standbys' Postgres *)
(* is a read-only copy of the original primary's, so whatever a standby    *)
(* has to say about itself - its VRRP state among it - is relayed to the   *)
(* primary's API and comes back by replication. keepalived moves the       *)
(* floating IP on its own terms; a standby whose row says MASTER and whose *)
(* quorum of peers cannot reach the primary promotes itself after a grace  *)
(* period. The role a process runs with is that of .env when its container *)
(* was created; a script on the host changes both once the promotion is    *)
(* recorded.                                                               *)
(*                                                                         *)
(* External: keepalived (who holds the floating IP), Postgres (streaming   *)
(* replication, pg_promote), the network.                                  *)
(***************************************************************************)
EXTENDS Naturals, FiniteSets

CONSTANTS
  Nodes,
  Original,     \* the node the cluster was built on, the standbys' upstream
  Grace,        \* ha_auto_promote_grace_seconds in heartbeats
  Relabels,     \* bound: the ha_role values an admin assigns by hand
  MaxFaults     \* bound: crashes, restarts, lost links and what admins do

ASSUME OriginalIsNode == Original \in Nodes
ASSUME GraceIsNat == Grace \in Nat
ASSUME RelabelsAreRoles == Relabels \subseteq {"primary", "standby", "replica"}
ASSUME FaultsAreNat == MaxFaults \in Nat

VARIABLES
  up,          \* up[n]: the host runs, with its API and Postgres
  links,       \* pairs of nodes that reach each other
  recovery,    \* pg_is_in_recovery()
  asked,       \* pg_promote() was called and recovery has not ended
  rows,        \* rows[n]: the nodes table in n's Postgres, by node_id
  pending,     \* settings.pending_promotion_env_update in n's Postgres
  detected,    \* settings.split_brain_detected in n's Postgres
  env,         \* NODE_ROLE in n's .env
  role,        \* config.node.role: NODE_ROLE when the container was created
  candidate,   \* heartbeats since autoPromoteCandidateSince, 0 for null
  pc,          \* where promoteThisNode is
  watcher,     \* where update-watcher.sh is
  vrrp,        \* vrrp[n]: n holds the floating IP
  relabelled,  \* history: an admin has assigned an ha_role
  faults

databaseVars == <<recovery, asked, rows, pending, detected>>
apiVars == <<role, candidate, pc>>
hostVars == <<env, watcher>>
worldVars == <<up, links, vrrp, relabelled, faults>>
vars == <<databaseVars, apiVars, hostVars, worldVars>>

Steps == {"idle", "polling", "ownRow", "otherRows", "flag"}
Row == [haRole : {"primary", "standby", "replica", "demoted"}, master : BOOLEAN]
AllLinks == {{m, n} : m, n \in Nodes}

TypeOK ==
  /\ up \in [Nodes -> BOOLEAN]
  /\ links \subseteq AllLinks
  /\ recovery \in [Nodes -> BOOLEAN]
  /\ asked \in [Nodes -> BOOLEAN]
  /\ rows \in [Nodes -> [Nodes -> Row]]
  /\ pending \in [Nodes -> BOOLEAN]
  /\ detected \in [Nodes -> BOOLEAN]
  /\ env \in [Nodes -> {"primary", "standby"}]
  /\ role \in [Nodes -> {"primary", "standby"}]
  /\ candidate \in [Nodes -> 0 .. Grace]
  /\ pc \in [Nodes -> Steps]
  /\ watcher \in [Nodes -> {"idle", "flipped", "restarted"}]
  /\ vrrp \in [Nodes -> BOOLEAN]
  /\ relabelled \in BOOLEAN
  /\ faults \in 0 .. MaxFaults

InitialRole(n) == IF n = Original THEN "primary" ELSE "standby"

Init ==
  /\ up = [n \in Nodes |-> TRUE]
  /\ links = AllLinks
  /\ recovery = [n \in Nodes |-> n # Original]
  /\ asked = [n \in Nodes |-> FALSE]
  /\ rows = [n \in Nodes |-> [m \in Nodes |->
               [haRole |-> InitialRole(m), master |-> m = Original]]]
  /\ pending = [n \in Nodes |-> FALSE]
  /\ detected = [n \in Nodes |-> FALSE]
  /\ env = [n \in Nodes |-> InitialRole(n)]
  /\ role = [n \in Nodes |-> InitialRole(n)]
  /\ candidate = [n \in Nodes |-> 0]
  /\ pc = [n \in Nodes |-> "idle"]
  /\ watcher = [n \in Nodes |-> "idle"]
  /\ vrrp = [n \in Nodes |-> n = Original]
  /\ relabelled = FALSE
  /\ faults = 0

Fault == faults < MaxFaults /\ faults' = faults + 1

\* An API call from n, which is up, to m is answered.
Reaches(n, m) == up[m] /\ {m, n} \in links

\* m takes what n asks it to write: /self-report, /vrrp-notify.
Accepts(n, m) == Reaches(n, m) /\ ~recovery[m]

\* The rows the query for the primary may return in m's Postgres; with two of
\* them the fresher last_seen decides, which is not modelled.
Primaries(m) == {p \in Nodes : rows[m][p].haRole = "primary"}

SetHaRole(n, m, r) == rows' = [rows EXCEPT ![n][m].haRole = r]

-----------------------------------------------------------------------------
(* The world: hosts, links, keepalived, replication.                       *)

\* The update a node makes to its own row: in its own Postgres if it writes itself,
\* else by a relay to the primary it knows of, which a standby refuses. A relay
\* that fails is forgotten.
RecordOwn(n, writesItself, update) ==
  \/ \E p \in IF writesItself THEN {n} ELSE {p \in Primaries(n) : Accepts(n, p)} :
        rows' = [rows EXCEPT ![p][n] = update[rows[p][n]]]
  \/ /\ ~writesItself
     /\ Primaries(n) = {} \/ \E p \in Primaries(n) : ~Accepts(n, p)
     /\ UNCHANGED rows

\* The API process starts in a container created with NODE_ROLE = r, and
\* registerSelf puts that role into its row.
StartApi(n, r) ==
  /\ role' = [role EXCEPT ![n] = r]
  /\ candidate' = [candidate EXCEPT ![n] = 0]
  /\ pc' = [pc EXCEPT ![n] = "idle"]
  /\ RecordOwn(n, ~recovery[n], [row \in Row |-> [row EXCEPT !.haRole = r]])

\* The process crashed or was restarted; an update recreates the container and so
\* reads .env again.
ApiRestarts(n) ==
  /\ Fault /\ up[n]
  /\ \E r \in {role[n], env[n]} : StartApi(n, r)
  /\ UNCHANGED <<recovery, asked, pending, detected, hostVars, up, links, vrrp, relabelled>>

HostGoesDown(n) ==
  /\ Fault /\ up[n]
  /\ up' = [up EXCEPT ![n] = FALSE]
  /\ asked' = [asked EXCEPT ![n] = FALSE]
  /\ pc' = [pc EXCEPT ![n] = "idle"]
  /\ watcher' = [watcher EXCEPT ![n] = "idle"]
  /\ candidate' = [candidate EXCEPT ![n] = 0]
  /\ vrrp' = [vrrp EXCEPT ![n] = FALSE]
  /\ UNCHANGED <<recovery, rows, pending, detected, env, role, links, relabelled>>

HostComesUp(n) ==
  /\ ~up[n]
  /\ up' = [up EXCEPT ![n] = TRUE]
  /\ StartApi(n, role[n])
  /\ UNCHANGED <<recovery, asked, pending, detected, hostVars, links, vrrp, relabelled, faults>>

LinkFails(link) ==
  /\ Fault
  /\ links' = links \ {link}
  /\ UNCHANGED <<databaseVars, apiVars, hostVars, up, vrrp, relabelled>>

LinkHeals(link) ==
  /\ links' = links \cup {link}
  /\ UNCHANGED <<databaseVars, apiVars, hostVars, up, vrrp, relabelled, faults>>

\* keepalived on n takes the floating IP, or enters BACKUP or FAULT, and notify.sh
\* tells the local API once: POST /vrrp-local.
VrrpChanges(n, master) ==
  /\ up[n]
  /\ master => ~vrrp[n] /\ \A m \in Nodes : vrrp[m] => ~Reaches(n, m)
  /\ vrrp' = [vrrp EXCEPT ![n] = master]
  /\ RecordOwn(n, role[n] = "primary", [row \in Row |-> [row EXCEPT !.master = master]])
  /\ UNCHANGED <<recovery, asked, pending, detected, apiVars, hostVars, up, links, relabelled, faults>>

\* A standby's Postgres receives what the original primary's wrote. (The pending
\* flag is never set there: the original is never promoted.)
Replicate(n) ==
  /\ recovery[n] /\ Reaches(n, Original) /\ ~recovery[Original]
  /\ rows' = [rows EXCEPT ![n] = rows[Original]]
  /\ detected' = [detected EXCEPT ![n] = detected[Original]]
  /\ UNCHANGED <<recovery, asked, pending, apiVars, hostVars, worldVars>>

\* Postgres leaves recovery some time after pg_promote() was called.
RecoveryEnds(n) ==
  /\ up[n] /\ asked[n]
  /\ recovery' = [recovery EXCEPT ![n] = FALSE]
  /\ asked' = [asked EXCEPT ![n] = FALSE]
  /\ UNCHANGED <<rows, pending, detected, apiVars, hostVars, worldVars>>

-----------------------------------------------------------------------------
(* The heartbeat of a standby: maybeAutoPromote.                           *)

\* GET /can-reach-primary on m, as seen by n: no answer, reachable: null, or a vote.
Answers(n, m) ==
  IF ~Reaches(n, m) \/ Primaries(m) = {} THEN {"none"}
  ELSE {IF Reaches(m, p) THEN "reachable" ELSE "unreachable" : p \in Primaries(m)}

\* Mutant: one of two votes is a majority.
ReachableUnlessHalf(n, p, votes) ==
  LET responded   == {m \in Nodes \ {n, p} : votes[m] # "none"}
      unreachable == {m \in responded : votes[m] = "unreachable"}
                       \cup (IF Reaches(n, p) THEN {} ELSE {n})
  IN IF responded = {} THEN Reaches(n, p)
     ELSE 2 * Cardinality(unreachable) < Cardinality(responded) + 1

\* isPrimaryReachableByQuorum, for the primary p in n's table and the peers' votes.
ReachableByQuorum(n, p, votes) ==
  LET responded   == {m \in Nodes \ {n, p} : votes[m] # "none"}
      unreachable == {m \in responded : votes[m] = "unreachable"}
                       \cup (IF Reaches(n, p) THEN {} ELSE {n})
  IN IF responded = {} THEN Reaches(n, p)
     ELSE 2 * Cardinality(unreachable) <= Cardinality(responded) + 1

\* One round of votes: what the peers of n answer about the primary p.
Votes(n, p) ==
  {votes \in [Nodes \ {n, p} -> {"none", "reachable", "unreachable"}] :
     \A m \in Nodes \ {n, p} : votes[m] \in Answers(n, m)}

PrimaryLooksUp(n) ==
  \/ Primaries(n) = {}
  \/ \E p \in Primaries(n) : \E votes \in Votes(n, p) : ReachableByQuorum(n, p, votes)

PrimaryLooksDown(n) ==
  \E p \in Primaries(n) : \E votes \in Votes(n, p) : ~ReachableByQuorum(n, p, votes)

\* The pg_promote() of promoteThisNode, in a standby whose Postgres can take it.
StartPromotion(n) ==
  /\ asked' = [asked EXCEPT ![n] = TRUE]
  /\ pc' = [pc EXCEPT ![n] = "polling"]

\* Not a candidate, or no longer: the countdown starts over.
NotACandidate(n) ==
  /\ up[n] /\ recovery[n]
  /\ rows[n][n].master => PrimaryLooksUp(n)
  /\ candidate' = [candidate EXCEPT ![n] = 0]
  /\ UNCHANGED <<databaseVars, role, pc, hostVars, worldVars>>

\* Mutant: the countdown runs one heartbeat past the grace period.
AutoPromoteLate(n) ==
  /\ up[n] /\ recovery[n] /\ rows[n][n].master /\ PrimaryLooksDown(n)
  /\ IF candidate[n] <= Grace
     THEN /\ candidate' = [candidate EXCEPT ![n] = @ + 1]
          /\ UNCHANGED <<asked, pc>>
     ELSE /\ candidate' = [candidate EXCEPT ![n] = 0]
          /\ StartPromotion(n)
  /\ UNCHANGED <<recovery, rows, pending, detected, role, hostVars, worldVars>>

\* A candidate, for one heartbeat more; or the grace period is over. promoteThisNode
\* may already run on an admin's behalf; a second pg_promote() changes nothing.
AutoPromote(n) ==
  /\ up[n] /\ recovery[n] /\ rows[n][n].master /\ PrimaryLooksDown(n)
  /\ IF candidate[n] < Grace
     THEN /\ candidate' = [candidate EXCEPT ![n] = @ + 1]
          /\ UNCHANGED <<asked, pc>>
     ELSE /\ candidate' = [candidate EXCEPT ![n] = 0]
          /\ StartPromotion(n)
  /\ UNCHANGED <<recovery, rows, pending, detected, role, hostVars, worldVars>>

\* POST /promote
AdminPromotes(n) ==
  /\ Fault /\ up[n] /\ recovery[n]
  /\ StartPromotion(n)
  /\ UNCHANGED <<recovery, rows, pending, detected, role, candidate, hostVars, up, links, vrrp, relabelled>>

\* PUT /nodes/:nodeId/role on n, which "does not demote other primaries".
AdminRelabels(n, m, r) ==
  /\ Fault /\ up[n] /\ ~recovery[n]
  /\ SetHaRole(n, m, r)
  /\ relabelled' = TRUE
  /\ UNCHANGED <<recovery, asked, pending, detected, apiVars, hostVars, up, links, vrrp>>

-----------------------------------------------------------------------------
(* promoteThisNode after pg_promote(): one action per await.               *)

At(n, step, next) == up[n] /\ pc[n] = step /\ pc' = [pc EXCEPT ![n] = next]

PollSeesPrimary(n) ==
  /\ At(n, "polling", "ownRow") /\ ~recovery[n]
  /\ UNCHANGED <<databaseVars, role, candidate, hostVars, worldVars>>

\* Twenty polls were not enough: the call throws, Postgres goes on.
PollGivesUp(n) ==
  /\ Fault
  /\ At(n, "polling", "idle") /\ recovery[n]
  /\ UNCHANGED <<databaseVars, role, candidate, hostVars, up, links, vrrp, relabelled>>

UpdateOwnRow(n) ==
  /\ At(n, "ownRow", "otherRows")
  /\ SetHaRole(n, n, "primary")
  /\ UNCHANGED <<recovery, asked, pending, detected, role, candidate, hostVars, worldVars>>

\* Mutant: the rows that are not this node's are left alone.
DemotedNone(n, table) == table

\* The table with every other primary demoted.
Demoted(n, table) ==
  [m \in Nodes |-> IF m # n /\ table[m].haRole = "primary"
                   THEN [table[m] EXCEPT !.haRole = "demoted"] ELSE table[m]]

UpdateOtherRows(n) ==
  /\ At(n, "otherRows", "flag")
  /\ rows' = [rows EXCEPT ![n] = Demoted(n, rows[n])]
  /\ UNCHANGED <<recovery, asked, pending, detected, role, candidate, hostVars, worldVars>>

SetPending(n) ==
  /\ At(n, "flag", "idle")
  /\ pending' = [pending EXCEPT ![n] = TRUE]
  /\ UNCHANGED <<recovery, asked, rows, detected, role, candidate, hostVars, worldVars>>

-----------------------------------------------------------------------------
(* update-watcher.sh, every minute.                                        *)

\* Mutant: the flag is cleared before the work it stands for.
WatcherFlipsAndClears(n) ==
  /\ up[n] /\ watcher[n] = "idle" /\ pending[n]
  /\ env' = [env EXCEPT ![n] = "primary"]
  /\ watcher' = [watcher EXCEPT ![n] = "flipped"]
  /\ pending' = [pending EXCEPT ![n] = FALSE]
  /\ UNCHANGED <<recovery, asked, rows, detected, apiVars, worldVars>>

\* promote-status says pending: NODE_ROLE=primary in .env.
WatcherFlips(n) ==
  /\ up[n] /\ watcher[n] = "idle" /\ pending[n]
  /\ env' = [env EXCEPT ![n] = "primary"]
  /\ watcher' = [watcher EXCEPT ![n] = "flipped"]
  /\ UNCHANGED <<databaseVars, apiVars, worldVars>>

\* docker compose up -d recreates the API if its environment changed.
WatcherRestarts(n) ==
  /\ up[n] /\ watcher[n] = "flipped"
  /\ watcher' = [watcher EXCEPT ![n] = "restarted"]
  /\ IF role[n] # env[n]
     THEN StartApi(n, env[n])
     ELSE UNCHANGED <<apiVars, rows>>
  /\ UNCHANGED <<recovery, asked, pending, detected, env, worldVars>>

\* promote-complete
WatcherCompletes(n) ==
  /\ up[n] /\ watcher[n] = "restarted"
  /\ pending' = [pending EXCEPT ![n] = FALSE]
  /\ watcher' = [watcher EXCEPT ![n] = "idle"]
  /\ UNCHANGED <<recovery, asked, rows, detected, env, apiVars, worldVars>>

\* docker compose fails and `set -e` ends the script, or it is killed, or the new
\* API does not answer promote-complete yet.
WatcherStops(n) ==
  /\ Fault /\ watcher[n] # "idle"
  /\ watcher' = [watcher EXCEPT ![n] = "idle"]
  /\ UNCHANGED <<databaseVars, env, apiVars, up, links, vrrp, relabelled>>

-----------------------------------------------------------------------------
(* The heartbeat of a primary: the split-brain probe.                      *)

\* Mutant: asks the node's own table instead of the peer.
IsAnotherPrimaryRow(n, m) == m # n /\ Reaches(n, m) /\ rows[n][m].haRole = "primary"

\* What GET /role-check on m lets n conclude.
IsAnotherPrimary(n, m) ==
  m # n /\ Reaches(n, m) /\ role[m] = "primary" /\ ~recovery[m]

ProbePeers(n) ==
  /\ up[n] /\ ~recovery[n] /\ role[n] = "primary"
  /\ detected' = [detected EXCEPT ![n] = \E m \in Nodes : IsAnotherPrimary(n, m)]
  /\ UNCHANGED <<recovery, asked, rows, pending, apiVars, hostVars, worldVars>>

-----------------------------------------------------------------------------
Promotion(n) ==
  \/ RecoveryEnds(n) \/ PollSeesPrimary(n)
  \/ UpdateOwnRow(n) \/ UpdateOtherRows(n) \/ SetPending(n)

Heartbeat(n) ==
  NotACandidate(n) \/ AutoPromote(n) \/ ProbePeers(n)

Watcher(n) == WatcherFlips(n) \/ WatcherRestarts(n) \/ WatcherCompletes(n)

Next ==
  \/ \E link \in links : Cardinality(link) = 2 /\ LinkFails(link)
  \/ \E link \in AllLinks \ links : LinkHeals(link)
  \/ \E n \in Nodes :
       \/ Heartbeat(n) \/ Promotion(n) \/ Watcher(n)
       \/ Replicate(n)
       \/ AdminPromotes(n) \/ PollGivesUp(n) \/ WatcherStops(n)
       \/ ApiRestarts(n) \/ HostGoesDown(n) \/ HostComesUp(n)
       \/ \E master \in BOOLEAN : VrrpChanges(n, master)
       \/ \E m \in Nodes, r \in Relabels : AdminRelabels(n, m, r)

Spec == Init /\ [][Next]_vars

\* setInterval, the await chain, the systemd timer and Postgres keep going on a
\* host that is up; links, hosts and keepalived promise nothing.
Fairness ==
  \A n \in Nodes :
    WF_vars(Heartbeat(n)) /\ WF_vars(Promotion(n)) /\ WF_vars(Watcher(n)) /\ WF_vars(Replicate(n))

FairSpec == Spec /\ Fairness

-----------------------------------------------------------------------------
(* Properties.                                                             *)

Writable(n) == up[n] /\ ~recovery[n]
ActsAsPrimary(n) == ~recovery[n] /\ role[n] = "primary"

\* A node that acts as primary is the only primary of its own nodes table, unless
\* an admin has relabelled a node: the relays, the quorum and the firewall rules
\* all ask that table.
OwnTableNamesMe ==
  ~relabelled => \A n \in Nodes : ActsAsPrimary(n) => Primaries(n) = {n}

\* The countdown, not an admin, starts promoteThisNode.
PromotesItself(n) == pc[n] = "idle" /\ pc'[n] = "polling" /\ faults' = faults

\* A standby never promotes itself by the countdown while a node it can talk to
\* acts as primary: the original, or a standby promoted before it, which votes
\* for itself. Bound: up to three nodes; with more, a majority may outvote it.
NoSecondPromotion ==
  [][\A n \in Nodes : PromotesItself(n) =>
       relabelled \/ ~\E m \in Nodes \ {n} : Reaches(n, m) /\ ActsAsPrimary(m)]_vars

\* promoteThisNode was cut short between pg_promote() and the pending flag: the
\* node accepts writes, but nothing will change its .env any more.
CutShort(n) ==
  ~recovery[n] /\ env[n] = "standby" /\ pc[n] = "idle" /\ ~pending[n]

\* Two nodes that stay writable and in touch both end up with the split-brain
\* flag, however the second one was promoted and whatever the admins made of the
\* nodes table, unless its promotion was cut short.
SplitBrainDetected ==
  \A m, n \in Nodes :
    m # n =>
      (<>[](Writable(m) /\ Writable(n) /\ Reaches(m, n) /\ ~CutShort(m) /\ ~CutShort(n))
         => <>[](detected[m] /\ detected[n]))

\* A standby that became writable and stays up ends up running as primary, cron
\* jobs and Kea with it, whatever interrupts the watcher on the way, unless its
\* promotion was cut short.
PromotionCompletes ==
  \A n \in Nodes : <>[](Writable(n) /\ ~CutShort(n)) => <>[]ActsAsPrimary(n)

\* CHANGELOG.md: a standby that holds the floating IP and cannot reach the
\* primary for the grace period promotes itself.
FailoverHappens ==
  \A n \in Nodes :
    <>[](up[n] /\ vrrp[n] /\ ~up[Original]) => <>~recovery[n]
=============================================================================
