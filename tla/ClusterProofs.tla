---------------------------- MODULE ClusterProofs ----------------------------
(***************************************************************************)
(* What holds of a cluster, for any number of nodes, faults, addresses,    *)
(* reservations and requests: the roles of its nodes, and the DHCP scope   *)
(* that the primary serves.                                                *)
(***************************************************************************)
EXTENDS MCCluster, FiniteSetTheorems, TLAPS

-----------------------------------------------------------------------------
(* A node that runs as primary is the only primary of its own table, for   *)
(* every grace period and number of faults.                                *)
(*                                                                         *)
(* OwnTableNamesMe is not inductive by itself: that the table of a node    *)
(* running as primary names nobody else goes back to when UPDATE ...       *)
(* 'demoted' ran, several steps and a restart of the API before.           *)


\* A standby in recovery, or on its way out, is a standby in its .env too.
EnvFollows(n) ==
  /\ recovery[n] \/ pc[n] # "idle" => env[n] = "standby" /\ ~pending[n]
  /\ env[n] = "standby" => role[n] = "standby"
  /\ pc[n] \in {"ownRow", "otherRows", "flag"} => ~recovery[n]

\* From the second UPDATE on, nobody else is primary in n's table.
OthersDemoted(n) ==
  ~relabelled /\ (pending[n] \/ env[n] = "primary" \/ pc[n] = "flag") =>
    \A m \in Nodes \ {n} : rows[n][m].haRole # "primary"

\* registerSelf ran when the role was read.
Registered(n) == ~relabelled /\ role[n] = "primary" => rows[n][n].haRole = "primary"

IInv == TypeOK /\ \A n \in Nodes : EnvFollows(n) /\ OthersDemoted(n) /\ Registered(n)

-----------------------------------------------------------------------------
\* What a node does to the nodes tables when it records something about itself:
\* at most its own row changes, in its own table or, by a relay, in another's.
LEMMA RecordOwnRow ==
  ASSUME TypeOK, NEW n \in Nodes, NEW here \in BOOLEAN, NEW update \in [Row -> Row],
         RecordOwn(n, here, update)
  PROVE  /\ rows' \in [Nodes -> [Nodes -> Row]]
         /\ here => rows' = [rows EXCEPT ![n][n] = update[rows[n][n]]]
         /\ ~here => \/ rows' = rows
                     \/ \E p \in Nodes : ~recovery[p] /\ rows' = [rows EXCEPT ![p][n] = update[rows[p][n]]]
<1>1. rows \in [Nodes -> [Nodes -> Row]]
  BY DEF TypeOK
<1>2. ASSUME NEW p \in Nodes PROVE [rows EXCEPT ![p][n] = update[rows[p][n]]] \in [Nodes -> [Nodes -> Row]]
  <2>1. rows[p] \in [Nodes -> Row] /\ rows[p][n] \in Row
    BY <1>1, <1>2
  <2>2. update[rows[p][n]] \in Row
    BY <2>1
  <2>3. [rows[p] EXCEPT ![n] = update[rows[p][n]]] \in [Nodes -> Row]
    BY <2>1, <2>2
  <2> QED
    BY <1>1, <1>2, <2>3
<1>3. CASE here
  <2>1. rows' = [rows EXCEPT ![n][n] = update[rows[n][n]]]
    BY <1>3 DEF RecordOwn
  <2> QED
    BY <1>2, <1>3, <2>1
<1>4. CASE ~here
  <2>1. \/ rows' = rows
        \/ \E p \in Nodes : ~recovery[p] /\ rows' = [rows EXCEPT ![p][n] = update[rows[p][n]]]
    BY <1>4 DEF RecordOwn, Primaries, Accepts
  <2> QED
    BY <1>1, <1>2, <1>4, <2>1
<1> QED
  BY <1>3, <1>4

\* registerSelf: the own row says what the container says, and a relay never makes
\* a row of somebody else's table a primary.
LEMMA StartApiRows ==
  ASSUME IInv, NEW n \in Nodes, NEW r \in {"primary", "standby"},
         r = "primary" => ~recovery[n], StartApi(n, r)
  PROVE  /\ rows' \in [Nodes -> [Nodes -> Row]]
         /\ ~recovery[n] => rows'[n][n].haRole = r
         /\ \A p, m \in Nodes :
              \/ rows'[p][m].haRole = rows[p][m].haRole
              \/ m = n /\ p = n
              \/ m = n /\ p # n /\ rows'[p][m].haRole = "standby"
<1> DEFINE update == [row \in Row |-> [row EXCEPT !.haRole = r]]
<1>1. update \in [Row -> Row]
  BY DEF Row
<1>2. RecordOwn(n, ~recovery[n], update)
  BY DEF StartApi
<1>3. TypeOK /\ rows \in [Nodes -> [Nodes -> Row]] /\ recovery[n] \in BOOLEAN
  BY DEF IInv, TypeOK
<1>4. \A p, m \in Nodes : rows[p][m] \in Row /\ update[rows[p][m]].haRole = r
  BY <1>3 DEF Row
<1> HIDE DEF update
<1>5. /\ rows' \in [Nodes -> [Nodes -> Row]]
      /\ ~recovery[n] => rows' = [rows EXCEPT ![n][n] = update[rows[n][n]]]
      /\ recovery[n] => \/ rows' = rows
                        \/ \E p \in Nodes : ~recovery[p] /\ rows' = [rows EXCEPT ![p][n] = update[rows[p][n]]]
  <2>1. (~recovery[n]) \in BOOLEAN
    OBVIOUS
  <2> QED
    BY <1>1, <1>2, <1>3, <2>1, RecordOwnRow
<1>6. CASE ~recovery[n]
  BY <1>3, <1>4, <1>5, <1>6
<1>7. CASE recovery[n]
  <2>1. r = "standby"
    BY <1>7
  <2>2. CASE rows' = rows
    BY <1>5, <1>7, <2>2
  <2>3. CASE \E p \in Nodes : ~recovery[p] /\ rows' = [rows EXCEPT ![p][n] = update[rows[p][n]]]
    <3>1. PICK p \in Nodes : ~recovery[p] /\ rows' = [rows EXCEPT ![p][n] = update[rows[p][n]]]
      BY <2>3
    <3>2. \A q, m \in Nodes : rows'[q][m] = IF q = p /\ m = n THEN update[rows[p][n]] ELSE rows[q][m]
      BY <1>3, <3>1
    <3> QED
      BY <1>4, <1>5, <1>7, <2>1, <3>2
  <2> QED
    BY <1>5, <1>7, <2>2, <2>3
<1> QED
  BY <1>3, <1>6, <1>7

-----------------------------------------------------------------------------
\* The cluster starts with the original as the only primary of every table.
LEMMA InitEstablishes == Init => IInv
<1> SUFFICES ASSUME Init PROVE IInv
  OBVIOUS
<1>1. TypeOK
  <2>1. rows \in [Nodes -> [Nodes -> Row]]
    BY DEF Init, Row, InitialRole
  <2>2. candidate \in [Nodes -> 0 .. Grace] /\ faults \in 0 .. MaxFaults
    BY GraceIsNat, FaultsAreNat DEF Init
  <2>3. pc \in [Nodes -> Steps] /\ watcher \in [Nodes -> {"idle", "flipped", "restarted"}]
    BY DEF Init, Steps
  <2> QED
    BY <2>1, <2>2, <2>3 DEF Init, TypeOK, InitialRole
<1>2. ASSUME NEW n \in Nodes PROVE EnvFollows(n) /\ OthersDemoted(n) /\ Registered(n)
  BY <1>2 DEF Init, EnvFollows, OthersDemoted, Registered, InitialRole
<1> QED
  BY <1>1, <1>2 DEF IInv

\* The role invariants only speak of these variables.
roleVars == <<recovery, pending, env, role, pc, rows, relabelled>>

\* A step that leaves them alone keeps the invariant.
LEMMA RolesKept ==
  ASSUME IInv, TypeOK', UNCHANGED roleVars
  PROVE  IInv'
BY DEF IInv, EnvFollows, OthersDemoted, Registered, roleVars

\* A fault stays within its bound.
LEMMA FaultType == ASSUME TypeOK, Fault PROVE faults' \in 0 .. MaxFaults
BY FaultsAreNat DEF TypeOK, Fault

\* The steps of the world and of the heartbeats that change no role.
LEMMA QuietSteps ==
  ASSUME IInv, NEW n \in Nodes,
         \/ NotACandidate(n) \/ ProbePeers(n)
         \/ \E link \in links : LinkFails(link)
         \/ \E link \in AllLinks \ links : LinkHeals(link)
  PROVE  IInv'
<1> USE DEF databaseVars, apiVars, hostVars, worldVars
<1>0. TypeOK
  BY DEF IInv
<1>1. CASE NotACandidate(n)
  <2>1. TypeOK'
    BY <1>0, <1>1, GraceIsNat DEF NotACandidate, TypeOK
  <2> QED
    BY <1>1, <2>1, RolesKept DEF NotACandidate, roleVars
<1>2. CASE ProbePeers(n)
  <2>1. TypeOK'
    BY <1>0, <1>2 DEF ProbePeers, TypeOK
  <2> QED
    BY <1>2, <2>1, RolesKept DEF ProbePeers, roleVars
<1>3. CASE \E link \in links : LinkFails(link)
  <2>1. PICK link \in links : LinkFails(link)
    BY <1>3
  <2>2. faults' \in 0 .. MaxFaults
    BY <1>0, <2>1, FaultType DEF LinkFails
  <2>3. TypeOK'
    BY <1>0, <2>1, <2>2 DEF LinkFails, TypeOK
  <2> QED
    BY <2>1, <2>3, RolesKept DEF LinkFails, roleVars
<1>4. CASE \E link \in AllLinks \ links : LinkHeals(link)
  <2>1. PICK link \in AllLinks \ links : LinkHeals(link)
    BY <1>4
  <2>2. links' \subseteq AllLinks
    BY <1>0, <2>1 DEF LinkHeals, TypeOK
  <2>3. TypeOK'
    BY <1>0, <2>1, <2>2 DEF LinkHeals, TypeOK
  <2> QED
    BY <2>1, <2>3, RolesKept DEF LinkHeals, roleVars
<1> QED
  BY <1>1, <1>2, <1>3, <1>4

\* Steps that change the role variables of n at most, and the rows of n only by
\* what is said here: the invariants of the other nodes are left alone.
LEMMA OnlyThisNode ==
  ASSUME IInv, TypeOK', NEW n \in Nodes,
         \A k \in Nodes \ {n} :
           /\ recovery'[k] = recovery[k] /\ pending'[k] = pending[k] /\ env'[k] = env[k]
           /\ role'[k] = role[k] /\ pc'[k] = pc[k] /\ rows'[k] = rows[k],
         relabelled' = relabelled,
         EnvFollows(n)', OthersDemoted(n)', Registered(n)'
  PROVE  IInv'
<1>1. ASSUME NEW k \in Nodes \ {n} PROVE EnvFollows(k)' /\ OthersDemoted(k)' /\ Registered(k)'
  BY <1>1 DEF IInv, EnvFollows, OthersDemoted, Registered
<1> QED
  BY <1>1 DEF IInv

-----------------------------------------------------------------------------
\* pg_promote() and the steps after it.
LEMMA PromotionSteps ==
  ASSUME IInv, NEW n \in Nodes,
         \/ AutoPromote(n) \/ AdminPromotes(n) \/ RecoveryEnds(n)
         \/ PollSeesPrimary(n) \/ PollGivesUp(n)
         \/ UpdateOwnRow(n) \/ UpdateOtherRows(n) \/ SetPending(n)
  PROVE  IInv'
<1> USE DEF databaseVars, hostVars, worldVars, At
<1>0. /\ TypeOK /\ EnvFollows(n) /\ OthersDemoted(n) /\ Registered(n)
      /\ rows \in [Nodes -> [Nodes -> Row]]
  BY DEF IInv, TypeOK
<1>1. CASE AutoPromote(n)
  <2>1. TypeOK'
    <3>1. candidate[n] \in 0 .. Grace /\ Grace \in Nat
      BY <1>0, GraceIsNat DEF TypeOK
    <3>2. candidate' \in [Nodes -> 0 .. Grace]
      <4>1. CASE candidate[n] < Grace
        <5>1. candidate[n] + 1 \in 0 .. Grace
          BY <3>1, <4>1
        <5> QED
          BY <1>0, <1>1, <4>1, <5>1 DEF AutoPromote, TypeOK
      <4>2. CASE ~(candidate[n] < Grace)
        BY <1>0, <1>1, <3>1, <4>2 DEF AutoPromote, TypeOK
      <4> QED
        BY <4>1, <4>2
    <3>3. asked' \in [Nodes -> BOOLEAN] /\ pc' \in [Nodes -> Steps]
      BY <1>0, <1>1 DEF AutoPromote, StartPromotion, TypeOK, Steps
    <3> QED
      BY <1>0, <1>1, <3>2, <3>3 DEF AutoPromote, TypeOK
  <2>2. EnvFollows(n)' /\ OthersDemoted(n)' /\ Registered(n)'
    BY <1>0, <1>1 DEF AutoPromote, StartPromotion, EnvFollows, OthersDemoted, Registered, TypeOK
  <2> QED
    BY <1>0, <1>1, <2>1, <2>2, OnlyThisNode DEF AutoPromote, StartPromotion, TypeOK
<1>2. CASE AdminPromotes(n)
  <2>1. faults' \in 0 .. MaxFaults
    BY <1>0, <1>2, FaultType DEF AdminPromotes
  <2>2. TypeOK'
    BY <1>0, <1>2, <2>1 DEF AdminPromotes, StartPromotion, TypeOK, Steps
  <2>3. EnvFollows(n)' /\ OthersDemoted(n)' /\ Registered(n)'
    BY <1>0, <1>2 DEF AdminPromotes, StartPromotion, EnvFollows, OthersDemoted, Registered, TypeOK
  <2> QED
    BY <1>0, <1>2, <2>2, <2>3, OnlyThisNode DEF AdminPromotes, StartPromotion, TypeOK
<1>3. CASE RecoveryEnds(n)
  <2>1. TypeOK'
    BY <1>0, <1>3 DEF RecoveryEnds, apiVars, TypeOK
  <2>2. EnvFollows(n)' /\ OthersDemoted(n)' /\ Registered(n)'
    BY <1>0, <1>3 DEF RecoveryEnds, apiVars, EnvFollows, OthersDemoted, Registered, TypeOK
  <2> QED
    BY <1>0, <1>3, <2>1, <2>2, OnlyThisNode DEF RecoveryEnds, apiVars, TypeOK
<1>4. CASE PollSeesPrimary(n)
  <2>1. TypeOK'
    BY <1>0, <1>4 DEF PollSeesPrimary, TypeOK, Steps
  <2>2. EnvFollows(n)' /\ OthersDemoted(n)' /\ Registered(n)'
    BY <1>0, <1>4 DEF PollSeesPrimary, EnvFollows, OthersDemoted, Registered, TypeOK
  <2> QED
    BY <1>0, <1>4, <2>1, <2>2, OnlyThisNode DEF PollSeesPrimary, TypeOK
<1>5. CASE PollGivesUp(n)
  <2>1. faults' \in 0 .. MaxFaults
    BY <1>0, <1>5, FaultType DEF PollGivesUp
  <2>2. TypeOK'
    BY <1>0, <1>5, <2>1 DEF PollGivesUp, TypeOK, Steps
  <2>3. EnvFollows(n)' /\ OthersDemoted(n)' /\ Registered(n)'
    BY <1>0, <1>5 DEF PollGivesUp, EnvFollows, OthersDemoted, Registered, TypeOK
  <2> QED
    BY <1>0, <1>5, <2>2, <2>3, OnlyThisNode DEF PollGivesUp, TypeOK
<1>6. CASE UpdateOwnRow(n)
  <2>1. /\ rows' \in [Nodes -> [Nodes -> Row]]
        /\ \A k \in Nodes \ {n} : rows'[k] = rows[k]
        /\ \A k \in Nodes \ {n} : rows'[n][k] = rows[n][k]
    <3>1. [rows[n][n] EXCEPT !.haRole = "primary"] \in Row
      BY <1>0 DEF Row
    <3>2. rows' = [rows EXCEPT ![n] = [rows[n] EXCEPT ![n] = [rows[n][n] EXCEPT !.haRole = "primary"]]]
      BY <1>0, <1>6 DEF UpdateOwnRow, SetHaRole
    <3> QED
      BY <1>0, <3>1, <3>2
  <2>2. TypeOK'
    BY <1>0, <1>6, <2>1 DEF UpdateOwnRow, TypeOK, Steps
  <2>3. env[n] = "standby" /\ role[n] = "standby"
    BY <1>0, <1>6 DEF UpdateOwnRow, EnvFollows
  <2>4. EnvFollows(n)' /\ OthersDemoted(n)' /\ Registered(n)'
    BY <1>0, <1>6, <2>1, <2>3 DEF UpdateOwnRow, EnvFollows, OthersDemoted, Registered, TypeOK
  <2> QED
    BY <1>0, <1>6, <2>1, <2>2, <2>4, OnlyThisNode DEF UpdateOwnRow, TypeOK
<1>7. CASE UpdateOtherRows(n)
  <2>1. /\ Demoted(n, rows[n]) \in [Nodes -> Row]
        /\ \A m \in Nodes \ {n} : Demoted(n, rows[n])[m].haRole # "primary"
        /\ Demoted(n, rows[n])[n] = rows[n][n]
    <3>1. \A m \in Nodes : rows[n][m] \in Row
      BY <1>0
    <3>2. \A row \in Row : [row EXCEPT !.haRole = "demoted"] \in Row
                            /\ [row EXCEPT !.haRole = "demoted"].haRole = "demoted"
      BY DEF Row
    <3> QED
      BY <3>1, <3>2 DEF Demoted
  <2>2. /\ rows' \in [Nodes -> [Nodes -> Row]]
        /\ rows'[n] = Demoted(n, rows[n])
        /\ \A k \in Nodes \ {n} : rows'[k] = rows[k]
    BY <1>0, <1>7, <2>1 DEF UpdateOtherRows
  <2>3. TypeOK'
    BY <1>0, <1>7, <2>2 DEF UpdateOtherRows, TypeOK, Steps
  <2>4. EnvFollows(n)' /\ OthersDemoted(n)' /\ Registered(n)'
    BY <1>0, <1>7, <2>1, <2>2 DEF UpdateOtherRows, EnvFollows, OthersDemoted, Registered, TypeOK
  <2> QED
    BY <1>0, <1>7, <2>2, <2>3, <2>4, OnlyThisNode DEF UpdateOtherRows, TypeOK
<1>8. CASE SetPending(n)
  <2>1. TypeOK'
    BY <1>0, <1>8 DEF SetPending, TypeOK, Steps
  <2>2. EnvFollows(n)' /\ OthersDemoted(n)' /\ Registered(n)'
    BY <1>0, <1>8 DEF SetPending, EnvFollows, OthersDemoted, Registered, TypeOK
  <2> QED
    BY <1>0, <1>8, <2>1, <2>2, OnlyThisNode DEF SetPending, TypeOK
<1> QED
  BY <1>1, <1>2, <1>3, <1>4, <1>5, <1>6, <1>7, <1>8

-----------------------------------------------------------------------------
\* The API of n starts, in a container that says r: other tables at most lose a
\* primary, and n's own row follows the container.
LEMMA Restarts ==
  ASSUME IInv, TypeOK', NEW n \in Nodes, NEW r \in {role[n], env[n]}, StartApi(n, r),
         UNCHANGED <<recovery, pending, env, relabelled>>
  PROVE  IInv'
<1>0. /\ TypeOK /\ EnvFollows(n) /\ OthersDemoted(n)
      /\ env[n] \in {"primary", "standby"} /\ r \in {"primary", "standby"}
  BY DEF IInv, TypeOK
<1>1. r = "primary" => ~recovery[n] /\ env[n] = "primary"
  BY <1>0 DEF EnvFollows
<1>2. /\ ~recovery[n] => rows'[n][n].haRole = r
      /\ \A p, m \in Nodes :
           \/ rows'[p][m].haRole = rows[p][m].haRole
           \/ m = n /\ p = n
           \/ m = n /\ p # n /\ rows'[p][m].haRole = "standby"
  BY <1>0, <1>1, StartApiRows
<1>3. role'[n] = r /\ pc'[n] = "idle"
  BY <1>0 DEF StartApi, TypeOK
<1>4. \A k \in Nodes \ {n} : role'[k] = role[k] /\ pc'[k] = pc[k]
  BY <1>0 DEF StartApi, TypeOK
<1>5. EnvFollows(n)' /\ OthersDemoted(n)' /\ Registered(n)'
  <2>1. EnvFollows(n)'
    BY <1>0, <1>3 DEF EnvFollows
  <2>2. OthersDemoted(n)'
    BY <1>0, <1>2, <1>3 DEF OthersDemoted
  <2>3. Registered(n)'
    BY <1>1, <1>2, <1>3 DEF Registered
  <2> QED
    BY <2>1, <2>2, <2>3
<1>6. ASSUME NEW k \in Nodes \ {n} PROVE EnvFollows(k)' /\ OthersDemoted(k)' /\ Registered(k)'
  <2>1. EnvFollows(k) /\ OthersDemoted(k) /\ Registered(k)
    BY <1>6 DEF IInv
  <2>2. EnvFollows(k)'
    BY <1>4, <1>6, <2>1 DEF EnvFollows
  <2>3. \A m \in Nodes \ {k} : rows[k][m].haRole # "primary" => rows'[k][m].haRole # "primary"
    BY <1>2, <1>6
  <2>4. OthersDemoted(k)'
    BY <1>4, <1>6, <2>1, <2>3 DEF OthersDemoted
  <2>5. rows'[k][k].haRole = rows[k][k].haRole
    BY <1>2, <1>6
  <2>6. Registered(k)'
    BY <1>4, <1>6, <2>1, <2>5 DEF Registered
  <2> QED
    BY <2>2, <2>4, <2>6
<1> QED
  BY <1>5, <1>6 DEF IInv

\* The start of an API keeps the types of what it changes.
LEMMA StartApiType ==
  ASSUME IInv, NEW n \in Nodes, NEW r \in {role[n], env[n]}, StartApi(n, r)
  PROVE  /\ role' \in [Nodes -> {"primary", "standby"}]
         /\ candidate' \in [Nodes -> 0 .. Grace]
         /\ pc' \in [Nodes -> Steps]
         /\ rows' \in [Nodes -> [Nodes -> Row]]
<1>0. TypeOK /\ EnvFollows(n) /\ r \in {"primary", "standby"} /\ role[n] \in {"primary", "standby"}
      /\ env[n] \in {"primary", "standby"}
  BY DEF IInv, TypeOK
<1>1. r = "primary" => ~recovery[n]
  BY <1>0 DEF EnvFollows
<1>2. rows' \in [Nodes -> [Nodes -> Row]]
  BY <1>0, <1>1, StartApiRows
<1> QED
  BY <1>0, <1>2, GraceIsNat DEF StartApi, TypeOK, Steps

\* Restarts, crashes and the watcher.
LEMMA HostAndWatcherSteps ==
  ASSUME IInv, NEW n \in Nodes,
         \/ ApiRestarts(n) \/ HostGoesDown(n) \/ HostComesUp(n)
         \/ WatcherFlips(n) \/ WatcherRestarts(n) \/ WatcherCompletes(n) \/ WatcherStops(n)
  PROVE  IInv'
<1> USE DEF hostVars
<1>0. /\ TypeOK /\ EnvFollows(n) /\ OthersDemoted(n) /\ Registered(n)
  BY DEF IInv
<1>1. CASE ApiRestarts(n)
  <2>1. PICK r \in {role[n], env[n]} : StartApi(n, r)
    BY <1>1 DEF ApiRestarts
  <2>2. faults' \in 0 .. MaxFaults
    BY <1>0, <1>1, FaultType DEF ApiRestarts
  <2>3. TypeOK'
    BY <1>0, <1>1, <2>1, <2>2, StartApiType DEF ApiRestarts, TypeOK
  <2> QED
    BY <1>1, <2>1, <2>3, Restarts DEF ApiRestarts
<1>2. CASE HostGoesDown(n)
  <2>1. faults' \in 0 .. MaxFaults
    BY <1>0, <1>2, FaultType DEF HostGoesDown
  <2>2. TypeOK'
    BY <1>0, <1>2, <2>1, GraceIsNat DEF HostGoesDown, TypeOK, Steps
  <2>3. EnvFollows(n)' /\ OthersDemoted(n)' /\ Registered(n)'
    BY <1>0, <1>2 DEF HostGoesDown, EnvFollows, OthersDemoted, Registered, TypeOK
  <2> QED
    BY <1>0, <1>2, <2>2, <2>3, OnlyThisNode DEF HostGoesDown, TypeOK
<1>3. CASE HostComesUp(n)
  <2>1. TypeOK'
    BY <1>0, <1>3, StartApiType DEF HostComesUp, TypeOK
  <2> QED
    BY <1>3, <2>1, Restarts DEF HostComesUp
<1>4. CASE WatcherFlips(n)
  <2>1. TypeOK'
    BY <1>0, <1>4 DEF WatcherFlips, databaseVars, apiVars, worldVars, TypeOK
  <2>2. EnvFollows(n)' /\ OthersDemoted(n)' /\ Registered(n)'
    BY <1>0, <1>4 DEF worldVars, WatcherFlips, databaseVars, apiVars, EnvFollows, OthersDemoted, Registered, TypeOK
  <2> QED
    BY <1>0, <1>4, <2>1, <2>2, OnlyThisNode DEF worldVars, WatcherFlips, databaseVars, apiVars, TypeOK
<1>5. CASE WatcherRestarts(n)
  <2>1. CASE role[n] # env[n]
    <3>1. StartApi(n, env[n])
      BY <1>5, <2>1 DEF WatcherRestarts
    <3>2. TypeOK'
      BY <1>0, <1>5, <3>1, StartApiType DEF WatcherRestarts, worldVars, TypeOK
    <3> QED
      BY <1>5, <3>1, <3>2, Restarts DEF worldVars, WatcherRestarts
  <2>2. CASE role[n] = env[n]
    <3>1. TypeOK'
      BY <1>0, <1>5, <2>2 DEF WatcherRestarts, apiVars, worldVars, TypeOK
    <3> QED
      BY <1>5, <2>2, <3>1, RolesKept DEF worldVars, WatcherRestarts, apiVars, roleVars
  <2> QED
    BY <2>1, <2>2
<1>6. CASE WatcherCompletes(n)
  <2>1. TypeOK'
    BY <1>0, <1>6 DEF WatcherCompletes, apiVars, worldVars, TypeOK
  <2>2. EnvFollows(n)' /\ OthersDemoted(n)' /\ Registered(n)'
    BY <1>0, <1>6 DEF worldVars, WatcherCompletes, apiVars, EnvFollows, OthersDemoted, Registered, TypeOK
  <2> QED
    BY <1>0, <1>6, <2>1, <2>2, OnlyThisNode DEF worldVars, WatcherCompletes, apiVars, TypeOK
<1>7. CASE WatcherStops(n)
  <2>1. faults' \in 0 .. MaxFaults
    BY <1>0, <1>7, FaultType DEF WatcherStops
  <2>2. TypeOK'
    BY <1>0, <1>7, <2>1 DEF WatcherStops, databaseVars, apiVars, TypeOK
  <2> QED
    BY <1>7, <2>2, RolesKept DEF WatcherStops, databaseVars, apiVars, roleVars
<1> QED
  BY <1>1, <1>2, <1>3, <1>4, <1>5, <1>6, <1>7

\* Replication and keepalived.
LEMMA OutsideSteps ==
  ASSUME IInv, NEW n \in Nodes,
         Replicate(n) \/ \E master \in BOOLEAN : VrrpChanges(n, master)
  PROVE  IInv'
<1>0. /\ TypeOK /\ EnvFollows(n) /\ OthersDemoted(n) /\ Registered(n)
      /\ rows \in [Nodes -> [Nodes -> Row]]
  BY DEF IInv, TypeOK
<1>1. CASE Replicate(n)
  <2>1. TypeOK'
    BY <1>0, <1>1, OriginalIsNode DEF Replicate, apiVars, hostVars, worldVars, TypeOK
  <2>2. EnvFollows(n)' /\ OthersDemoted(n)' /\ Registered(n)'
    BY <1>0, <1>1 DEF Replicate, apiVars, hostVars, EnvFollows, OthersDemoted, Registered, TypeOK
  <2> QED
    BY <1>0, <1>1, <2>1, <2>2, OnlyThisNode DEF worldVars, Replicate, apiVars, hostVars, TypeOK
<1>2. CASE \E master \in BOOLEAN : VrrpChanges(n, master)
  <2>1. PICK master \in BOOLEAN : VrrpChanges(n, master)
    BY <1>2
  <2> DEFINE update == [row \in Row |-> [row EXCEPT !.master = master]]
  <2>2. update \in [Row -> Row] /\ RecordOwn(n, role[n] = "primary", update)
    BY <2>1 DEF VrrpChanges, Row
  <2>3. \A p, m \in Nodes : rows[p][m] \in Row /\ update[rows[p][m]].haRole = rows[p][m].haRole
    BY <1>0 DEF Row
  <2> HIDE DEF update
  <2>4. /\ rows' \in [Nodes -> [Nodes -> Row]]
        /\ \/ rows' = rows
           \/ \E p \in Nodes : rows' = [rows EXCEPT ![p][n] = update[rows[p][n]]]
    <3>1. (role[n] = "primary") \in BOOLEAN
      OBVIOUS
    <3>2. /\ rows' \in [Nodes -> [Nodes -> Row]]
          /\ role[n] = "primary" => rows' = [rows EXCEPT ![n][n] = update[rows[n][n]]]
          /\ role[n] # "primary" =>
               \/ rows' = rows
               \/ \E p \in Nodes : ~recovery[p] /\ rows' = [rows EXCEPT ![p][n] = update[rows[p][n]]]
      BY <1>0, <2>2, <3>1, RecordOwnRow
    <3> QED
      BY <3>2
  <2>5. \A p, m \in Nodes : rows'[p][m].haRole = rows[p][m].haRole
    <3>1. CASE rows' = rows
      BY <3>1
    <3>2. CASE \E p \in Nodes : rows' = [rows EXCEPT ![p][n] = update[rows[p][n]]]
      <4>1. PICK p \in Nodes : rows' = [rows EXCEPT ![p][n] = update[rows[p][n]]]
        BY <3>2
      <4>2. \A q, m \in Nodes : rows'[q][m] = IF q = p /\ m = n THEN update[rows[p][n]] ELSE rows[q][m]
        BY <1>0, <4>1
      <4> QED
        BY <2>3, <4>2
    <3> QED
      BY <2>4, <3>1, <3>2
  <2>6. TypeOK'
    BY <1>0, <2>1, <2>4 DEF VrrpChanges, apiVars, hostVars, TypeOK
  <2>7. ASSUME NEW k \in Nodes PROVE EnvFollows(k)' /\ OthersDemoted(k)' /\ Registered(k)'
    BY <2>1, <2>5, <2>7 DEF VrrpChanges, apiVars, hostVars, IInv, EnvFollows, OthersDemoted, Registered
  <2> QED
    BY <2>6, <2>7 DEF IInv
<1> QED
  BY <1>1, <1>2

\* An admin's edit: from here on, the tables are the admins' own business.
LEMMA RelabelStep ==
  ASSUME IInv, NEW n \in Nodes, NEW m \in Nodes, NEW r \in Relabels, AdminRelabels(n, m, r)
  PROVE  IInv'
<1>1. TypeOK /\ rows \in [Nodes -> [Nodes -> Row]] /\ relabelled' = TRUE
  BY DEF IInv, TypeOK, AdminRelabels
<1>2. rows' \in [Nodes -> [Nodes -> Row]]
  <2>1. r \in {"primary", "standby", "replica", "demoted"}
    BY RelabelsAreRoles
  <2>2. [rows[n][m] EXCEPT !.haRole = r] \in Row
    BY <1>1, <2>1 DEF Row
  <2>3. rows' = [rows EXCEPT ![n] = [rows[n] EXCEPT ![m] = [rows[n][m] EXCEPT !.haRole = r]]]
    BY <1>1 DEF AdminRelabels, SetHaRole
  <2> QED
    BY <1>1, <2>2, <2>3
<1>3. faults' \in 0 .. MaxFaults
  BY <1>1, FaultType DEF AdminRelabels
<1>4. TypeOK'
  BY <1>1, <1>2, <1>3 DEF AdminRelabels, apiVars, hostVars, TypeOK
<1>5. ASSUME NEW k \in Nodes PROVE EnvFollows(k)' /\ OthersDemoted(k)' /\ Registered(k)'
  BY <1>1, <1>5 DEF AdminRelabels, apiVars, hostVars, IInv, EnvFollows, OthersDemoted, Registered
<1> QED
  BY <1>4, <1>5 DEF IInv

-----------------------------------------------------------------------------
\* Every step of the cluster keeps the invariant.
LEMMA Inductive == IInv /\ [Next]_vars => IInv'
<1> SUFFICES ASSUME IInv, [Next]_vars PROVE IInv'
  OBVIOUS
<1>1. ASSUME NEW n \in Nodes, Heartbeat(n) \/ Promotion(n) \/ Watcher(n) \/ Replicate(n)
               \/ AdminPromotes(n) \/ PollGivesUp(n) \/ WatcherStops(n)
               \/ ApiRestarts(n) \/ HostGoesDown(n) \/ HostComesUp(n)
               \/ \E master \in BOOLEAN : VrrpChanges(n, master)
               \/ \E m \in Nodes, r \in Relabels : AdminRelabels(n, m, r)
      PROVE  IInv'
  BY <1>1, QuietSteps, PromotionSteps, HostAndWatcherSteps, OutsideSteps, RelabelStep
     DEF Heartbeat, Promotion, Watcher
<1>2. CASE \/ \E link \in links : Cardinality(link) = 2 /\ LinkFails(link)
           \/ \E link \in AllLinks \ links : LinkHeals(link)
  BY <1>2, QuietSteps, OriginalIsNode
<1>3. CASE UNCHANGED vars
  <2>1. TypeOK'
    BY <1>3 DEF IInv, TypeOK, vars, databaseVars, apiVars, hostVars, worldVars
  <2> QED
    BY <1>3, <2>1, RolesKept DEF vars, databaseVars, apiVars, hostVars, worldVars, roleVars
<1> QED
  BY <1>1, <1>2, <1>3 DEF Next

\* The invariant says what the property says.
LEMMA NamesMe == IInv => OwnTableNamesMe
BY DEF IInv, TypeOK, EnvFollows, OthersDemoted, Registered, OwnTableNamesMe, ActsAsPrimary, Primaries

\* What promotions, restarts and relays keep true together.
THEOREM Invariance == Spec => []IInv
<1>1. Init => IInv
  BY InitEstablishes
<1>2. IInv /\ [Next]_vars => IInv'
  BY Inductive
<1> QED
  BY <1>1, <1>2, PTL DEF Spec

\* Every variable keeps its type.
THEOREM TypeCorrect == Spec => []TypeOK
<1>1. IInv => TypeOK
  BY DEF IInv
<1> QED
  BY <1>1, Invariance, PTL

\* Whatever crashes, restarts, lost relays and promotions cut short came before, a
\* node that accepts writes and runs as primary finds itself, and nobody else, as
\* the primary of its own nodes table, as long as no admin has edited a role.
THEOREM OwnTable == Spec => []OwnTableNamesMe
BY Invariance, NamesMe, PTL
-----------------------------------------------------------------------------
(* No second promotion. A standby's countdown asks the node its own table  *)
(* calls the primary. While its Postgres is in recovery that table is a    *)
(* copy, and names the original; a standby that was promoted before, and   *)
(* acts as primary, names itself, reaches itself and so votes for itself.  *)

\* The original is never a standby, and no host loses the link to itself.
OriginalInv ==
  /\ ~recovery[Original] /\ env[Original] = "primary" /\ role[Original] = "primary"
  /\ \A n \in Nodes : {n} \in links

\* What a standby has copied names the original, and nobody else.
CopyInv(n) == ~relabelled /\ recovery[n] => Primaries(n) = {Original}

FollowersInv == OriginalInv /\ \A n \in Nodes : CopyInv(n)

\* The cluster starts that way.
LEMMA FollowersAtFirst == Init => FollowersInv
<1> SUFFICES ASSUME Init PROVE FollowersInv
  OBVIOUS
<1>1. OriginalInv
  <2>1. \A n \in Nodes : {n} = {n, n} /\ {n, n} \in links
    BY DEF Init, AllLinks
  <2> QED
    BY <2>1, OriginalIsNode DEF Init, OriginalInv, InitialRole
<1>2. ASSUME NEW n \in Nodes PROVE CopyInv(n)
  BY <1>2, OriginalIsNode DEF Init, CopyInv, Primaries, InitialRole
<1> QED
  BY <1>1, <1>2 DEF FollowersInv

\* What decides who a table names.
LEMMA SameNames ==
  ASSUME NEW n \in Nodes, \A m \in Nodes : rows'[n][m].haRole = rows[n][m].haRole
  PROVE  Primaries(n)' = Primaries(n)
BY DEF Primaries

\* What a node records about itself stands in no table of a standby.
LEMMA StandbyTablesKept ==
  ASSUME TypeOK, NEW n \in Nodes, NEW here \in BOOLEAN, NEW update \in [Row -> Row],
         RecordOwn(n, here, update), here => ~recovery[n]
  PROVE  \A k \in Nodes : recovery[k] => rows'[k] = rows[k]
BY SMT, RecordOwnRow DEF TypeOK

\* The start of an API changes the row of that node only, in a table it can write.
LEMMA StartsInStandbyTables ==
  ASSUME TypeOK, NEW n \in Nodes, NEW r \in {"primary", "standby"}, StartApi(n, r)
  PROVE  \A k \in Nodes : recovery[k] => rows'[k] = rows[k]
<1> DEFINE update == [row \in Row |-> [row EXCEPT !.haRole = r]]
<1>1. update \in [Row -> Row] /\ RecordOwn(n, ~recovery[n], update)
  BY DEF Row, StartApi
<1>2. (~recovery[n]) \in BOOLEAN
  OBVIOUS
<1> HIDE DEF update
<1> QED
  BY <1>1, <1>2, StandbyTablesKept

\* Whatever happens, the original stays what it is.
LEMMA OriginalStays ==
  ASSUME IInv, FollowersInv, [Next]_vars
  PROVE  OriginalInv'
<1> USE DEF databaseVars, apiVars, hostVars, worldVars
<1>0. /\ TypeOK /\ OriginalInv /\ Original \in Nodes
      /\ EnvFollows(Original)
  BY OriginalIsNode DEF FollowersInv, IInv
<1>1. UNCHANGED vars => OriginalInv'
  BY <1>0 DEF OriginalInv, vars
<1>2. ASSUME NEW link \in links, Cardinality(link) = 2, LinkFails(link) PROVE OriginalInv'
  <2>1. \A n \in Nodes : {n} # link
    BY <1>2, FS_Singleton
  <2> QED
    BY <1>0, <1>2, <2>1 DEF OriginalInv, LinkFails
<1>3. ASSUME NEW link \in AllLinks \ links, LinkHeals(link) PROVE OriginalInv'
  BY <1>0, <1>3 DEF OriginalInv, LinkHeals
<1>4. ASSUME NEW n \in Nodes, NEW r \in {role[n], env[n]}, StartApi(n, r),
             UNCHANGED <<recovery, env, links>>
      PROVE  OriginalInv'
  BY <1>0, <1>4 DEF OriginalInv, StartApi, TypeOK
<1>5. ASSUME NEW n \in Nodes, ApiRestarts(n) \/ HostComesUp(n) \/ WatcherRestarts(n)
      PROVE  OriginalInv'
  <2>1. CASE ApiRestarts(n)
    BY <1>4, <2>1 DEF ApiRestarts
  <2>2. CASE HostComesUp(n)
    BY <1>4, <2>2 DEF HostComesUp
  <2>3. CASE WatcherRestarts(n)
    <3>1. CASE role[n] # env[n]
      BY <1>4, <2>3, <3>1 DEF WatcherRestarts
    <3>2. CASE role[n] = env[n]
      BY <1>0, <2>3, <3>2 DEF WatcherRestarts, OriginalInv
    <3> QED
      BY <3>1, <3>2
  <2> QED
    BY <1>5, <2>1, <2>2, <2>3
<1>6. ASSUME NEW n \in Nodes, HostGoesDown(n) \/ WatcherFlips(n) \/ WatcherCompletes(n)
                              \/ WatcherStops(n)
      PROVE  OriginalInv'
  BY <1>0, <1>6 DEF HostGoesDown, WatcherFlips, WatcherCompletes, WatcherStops, OriginalInv, TypeOK
<1>7. ASSUME NEW n \in Nodes,
             \/ Heartbeat(n) \/ Promotion(n) \/ AdminPromotes(n) \/ PollGivesUp(n)
             \/ Replicate(n)
             \/ \E master \in BOOLEAN : VrrpChanges(n, master)
             \/ \E m \in Nodes, r \in Relabels : AdminRelabels(n, m, r)
      PROVE  OriginalInv'
  BY <1>0, <1>7
     DEF Heartbeat, NotACandidate, AutoPromote, ProbePeers, Promotion, RecoveryEnds, PollSeesPrimary,
         UpdateOwnRow, UpdateOtherRows, SetPending, AdminPromotes, PollGivesUp, Replicate,
         VrrpChanges, AdminRelabels, StartPromotion, At, OriginalInv, TypeOK
<1> QED
  BY <1>1, <1>2, <1>3, <1>5, <1>6, <1>7 DEF Next, Watcher

\* Nothing but replication writes to the table of a standby.
LEMMA CopiesStay ==
  ASSUME IInv, FollowersInv, [Next]_vars, NEW k \in Nodes
  PROVE  CopyInv(k)'
<1> USE DEF databaseVars, apiVars, hostVars, worldVars
<1>0. TypeOK /\ OriginalInv /\ CopyInv(k) /\ CopyInv(Original) /\ EnvFollows(k)
  BY OriginalIsNode DEF FollowersInv, IInv
<1> SUFFICES ASSUME ~relabelled', recovery'[k]
             PROVE  Primaries(k)' = {Original}
  BY DEF CopyInv
<1>1. ASSUME rows'[k] = rows[k], recovery[k], ~relabelled PROVE Primaries(k)' = {Original}
  BY <1>0, <1>1, SameNames DEF CopyInv
<1>2. UNCHANGED vars => Primaries(k)' = {Original}
  BY <1>1 DEF vars
<1>3. ASSUME NEW link, LinkFails(link) \/ LinkHeals(link) PROVE Primaries(k)' = {Original}
  BY <1>1, <1>3 DEF LinkFails, LinkHeals
<1>4. ASSUME NEW n \in Nodes, ApiRestarts(n) \/ HostComesUp(n) \/ WatcherRestarts(n)
      PROVE  Primaries(k)' = {Original}
  <2>1. recovery[k] /\ ~relabelled
    BY <1>4 DEF ApiRestarts, HostComesUp, WatcherRestarts
  <2>2. \/ UNCHANGED rows
        \/ \E r \in {role[n], env[n]} : StartApi(n, r)
    BY <1>4 DEF ApiRestarts, HostComesUp, WatcherRestarts
  <2>3. {role[n], env[n]} \subseteq {"primary", "standby"}
    BY <1>0 DEF TypeOK
  <2>4. rows'[k] = rows[k]
    BY <1>0, <2>1, <2>2, <2>3, StartsInStandbyTables
  <2> QED
    BY <1>1, <2>1, <2>4
<1>5. ASSUME NEW n \in Nodes, NEW master \in BOOLEAN, VrrpChanges(n, master)
      PROVE  Primaries(k)' = {Original}
  <2> DEFINE update == [row \in Row |-> [row EXCEPT !.master = master]]
  <2>1. update \in [Row -> Row] /\ RecordOwn(n, role[n] = "primary", update)
    BY <1>5 DEF VrrpChanges, Row
  <2>2. (role[n] = "primary") \in BOOLEAN
    OBVIOUS
  <2>3. role[n] = "primary" => ~recovery[n]
    BY DEF IInv, EnvFollows
  <2> HIDE DEF update
  <2>4. recovery[k] /\ ~relabelled
    BY <1>5 DEF VrrpChanges
  <2>5. rows'[k] = rows[k]
    BY <1>0, <2>1, <2>2, <2>3, <2>4, StandbyTablesKept
  <2> QED
    BY <1>1, <2>4, <2>5
<1>6. ASSUME NEW n \in Nodes, Replicate(n) PROVE Primaries(k)' = {Original}
  <2>1. recovery[k] /\ ~relabelled
    BY <1>6 DEF Replicate
  <2>2. CASE k # n
    <3>1. rows'[k] = rows[k]
      BY <1>0, <1>6, <2>2 DEF Replicate, TypeOK
    <3> QED
      BY <1>1, <2>1, <3>1
  <2>3. CASE k = n
    <3>1. rows'[k] = rows[Original]
      BY <1>0, <1>6, <2>3 DEF Replicate, TypeOK
    <3>2. Primaries(Original) = {Original}
      BY <1>0, <2>1, NamesMe, OriginalIsNode DEF OwnTableNamesMe, ActsAsPrimary, OriginalInv
    <3> QED
      BY <3>1, <3>2 DEF Primaries
  <2> QED
    BY <2>2, <2>3
<1>7. ASSUME NEW n \in Nodes, UpdateOwnRow(n) \/ UpdateOtherRows(n) PROVE Primaries(k)' = {Original}
  <2>1. recovery[k] /\ ~relabelled /\ ~recovery[n]
    BY <1>7 DEF UpdateOwnRow, UpdateOtherRows, At, IInv, EnvFollows
  <2>2. rows'[k] = rows[k]
    BY <1>0, <1>7, <2>1 DEF UpdateOwnRow, UpdateOtherRows, SetHaRole, TypeOK
  <2> QED
    BY <1>1, <2>1, <2>2
<1>8. ASSUME NEW n \in Nodes, RecoveryEnds(n) PROVE Primaries(k)' = {Original}
  <2>1. recovery[k]
    BY <1>0, <1>8 DEF RecoveryEnds, TypeOK
  <2> QED
    BY <1>1, <1>8, <2>1 DEF RecoveryEnds
<1>9. ASSUME NEW n \in Nodes,
             \/ Heartbeat(n) \/ PollSeesPrimary(n) \/ SetPending(n) \/ AdminPromotes(n)
             \/ PollGivesUp(n) \/ HostGoesDown(n)
             \/ WatcherFlips(n) \/ WatcherCompletes(n) \/ WatcherStops(n)
      PROVE  Primaries(k)' = {Original}
  BY <1>1, <1>9
     DEF Heartbeat, NotACandidate, AutoPromote, ProbePeers, PollSeesPrimary, SetPending,
         AdminPromotes, PollGivesUp, HostGoesDown, WatcherFlips, WatcherCompletes, WatcherStops
<1>10. ASSUME NEW n \in Nodes, NEW m \in Nodes, NEW r \in Relabels, AdminRelabels(n, m, r)
       PROVE  FALSE
  BY <1>10 DEF AdminRelabels
<1> QED
  BY <1>2, <1>3, <1>4, <1>5, <1>6, <1>7, <1>8, <1>9, <1>10 DEF Next, Promotion, Watcher

\* With three nodes, a vote of one of them for the primary decides, and so does what
\* the standby sees when the other is silent.
LEMMA OneVoteDecides ==
  ASSUME IInv, FollowersInv, ~relabelled, IsFiniteSet(Nodes), Cardinality(Nodes) <= 3,
         NEW n \in Nodes, recovery[n], NEW m \in Nodes \ {n}, Reaches(n, m), ActsAsPrimary(m)
  PROVE  ~PrimaryLooksDown(n)
<1>0. TypeOK /\ OriginalInv /\ Original \in Nodes /\ n # Original
  BY OriginalIsNode DEF FollowersInv, IInv, OriginalInv
<1>1. Primaries(n) = {Original} /\ Primaries(m) = {m}
  BY <1>0, NamesMe DEF FollowersInv, CopyInv, OwnTableNamesMe
<1> SUFFICES ASSUME NEW votes \in Votes(n, Original)
             PROVE  ReachableByQuorum(n, Original, votes)
  BY <1>1 DEF PrimaryLooksDown
<1> DEFINE responded == {k \in Nodes \ {n, Original} : votes[k] # "none"}
           down == {k \in responded : votes[k] = "unreachable"}
           unreachable == down \cup (IF Reaches(n, Original) THEN {} ELSE {n})
<1>2. ASSUME NEW j \in Nodes \ {n, Original}, NEW k \in Nodes \ {n, Original} PROVE j = k
  <2> SUFFICES ASSUME j # k PROVE FALSE
    OBVIOUS
  <2> DEFINE two == {n} \cup {Original}
             three == two \cup {j}
             four == three \cup {k}
  <2>1. Original \notin {n} /\ j \notin two /\ k \notin three
    BY <1>0, <1>2
  <2>2. IsFiniteSet({n}) /\ Cardinality({n}) = 1
    BY FS_Singleton
  <2>3. IsFiniteSet(two) /\ Cardinality(two) = Cardinality({n}) + 1
    BY <2>1, <2>2, FS_AddElement
  <2> HIDE DEF two
  <2>4. IsFiniteSet(three) /\ Cardinality(three) = Cardinality(two) + 1
    BY <2>1, <2>3, FS_AddElement
  <2> HIDE DEF three
  <2>5. Cardinality(four) = Cardinality(three) + 1
    BY <2>1, <2>4, FS_AddElement
  <2>6. four \subseteq Nodes
    BY <1>0 DEF two, three
  <2> HIDE DEF four
  <2>7. Cardinality(four) <= Cardinality(Nodes)
    BY <2>6, FS_Subset
  <2>8. Cardinality(Nodes) \in Nat
    BY FS_CardinalityType
  <2> QED
    BY <2>2, <2>3, <2>4, <2>5, <2>7, <2>8
<1>3. CASE responded = {}
  <2>1. m = Original
    <3> SUFFICES ASSUME m # Original PROVE FALSE
      OBVIOUS
    <3>1. votes[m] \in Answers(n, m)
      BY DEF Votes
    <3>2. Reaches(m, m)
      BY <1>0 DEF Reaches, OriginalInv
    <3>3. Answers(n, m) = {"reachable"}
      BY <1>1, <3>2 DEF Answers
    <3> QED
      BY <1>3, <3>1, <3>3
  <2> QED
    BY <1>3, <2>1 DEF ReachableByQuorum
<1>4. CASE responded # {}
  <2>1. PICK k \in responded : TRUE
    BY <1>4
  <2>2. responded = {k}
    BY <1>2, <2>1
  <2>3. Cardinality(responded) = 1
    BY <2>2, FS_Singleton
  <2>0. \A s : (s = {} \/ s = {n} \/ s = {k}) => Cardinality(s) <= 1
    <3>1. Cardinality({}) = 0 /\ Cardinality({n}) = 1 /\ Cardinality({k}) = 1
      BY FS_EmptySet, FS_Singleton
    <3> QED
      BY <3>1
  <2>4. Cardinality(unreachable) <= 1
    <3>1. CASE m = Original
      <4>1. unreachable = {} \/ unreachable = {k}
        BY <2>2, <3>1
      <4> QED
        BY <4>1, <2>0
    <3>2. CASE m # Original
      <4>1. m = k
        BY <1>2, <2>1, <3>2
      <4>2. votes[m] \in Answers(n, m)
        BY <3>2 DEF Votes
      <4>3. Reaches(m, m)
        BY <1>0 DEF Reaches, OriginalInv
      <4>4. votes[m] = "reachable"
        BY <1>1, <4>2, <4>3 DEF Answers
      <4>5. unreachable = {} \/ unreachable = {n}
        BY <2>2, <4>1, <4>4
      <4> QED
        BY <4>5, <2>0
    <3> QED
      BY <3>1, <3>2
  <2>5. ReachableByQuorum(n, Original, votes)
        <=> 2 * Cardinality(unreachable) <= Cardinality(responded) + 1
    BY <1>4 DEF ReachableByQuorum
  <2>6. IsFiniteSet(unreachable)
    <3>1. unreachable \subseteq Nodes
      OBVIOUS
    <3> QED
      BY <3>1, FS_Subset
  <2>7. Cardinality(unreachable) \in Nat
    BY <2>6, FS_CardinalityType
  <2> HIDE DEF unreachable, responded
  <2> QED
    BY <2>3, <2>4, <2>5, <2>7
<1> QED
  BY <1>3, <1>4

\* Only the countdown takes promoteThisNode to its polls without an admin.
LEMMA CountdownPromotes ==
  ASSUME TypeOK, [Next]_vars, NEW n \in Nodes, PromotesItself(n)
  PROVE  recovery[n] /\ PrimaryLooksDown(n)
<1> USE DEF databaseVars, apiVars, hostVars, worldVars, PromotesItself
<1>1. UNCHANGED pc => FALSE
  OBVIOUS
<1>2. ~Fault
  BY DEF Fault, TypeOK
<1>3. ASSUME NEW k \in Nodes, NEW r, StartApi(k, r) PROVE FALSE
  BY <1>3 DEF StartApi, TypeOK
<1>4. ASSUME NEW k \in Nodes, AutoPromote(k) PROVE recovery[n] /\ PrimaryLooksDown(n)
  BY <1>4 DEF AutoPromote, StartPromotion, TypeOK
<1>5. ASSUME NEW k \in Nodes, NEW step \in Steps, NEW next \in Steps \ {"polling"}, At(k, step, next)
      PROVE  FALSE
  BY <1>5 DEF At, TypeOK
<1>6. ASSUME NEW k \in Nodes, \/ PollSeesPrimary(k) \/ UpdateOwnRow(k) \/ UpdateOtherRows(k)
                              \/ SetPending(k)
      PROVE  FALSE
  BY <1>5, <1>6 DEF PollSeesPrimary, UpdateOwnRow, UpdateOtherRows, SetPending, Steps
<1>7. ASSUME NEW k \in Nodes, HostComesUp(k) \/ WatcherRestarts(k) PROVE FALSE
  BY <1>1, <1>3, <1>7 DEF HostComesUp, WatcherRestarts
<1>8. ASSUME NEW k \in Nodes,
             \/ NotACandidate(k) \/ ProbePeers(k) \/ RecoveryEnds(k) \/ WatcherFlips(k)
             \/ WatcherCompletes(k) \/ Replicate(k)
             \/ \E master \in BOOLEAN : VrrpChanges(k, master)
      PROVE  FALSE
  BY <1>1, <1>8 DEF NotACandidate, ProbePeers, RecoveryEnds, WatcherFlips, WatcherCompletes,
                    Replicate, VrrpChanges
<1>9. ASSUME NEW k \in Nodes,
             \/ AdminPromotes(k) \/ PollGivesUp(k) \/ WatcherStops(k) \/ ApiRestarts(k)
             \/ HostGoesDown(k)
             \/ \E m \in Nodes, r \in Relabels : AdminRelabels(k, m, r)
      PROVE  FALSE
  BY <1>2, <1>9 DEF AdminPromotes, PollGivesUp, WatcherStops, ApiRestarts, HostGoesDown, AdminRelabels
<1>10. ASSUME NEW link, LinkFails(link) \/ LinkHeals(link) PROVE FALSE
  BY <1>1, <1>10 DEF LinkFails, LinkHeals
<1>11. UNCHANGED vars => FALSE
  BY <1>1 DEF vars
<1> QED
  BY <1>4, <1>6, <1>7, <1>8, <1>9, <1>10, <1>11 DEF Next, Heartbeat, Promotion, Watcher

\* Between nodes that can talk to each other no countdown makes a second primary
\* (maybeAutoPromote, isPrimaryReachableByQuorum), in a cluster of up to three: with
\* more, peers that see the primary less well than this node may outvote it.
THEOREM NoneIsPromotedTwice ==
  ASSUME IsFiniteSet(Nodes), Cardinality(Nodes) <= 3
  PROVE  Spec => NoSecondPromotion
<1>1. Spec => []FollowersInv
  <2>1. Init => IInv /\ FollowersInv
    BY InitEstablishes, FollowersAtFirst
  <2>2. IInv /\ FollowersInv /\ [Next]_vars => IInv' /\ FollowersInv'
    BY Inductive, OriginalStays, CopiesStay DEF FollowersInv
  <2> QED
    BY <2>1, <2>2, PTL DEF Spec
<1>2. IInv /\ FollowersInv /\ [Next]_vars =>
        [\A n \in Nodes : PromotesItself(n) =>
           relabelled \/ ~\E m \in Nodes \ {n} : Reaches(n, m) /\ ActsAsPrimary(m)]_vars
  BY CountdownPromotes, OneVoteDecides DEF IInv
<1> QED
  BY <1>1, <1>2, Invariance, PTL DEF Spec, NoSecondPromotion

-----------------------------------------------------------------------------
(* IPAM tells the reservations and keeps what admins typed, for any number *)
(* of addresses, reservations, requests and runs of the lease job.         *)
(*                                                                         *)
(* ReservedTellsReservation speaks of reservations whose handler is done.  *)
(* What makes it true is an agreement of rows, handlers and runs at every  *)
(* step before that: a handler about to write still knows the row, one     *)
(* about to delete has cleaned it up, and what a run has still to write to *)
(* is not reserved - or the address is among the blurred ones.             *)


\* A row has an id of its own, is linked to the reservation of its address if that was
\* not moved, and an admin who typed in it has claimed it.
RowInv(h) ==
  /\ address[h] # NoAddress => address[h].id # NoId /\ address[h].status # "none"
  /\ \A g \in Hosts : address[h] # NoAddress /\ address[g].id = address[h].id => g = h
  /\ address[h].link # NoReservation => booked[address[h].link] = h \/ h \in blurred
  /\ address[h].typed => ~address[h].managed

\* What handler t has in hand.
ClerkInv(t) ==
  /\ clerk[t].step = "idle" => clerk[t] = AtRest
  /\ clerk[t].step \in {"save", "lookUp", "write", "remove", "delete"} =>
       clerk[t].id # NoReservation
  /\ clerk[t].id # NoReservation /\ clerk[t].step \notin {"remove", "delete"} =>
       /\ clerk[t].host \in Hosts
       /\ clerk[t].id \in Booked => booked[clerk[t].id] = clerk[t].host \/ clerk[t].host \in blurred
  /\ clerk[t].step = "write" /\ clerk[t].id \in Booked /\ clerk[t].host \notin blurred =>
       clerk[t].found \in {NoId, address[clerk[t].host].id}
  /\ clerk[t].step = "delete" => \A h \in Hosts \ blurred : address[h].link # clerk[t].id

\* What run l has still to write to: rows of the addresses it thinks of, and none that
\* is reserved, or typed in where it is to be deleted.
RunInv(l) ==
  /\ leaseRun[l].step \in {"match", "insert", "update"} => leaseRun[l].host \in Hosts
  /\ leaseRun[l].step = "update" => leaseRun[l].found # NoId
  /\ \A h \in Hosts : address[h] # NoAddress =>
       /\ address[h].id = leaseRun[l].found => leaseRun[l].host = h
       /\ \A s \in leaseRun[l].stale : address[h].id = s.id =>
            s.host = h /\ (h \notin blurred /\ s.managed => ~address[h].typed)
       /\ h \notin blurred /\ Overtakes(l, h) => address[h].status # "reserved"

DhcpInv ==
  /\ DhcpTypeOK
  /\ \A h \in Hosts : RowInv(h)
  /\ \A t \in Clerks \cup Pushes : ClerkInv(t)
  /\ \A t \in Pushes : clerk[t].id = NoReservation
  /\ \A l \in LeaseRuns : RunInv(l)
  /\ ReservedTellsReservation

-----------------------------------------------------------------------------
(* What a step leaves alone.                                               *)

LEMMA RowsStand ==
  ASSUME DhcpInv, UNCHANGED <<booked, address>>, blurred \subseteq blurred'
  PROVE  \A h \in Hosts : RowInv(h)'
BY SMT DEF DhcpInv, RowInv

LEMMA ClerkStands ==
  ASSUME DhcpInv, NEW t \in Clerks \cup Pushes, UNCHANGED <<booked, address>>,
         clerk'[t] = clerk[t], blurred \subseteq blurred'
  PROVE  ClerkInv(t)'
BY SMT DEF DhcpInv, ClerkInv, Booked

LEMMA RunStands ==
  ASSUME DhcpInv, NEW l \in LeaseRuns, UNCHANGED address,
         leaseRun'[l] = leaseRun[l], blurred \subseteq blurred'
  PROVE  RunInv(l)'
BY SMT DEF DhcpInv, RunInv, Overtakes

LEMMA TellingStands ==
  ASSUME DhcpInv, UNCHANGED <<booked, address>>, blurred \subseteq blurred',
         \A r \in Settled' \ Settled : booked[r] \in blurred'
  PROVE  ReservedTellsReservation'
<1>1. Settled' \subseteq Booked /\ Booked' = Booked
  BY DEF Settled, Booked
<1>2. ReservedTellsReservation
  BY DEF DhcpInv
<1>3. QED
  BY <1>1, <1>2 DEF ReservedTellsReservation

\* Whom handlers work on, and where.
LEMMA SameSettled ==
  ASSUME UNCHANGED <<booked, clerk>>
  PROVE  Settled' = Settled
BY DEF Settled, WorksOn, AtStake, Booked

LEMMA WorksElsewhere ==
  ASSUME NEW t, NEW r, clerk'[t] = clerk[t], booked'[r] = booked[r]
  PROVE  WorksOn(t, r)' <=> WorksOn(t, r)
BY DEF WorksOn, AtStake

LEMMA StakeIsHost ==
  ASSUME DhcpInv, NEW t \in Clerks \cup Pushes
  PROVE  AtStake(t) \subseteq Hosts
<1>1. clerk[t].host \in Hosts \cup {NoHost} /\ ClerkInv(t) /\ clerk[t] \in Clerk
  BY DEF DhcpInv, DhcpTypeOK, Clerk
<1>2. clerk[t].step \in {"remove", "delete"} => booked[clerk[t].id] \in Hosts \cup {NoHost}
  BY <1>1 DEF ClerkInv, Clerk, DhcpInv, DhcpTypeOK
<1>3. QED
  BY <1>1, <1>2 DEF AtStake

-----------------------------------------------------------------------------
(* Steps of a handler or a push that write to no row.                      *)

\* What such a step has to show of the one it changes.
LEMMA ClerkMoves ==
  ASSUME DhcpInv, NEW t \in Clerks \cup Pushes, NEW record \in Clerk,
         UNCHANGED <<booked, address, leaseRun, leases>>,
         clerk' = [clerk EXCEPT ![t] = record],
         blurred \subseteq blurred', blurred' \subseteq Hosts,
         ipamSubnet' \in RowIds \cup {NoId},
         scope' \in {"active", "inactive", "deleted"},
         scope' = "deleted" => Booked = {},
         applied' \in [up : BOOLEAN, ids : SUBSET Reservations],
         happened' \in 0 .. MaxHappened,
         t \in Pushes => record.id = NoReservation,
         ClerkInv(t)',
         \A r \in Booked : WorksOn(t, r) => WorksOn(t, r)' \/ booked[r] \in blurred'
  PROVE  DhcpInv'
<1>1. /\ \A c \in Clerks \cup Pushes : c # t => clerk'[c] = clerk[c]
      /\ clerk'[t] = record
  BY DEF DhcpInv, DhcpTypeOK
<1>2. DhcpTypeOK'
  <2>1. clerk' \in [Clerks \cup Pushes -> Clerk]
    BY DEF DhcpInv, DhcpTypeOK
  <2>2. QED
    BY <2>1 DEF DhcpInv, DhcpTypeOK, Booked
<1>3. \A h \in Hosts : RowInv(h)'
  BY RowsStand
<1>4. \A c \in Clerks \cup Pushes : ClerkInv(c)'
  BY <1>1, ClerkStands
<1>5. \A c \in Pushes : clerk'[c].id = NoReservation
  BY <1>1 DEF DhcpInv
<1>6. \A l \in LeaseRuns : RunInv(l)'
  BY RunStands
<1>7. \A r \in Settled' \ Settled : booked[r] \in blurred'
  <2>1. TAKE r \in Settled' \ Settled
  <2>2. r \in Booked /\ booked'[r] = booked[r]
    BY DEF Settled, Booked
  <2>3. PICK c \in Clerks : WorksOn(c, r) /\ ~WorksOn(c, r)'
    BY <2>2 DEF Settled
  <2>4. c = t
    BY <1>1, <2>2, <2>3, WorksElsewhere
  <2>5. QED
    BY <2>2, <2>3, <2>4
<1>8. ReservedTellsReservation'
  BY <1>7, TellingStands
<1>9. QED
  BY <1>2, <1>3, <1>4, <1>5, <1>6, <1>8 DEF DhcpInv

\* A push that is on behalf of no reservation, at its first step.
LEMMA ThenPushMoves ==
  ASSUME DhcpInv, NEW t \in Clerks \cup Pushes, NEW covers \in BOOLEAN,
         ThenPush(t, NoReservation, NoHost, covers),
         UNCHANGED <<booked, ipamSubnet, address, leases, leaseRun, blurred, applied>>,
         happened' \in 0 .. MaxHappened, scope' \in {"active", "inactive", "deleted"},
         scope' = "deleted" => Booked = {},
         \A r \in Booked : ~WorksOn(t, r)
  PROVE  DhcpInv'
<1> DEFINE record == [AtRest EXCEPT !.step = "scope", !.id = NoReservation, !.host = NoHost,
                                    !.covers = covers]
<1>1. record.step = "scope" /\ record.id = NoReservation
  BY DEF AtRest
<1>2. record \in Clerk
  BY DEF AtRest, Clerk
<1>3. clerk' = [clerk EXCEPT ![t] = record] /\ clerk'[t] = record
  BY DEF ThenPush, SetClerk, DhcpInv, DhcpTypeOK
<1> HIDE DEF record
<1>4. ClerkInv(t)'
  BY <1>1, <1>3 DEF ClerkInv
<1>5. QED
  BY <1>1, <1>2, <1>3, <1>4, ClerkMoves DEF DhcpInv, DhcpTypeOK

\* Such a push, of the handler it is and of the others.
LEMMA PushTurns ==
  ASSUME DhcpInv, NEW t \in Clerks \cup Pushes, NEW covers \in BOOLEAN,
         ThenPush(t, NoReservation, NoHost, covers)
  PROVE  /\ clerk' \in [Clerks \cup Pushes -> Clerk]
         /\ \A c \in Clerks \cup Pushes :
              \/ clerk'[c] = clerk[c]
              \/ c = t /\ clerk'[c].step = "scope" /\ clerk'[c].id = NoReservation
<1> DEFINE record == [AtRest EXCEPT !.step = "scope", !.id = NoReservation, !.host = NoHost,
                                    !.covers = covers]
<1>1. record \in Clerk /\ record.step = "scope" /\ record.id = NoReservation
  BY DEF AtRest, Clerk
<1>2. clerk' = [clerk EXCEPT ![t] = record]
  BY DEF ThenPush, SetClerk
<1> HIDE DEF record
<1>3. QED
  BY <1>1, <1>2 DEF DhcpInv, DhcpTypeOK

LEMMA AtRestRests ==
  /\ AtRest \in Clerk
  /\ AtRest.id = NoReservation /\ AtRest.host = NoHost /\ AtRest.step = "idle"
BY DEF AtRest, Clerk

LEMMA HappenedCounts ==
  ASSUME DhcpInv, Happening
  PROVE  happened' \in 0 .. MaxHappened
BY HappenedIsNat DEF Happening, DhcpInv, DhcpTypeOK

\* A request that rests, or is about to save, works on nothing.
LEMMA Idle ==
  ASSUME DhcpInv, NEW t \in Clerks \cup Pushes, clerk[t] = AtRest \/ clerk[t].step = "save"
  PROVE  \A r \in Booked : ~WorksOn(t, r)
BY AtRestRests, NoReservationIsNone DEF WorksOn, AtStake, Booked

\* The SELECT of a request.
LEMMA RequestKeepsInv ==
  ASSUME DhcpInv, NEW a \in Clerks, NEW r \in Reservations,
         UpdateReservation(a, r) \/ DeleteReservation(a, r)
  PROVE  DhcpInv'
<1>1. happened' \in 0 .. MaxHappened
  BY HappenedCounts DEF UpdateReservation, DeleteReservation
<1>2. \A q \in Booked : ~WorksOn(a, q)
  BY Idle DEF UpdateReservation, DeleteReservation
<1>3. r \in Booked /\ booked[r] \in Hosts /\ r # NoReservation
  BY NoReservationIsNone DEF UpdateReservation, DeleteReservation, Booked, DhcpInv, DhcpTypeOK
<1>4. PICK record \in Clerk :
        /\ record.id = r /\ clerk' = [clerk EXCEPT ![a] = record]
        /\ \/ record.step = "save" /\ record.host = booked[r]
           \/ record.step = "remove"
  <2>1. CASE UpdateReservation(a, r)
    <3> DEFINE record == [AtRest EXCEPT !.step = "save", !.id = r, !.host = booked[r]]
    <3>1. record \in Clerk /\ record.id = r /\ record.step = "save" /\ record.host = booked[r]
      BY <1>3 DEF AtRest, Clerk
    <3>2. clerk' = [clerk EXCEPT ![a] = record]
      BY <2>1 DEF UpdateReservation, SetClerk
    <3>3. QED
      BY <3>1, <3>2
  <2>2. CASE DeleteReservation(a, r)
    <3> DEFINE record == [AtRest EXCEPT !.step = "remove", !.id = r]
    <3>1. record \in Clerk /\ record.id = r /\ record.step = "remove"
      BY DEF AtRest, Clerk
    <3>2. clerk' = [clerk EXCEPT ![a] = record]
      BY <2>2 DEF DeleteReservation, SetClerk
    <3>3. QED
      BY <3>1, <3>2
  <2>3. QED
    BY <2>1, <2>2
<1>5. clerk'[a] = record
  BY <1>4 DEF DhcpInv, DhcpTypeOK
<1>6. UNCHANGED <<scope, booked, ipamSubnet, address, leases, applied, leaseRun, blurred>>
  BY DEF UpdateReservation, DeleteReservation
<1>7. ClerkInv(a)'
  BY <1>3, <1>4, <1>5, <1>6 DEF ClerkInv
<1>8. a \notin Pushes
  BY PushesAreNoRequests
<1>9. QED
  BY <1>1, <1>2, <1>4, <1>6, <1>7, <1>8, ClerkMoves DEF DhcpInv, DhcpTypeOK

\* What a step that changes only the scope, or what covers it, has to show.
LEMMA ScopeMoves ==
  ASSUME DhcpInv, UNCHANGED <<booked, address, leases, applied, clerk, leaseRun, blurred>>,
         happened' \in 0 .. MaxHappened, scope' \in {"active", "inactive", "deleted"},
         scope' = "deleted" => Booked = {}, ipamSubnet' \in RowIds \cup {NoId}
  PROVE  DhcpInv'
<1>1. DhcpTypeOK'
  BY DEF DhcpInv, DhcpTypeOK, Booked
<1>2. ReservedTellsReservation'
  BY TellingStands, SameSettled
<1>3. QED
  BY <1>1, <1>2, RowsStand, ClerkStands, RunStands DEF DhcpInv

LEMMA FreshSubnetIsId ==
  ASSUME SubnetIdsLeft
  PROVE  FreshSubnet \in RowIds
BY DEF SubnetIdsLeft, FreshSubnet

LEMMA SwitchKeepsInv ==
  ASSUME DhcpInv, (\E a \in Clerks : SwitchScope(a)) \/ SwitchScopeInIpam \/ CoverPool
  PROVE  DhcpInv'
<1>1. happened' \in 0 .. MaxHappened
  BY HappenedCounts DEF SwitchScope, SwitchScopeInIpam, CoverPool
<1>2. CASE \E a \in Clerks : SwitchScope(a)
  <2>1. PICK a \in Clerks : SwitchScope(a)
    BY <1>2
  <2>2. \A r \in Booked : ~WorksOn(a, r)
    BY <2>1, Idle DEF SwitchScope
  <2>3. QED
    BY <1>1, <2>1, <2>2, ThenPushMoves DEF SwitchScope, ScopeTurns
<1>3. CASE SwitchScopeInIpam
  BY <1>1, <1>3, ScopeMoves DEF SwitchScopeInIpam, ScopeTurns, DhcpInv, DhcpTypeOK
<1>4. CASE CoverPool
  BY <1>1, <1>4, ScopeMoves, FreshSubnetIsId DEF CoverPool, DhcpInv, DhcpTypeOK
<1>5. QED
  BY <1>2, <1>3, <1>4

\* Steps of one handler that keep what it works on.
LEMMA KeepsWorking ==
  ASSUME NEW t, NEW record, clerk'[t] = record, UNCHANGED booked,
         clerk[t].id # NoReservation =>
           /\ record.id = clerk[t].id
           /\ \/ /\ clerk[t].step \notin {"save", "remove", "delete"} /\ record.host = clerk[t].host
                 /\ record.step \notin {"save", "remove", "delete"}
              \/ clerk[t].step = "remove" /\ record.step = "delete"
  PROVE  \A r \in Booked : WorksOn(t, r) => WorksOn(t, r)'
<1>1. SUFFICES ASSUME NEW r \in Booked, WorksOn(t, r) PROVE WorksOn(t, r)'
  OBVIOUS
<1>2. clerk[t].id = r /\ r # NoReservation
  BY <1>1, NoReservationIsNone DEF WorksOn, Booked
<1>3. AtStake(t)' = AtStake(t)
  BY <1>2 DEF AtStake
<1>4. QED
  BY <1>1, <1>2, <1>3 DEF WorksOn

\* What a handler does next.
LEMMA OnwardMoves ==
  ASSUME DhcpInv, NEW t \in Clerks \cup Pushes,
         clerk[t].step \in {"scope", "reservations", "apply", "findSubnet", "addSubnet"},
         \/ ThenReservation(t) \/ AfterPush(t)
         \/ SetClerk(t, [clerk[t] EXCEPT !.step = "addSubnet"]),
         UNCHANGED <<scope, booked, address, leases, leaseRun, blurred>>,
         ipamSubnet' \in RowIds \cup {NoId},
         applied' \in [up : BOOLEAN, ids : SUBSET Reservations],
         happened' \in 0 .. MaxHappened
  PROVE  DhcpInv'
<1>1. clerk[t] \in Clerk /\ ClerkInv(t) /\ (t \in Pushes => clerk[t].id = NoReservation)
  BY DEF DhcpInv, DhcpTypeOK
<1>2. PICK record \in Clerk :
        /\ clerk' = [clerk EXCEPT ![t] = record]
        /\ record.id = clerk[t].id
        /\ record = AtRest \/ record.step \in {"lookUp", "findSubnet", "addSubnet"}
        /\ clerk[t].id # NoReservation =>
             record.step \in {"lookUp", "findSubnet", "addSubnet"} /\ record.host = clerk[t].host
        /\ record.step = "lookUp" => record.id # NoReservation
  <2>1. CASE ThenReservation(t)
    <3> DEFINE record == [AtRest EXCEPT !.step = "lookUp", !.id = clerk[t].id, !.host = clerk[t].host]
    <3>1. record \in Clerk /\ record.step = "lookUp" /\ record.id = clerk[t].id /\ record.host = clerk[t].host
      BY <1>1 DEF AtRest, Clerk
    <3>2. clerk' = [clerk EXCEPT ![t] = IF clerk[t].id = NoReservation THEN AtRest ELSE record]
      BY <2>1 DEF ThenReservation, SetClerk
    <3> HIDE DEF record
    <3>3. CASE clerk[t].id = NoReservation
      BY <3>2, <3>3, AtRestRests
    <3>4. CASE clerk[t].id # NoReservation
      BY <3>1, <3>2, <3>4
    <3>5. QED
      BY <3>3, <3>4
  <2>2. CASE clerk[t].covers /\ AfterPush(t)
    <3> DEFINE record == [AtRest EXCEPT !.step = "findSubnet", !.id = clerk[t].id,
                                        !.host = clerk[t].host]
    <3>1. /\ record \in Clerk /\ record.step = "findSubnet" /\ record.id = clerk[t].id
          /\ record.host = clerk[t].host
      BY <1>1 DEF AtRest, Clerk
    <3>2. clerk' = [clerk EXCEPT ![t] = record]
      BY <2>2 DEF AfterPush, SetClerk
    <3> HIDE DEF record
    <3>3. QED
      BY <3>1, <3>2
  <2>3. CASE SetClerk(t, [clerk[t] EXCEPT !.step = "addSubnet"])
    <3> DEFINE record == [clerk[t] EXCEPT !.step = "addSubnet"]
    <3>1. /\ record \in Clerk /\ record.step = "addSubnet" /\ record.id = clerk[t].id
          /\ record.host = clerk[t].host
      BY <1>1 DEF Clerk
    <3>2. clerk' = [clerk EXCEPT ![t] = record]
      BY <2>3 DEF SetClerk
    <3> HIDE DEF record
    <3>3. QED
      BY <3>1, <3>2
  <2>4. QED
    BY <2>1, <2>2, <2>3 DEF AfterPush
<1>3. clerk'[t] = record
  BY <1>2 DEF DhcpInv, DhcpTypeOK
<1>4. ClerkInv(t)'
  BY <1>1, <1>2, <1>3, AtRestRests DEF ClerkInv, Booked
<1>5. \A r \in Booked : WorksOn(t, r) => WorksOn(t, r)'
  BY <1>2, <1>3, KeepsWorking
<1>6. QED
  BY <1>1, <1>2, <1>4, <1>5, ClerkMoves DEF DhcpInv, DhcpTypeOK

\* dhcpKeaSync.run, on behalf of a handler or not.
LEMMA PushKeepsInv ==
  ASSUME DhcpInv, NEW t \in Clerks \cup Pushes,
         \/ t \in Pushes /\ StartPush(t)
         \/ ReadScope(t) \/ ReadReservations(t) \/ ApplySubnets(t) \/ PushFails(t)
  PROVE  DhcpInv'
<1>1. happened' \in 0 .. MaxHappened
  BY HappenedCounts
     DEF StartPush, ReadScope, ReadReservations, ApplySubnets, PushFails, DhcpInv, DhcpTypeOK
<1>2. clerk[t] \in Clerk /\ ClerkInv(t) /\ (t \in Pushes => clerk[t].id = NoReservation)
  BY DEF DhcpInv, DhcpTypeOK
<1>3. CASE t \in Pushes /\ StartPush(t)
  <2>1. \A r \in Booked : ~WorksOn(t, r)
    BY <1>3, Idle DEF StartPush
  <2>2. QED
    BY <1>1, <1>3, <2>1, ThenPushMoves DEF StartPush, DhcpInv, DhcpTypeOK
<1>4. CASE ReadScope(t) \/ ReadReservations(t)
  <2>1. PICK record \in Clerk :
          /\ record.step \in {"reservations", "apply"}
          /\ record.id = clerk[t].id /\ record.host = clerk[t].host
          /\ clerk' = [clerk EXCEPT ![t] = record]
    BY <1>2, <1>4 DEF ReadScope, ReadReservations, SetClerk, Clerk, Booked
  <2>2. clerk'[t] = record
    BY <2>1 DEF DhcpInv, DhcpTypeOK
  <2>3. clerk[t].step \in {"scope", "reservations"} /\ UNCHANGED booked
    BY <1>4 DEF ReadScope, ReadReservations
  <2>4. ClerkInv(t)'
    BY <1>2, <1>4, <2>1, <2>2, <2>3 DEF ClerkInv, Booked, ReadScope, ReadReservations
  <2>5. \A r \in Booked : WorksOn(t, r) => WorksOn(t, r)'
    BY <2>1, <2>2, <2>3, KeepsWorking
  <2>6. QED
    BY <1>1, <1>2, <1>4, <2>1, <2>4, <2>5, ClerkMoves
       DEF ReadScope, ReadReservations, DhcpInv, DhcpTypeOK
<1>5. CASE ApplySubnets(t) \/ PushFails(t)
  <2>1. applied' \in [up : BOOLEAN, ids : SUBSET Reservations]
    <3>1. clerk[t].ids \subseteq Reservations
      BY <1>2 DEF Clerk
    <3>2. CASE ApplySubnets(t)
      BY <3>1, <3>2 DEF ApplySubnets, NothingServed
    <3>3. CASE PushFails(t)
      BY <3>3 DEF PushFails, DhcpInv, DhcpTypeOK
    <3>4. QED
      BY <1>5, <3>2, <3>3
  <2>2. QED
    BY <1>1, <1>5, <2>1, OnwardMoves DEF ApplySubnets, PushFails, DhcpInv, DhcpTypeOK
<1>6. QED
  BY <1>3, <1>4, <1>5

\* syncSubnetToIpam.
LEMMA CoverKeepsInv ==
  ASSUME DhcpInv, NEW t \in Clerks \cup Pushes,
         FindSubnet(t) \/ AddSubnet(t) \/ CoverFails(t)
  PROVE  DhcpInv'
<1>1. happened' \in 0 .. MaxHappened
  BY HappenedCounts DEF FindSubnet, AddSubnet, CoverFails, DhcpInv, DhcpTypeOK
<1>2. ipamSubnet' \in RowIds \cup {NoId}
  BY FreshSubnetIsId DEF FindSubnet, AddSubnet, CoverFails, DhcpInv, DhcpTypeOK
<1>3. applied' \in [up : BOOLEAN, ids : SUBSET Reservations]
  BY DEF FindSubnet, AddSubnet, CoverFails, DhcpInv, DhcpTypeOK
<1>4. QED
  BY <1>1, <1>2, <1>3, OnwardMoves DEF FindSubnet, AddSubnet, CoverFails

\* syncReservationToIpam, as far as it writes nothing.
LEMMA LookUpKeepsInv ==
  ASSUME DhcpInv, NEW t \in Clerks \cup Pushes, LookUp(t)
  PROVE  DhcpInv'
<1>1. clerk[t] \in Clerk /\ ClerkInv(t) /\ (t \in Pushes => clerk[t].id = NoReservation)
  BY DEF DhcpInv, DhcpTypeOK
<1>2. clerk[t].host \in Hosts
  BY <1>1 DEF LookUp, ClerkInv
<1>3. address[clerk[t].host].id \in RowIds \cup {NoId}
  BY <1>2 DEF DhcpInv, DhcpTypeOK, AddressRow
<1> DEFINE record == [clerk[t] EXCEPT !.step = "write", !.found = address[clerk[t].host].id]
<1>4. /\ record \in Clerk /\ record.step = "write" /\ record.id = clerk[t].id
      /\ record.host = clerk[t].host /\ record.found = address[clerk[t].host].id
  BY <1>1, <1>3 DEF Clerk
<1>5. clerk' = [clerk EXCEPT ![t] = record] /\ clerk'[t] = record
  BY DEF LookUp, SetClerk, DhcpInv, DhcpTypeOK
<1> HIDE DEF record
<1>6. ClerkInv(t)'
  BY <1>1, <1>2, <1>4, <1>5 DEF ClerkInv, Booked, LookUp
<1>7. \A r \in Booked : WorksOn(t, r) => WorksOn(t, r)'
  BY <1>4, <1>5, KeepsWorking DEF LookUp
<1>8. QED
  BY <1>1, <1>4, <1>5, <1>6, <1>7, ClerkMoves DEF LookUp, DhcpInv, DhcpTypeOK

\* A step of a handler that fails: the address it leaves wrong is blurred.
LEMMA FailureKeepsInv ==
  ASSUME DhcpInv, NEW t \in Clerks, SyncFails(t) \/ RemoveFails(t) \/ DropFails(t)
  PROVE  DhcpInv'
<1>1. clerk[t] \in Clerk /\ ClerkInv(t) /\ t \notin Pushes
  BY PushesAreNoRequests DEF DhcpInv, DhcpTypeOK
<1>2. UNCHANGED <<scope, booked, ipamSubnet, address, leases, applied, leaseRun>>
  BY DEF SyncFails, RemoveFails, DropFails
<1>3. happened' \in 0 .. MaxHappened
  BY HappenedCounts DEF SyncFails, RemoveFails, DropFails
<1>4. /\ AtStake(t) \subseteq Hosts
      /\ blurred' = blurred \cup AtStake(t) /\ blurred' \subseteq Hosts
  <2>1. SyncFails(t) => AtStake(t) = {clerk[t].host}
    BY <1>1, NoHostIsNone DEF SyncFails, AtStake, ClerkInv, NoHost
  <2>2. AtStake(t) \subseteq Hosts
    BY StakeIsHost
  <2>3. QED
    BY <2>1, <2>2 DEF SyncFails, RemoveFails, DropFails, Blur, DhcpInv, DhcpTypeOK
<1>5. \A r \in Booked : WorksOn(t, r) => booked[r] \in blurred'
  BY <1>4 DEF WorksOn
<1>6. CASE SyncFails(t) \/ DropFails(t)
  <2>1. clerk' = [clerk EXCEPT ![t] = AtRest] /\ clerk'[t] = AtRest
    BY <1>6 DEF SyncFails, DropFails, SetClerk, DhcpInv, DhcpTypeOK
  <2>2. ClerkInv(t)'
    BY <2>1, AtRestRests, NoReservationIsNone DEF ClerkInv, Booked
  <2>3. QED
    BY <1>1, <1>2, <1>3, <1>4, <1>5, <2>1, <2>2, ClerkMoves, AtRestRests DEF DhcpInv, DhcpTypeOK
<1>7. CASE RemoveFails(t)
  <2> DEFINE record == [clerk[t] EXCEPT !.step = "delete"]
  <2>1. record \in Clerk /\ record.step = "delete" /\ record.id = clerk[t].id
    BY <1>1 DEF Clerk
  <2>2. clerk' = [clerk EXCEPT ![t] = record] /\ clerk'[t] = record
    BY <1>7 DEF RemoveFails, SetClerk, DhcpInv, DhcpTypeOK
  <2> HIDE DEF record
  <2>3. \A h \in Hosts \ blurred' : address[h].link # clerk[t].id
    <3>1. TAKE h \in Hosts \ blurred'
    <3>2. SUFFICES ASSUME address[h].link = clerk[t].id PROVE FALSE
      OBVIOUS
    <3>3. clerk[t].id # NoReservation /\ h \notin blurred
      BY <1>1, <1>4, <1>7 DEF ClerkInv, RemoveFails
    <3>4. booked[clerk[t].id] = h
      BY <3>2, <3>3 DEF DhcpInv, DhcpTypeOK, RowInv
    <3>5. AtStake(t) = {h}
      BY <1>7, <3>4, NoHostIsNone DEF AtStake, RemoveFails, NoHost
    <3>6. QED
      BY <1>4, <3>5
  <2>4. ClerkInv(t)'
    BY <1>1, <1>2, <1>7, <2>1, <2>2, <2>3 DEF ClerkInv, Booked, RemoveFails
  <2>5. QED
    BY <1>1, <1>2, <1>3, <1>4, <1>5, <2>1, <2>2, <2>4, ClerkMoves DEF DhcpInv, DhcpTypeOK
<1>8. QED
  BY <1>6, <1>7

-----------------------------------------------------------------------------
(* Steps of the lease job that write to no row, and those of the world.    *)

\* What such a step has to show of the run it changes.
LEMMA RunMoves ==
  ASSUME DhcpInv, NEW l \in LeaseRuns, NEW record \in LeaseRun,
         UNCHANGED <<scope, booked, ipamSubnet, address, leases, applied, clerk, blurred>>,
         leaseRun' = [leaseRun EXCEPT ![l] = record],
         happened' \in 0 .. MaxHappened,
         RunInv(l)'
  PROVE  DhcpInv'
<1>1. \A k \in LeaseRuns : k # l => leaseRun'[k] = leaseRun[k]
  BY DEF DhcpInv, DhcpTypeOK
<1>2. DhcpTypeOK'
  BY DEF DhcpInv, DhcpTypeOK, Booked
<1>3. \A k \in LeaseRuns : RunInv(k)'
  BY <1>1, RunStands
<1>4. \A t \in Clerks \cup Pushes : ClerkInv(t)'
  BY ClerkStands
<1>5. ReservedTellsReservation'
  BY TellingStands, SameSettled
<1>6. QED
  BY <1>2, <1>3, <1>4, <1>5, RowsStand DEF DhcpInv

LEMMA NoLeaseRunRests ==
  /\ NoLeaseRun \in LeaseRun
  /\ NoLeaseRun.found = NoId /\ NoLeaseRun.stale = {} /\ NoLeaseRun.step = "idle"
BY DEF NoLeaseRun, LeaseRun

\* A run that thinks of no row.
LEMMA ThoughtlessRun ==
  ASSUME DhcpInv, NEW l \in LeaseRuns, \A h \in Hosts : RowInv(h)',
         leaseRun'[l].found = NoId, leaseRun'[l].stale = {},
         leaseRun'[l].step \notin {"match", "insert", "update"}
  PROVE  RunInv(l)'
BY DEF RunInv, RowInv, Overtakes

LEMMA ReadingRunKeepsInv ==
  ASSUME DhcpInv, NEW l \in LeaseRuns, GetLeases(l) \/ LeaseRunFails(l)
  PROVE  DhcpInv'
<1>1. happened' \in 0 .. MaxHappened
  BY HappenedCounts DEF GetLeases, LeaseRunFails, DhcpInv, DhcpTypeOK
<1>2. PICK record \in LeaseRun :
        /\ record.found = NoId /\ record.stale = {} /\ record.step \notin {"match", "insert", "update"}
        /\ leaseRun' = [leaseRun EXCEPT ![l] = record]
  <2>1. CASE GetLeases(l)
    <3> DEFINE record == [NoLeaseRun EXCEPT !.step = "next", !.seen = leases, !.todo = leases]
    <3>1. leases \subseteq Hosts
      BY DEF DhcpInv, DhcpTypeOK
    <3>2. record \in LeaseRun /\ record.found = NoId /\ record.stale = {} /\ record.step = "next"
      BY <3>1 DEF NoLeaseRun, LeaseRun
    <3>3. leaseRun' = [leaseRun EXCEPT ![l] = record]
      BY <2>1 DEF GetLeases, SetRun
    <3>4. QED
      BY <3>2, <3>3
  <2>2. CASE LeaseRunFails(l)
    BY <2>2, NoLeaseRunRests DEF LeaseRunFails, SetRun
  <2>3. QED
    BY <2>1, <2>2
<1>3. leaseRun'[l] = record
  BY <1>2 DEF DhcpInv, DhcpTypeOK
<1>4. UNCHANGED <<scope, booked, ipamSubnet, address, leases, applied, clerk, blurred>>
  BY DEF GetLeases, LeaseRunFails
<1>5. RunInv(l)'
  BY <1>2, <1>3, <1>4, RowsStand, ThoughtlessRun
<1>6. QED
  BY <1>1, <1>2, <1>4, <1>5, RunMoves

\* What it keeps in mind of a row is not reserved.
LEMMA LookUpLeaseKeepsInv ==
  ASSUME DhcpInv, NEW l \in LeaseRuns, NEW h \in Hosts, LookUpLease(l, h)
  PROVE  DhcpInv'
<1> DEFINE old == leaseRun[l]
           new == leaseRun'[l]
<1>1. old \in LeaseRun /\ RunInv(l) /\ \A g \in Hosts : RowInv(g)
  BY DEF DhcpInv, DhcpTypeOK
<1>2. address[h].id \in RowIds \cup {NoId}
  BY DEF DhcpInv, DhcpTypeOK, AddressRow
<1>3. PICK record \in LeaseRun :
        /\ leaseRun' = [leaseRun EXCEPT ![l] = record]
        /\ record.stale = old.stale
        /\ \/ address[h].status = "reserved" /\ record.step = "next"
                /\ record.host = old.host /\ record.found = old.found
           \/ /\ address[h].status # "reserved" /\ record.host = h
              /\ record.found = address[h].id
              /\ record.step = IF address[h] = NoAddress THEN "match" ELSE "update"
  <2> DEFINE next == [old EXCEPT !.todo = @ \ {h}]
             step == IF address[h] = NoAddress THEN "match" ELSE "update"
             taken == [old EXCEPT !.todo = @ \ {h}, !.host = h, !.found = address[h].id,
                                  !.step = step]
  <2>1. /\ next \in LeaseRun /\ next.stale = old.stale /\ next.step = old.step
        /\ next.host = old.host /\ next.found = old.found
    BY <1>1 DEF LeaseRun
  <2>2. /\ taken \in LeaseRun /\ taken.stale = old.stale /\ taken.step = step
        /\ taken.host = h /\ taken.found = address[h].id
    <3>1. step \in {"match", "insert", "update"}
      OBVIOUS
    <3> HIDE DEF step
    <3>2. QED
      BY <1>1, <1>2, <3>1 DEF LeaseRun
  <2>3. old.step = "next"
    BY DEF LookUpLease
  <2>4. CASE address[h].status = "reserved"
    <3>1. leaseRun' = [leaseRun EXCEPT ![l] = next]
      BY <2>4 DEF LookUpLease, SetRun
    <3>2. QED
      BY <2>1, <2>3, <2>4, <3>1
  <2>5. CASE address[h].status # "reserved"
    <3>1. leaseRun' = [leaseRun EXCEPT ![l] = taken]
      BY <2>5 DEF LookUpLease, Consider, SetRun
    <3>2. QED
      BY <2>2, <2>5, <3>1
  <2>6. QED
    BY <2>4, <2>5
<1>4. new = record
  BY <1>3 DEF DhcpInv, DhcpTypeOK
<1>5. UNCHANGED <<scope, booked, ipamSubnet, address, leases, applied, clerk, blurred, happened>>
  BY DEF LookUpLease
<1>6. RunInv(l)'
  <2>1. CASE address[h].status = "reserved" /\ record.step = "next"
               /\ record.host = old.host /\ record.found = old.found
    BY <1>1, <1>3, <1>4, <1>5, <2>1 DEF RunInv, Overtakes
  <2>2. CASE /\ address[h].status # "reserved" /\ record.host = h
             /\ record.found = address[h].id
             /\ record.step = IF address[h] = NoAddress THEN "match" ELSE "update"
    <3>1. \A g \in Hosts : address[g] # NoAddress /\ address[g].id = record.found => g = h
      BY <1>1, <2>2 DEF RowInv
    <3>2. record.step = "update" => record.found # NoId
      BY <1>1, <2>2 DEF RowInv
    <3>3. QED
      BY <1>1, <1>3, <1>4, <1>5, <2>2, <3>1, <3>2 DEF RunInv, Overtakes
  <2>3. QED
    BY <1>3, <2>1, <2>2
<1>7. happened' \in 0 .. MaxHappened
  BY <1>5 DEF DhcpInv, DhcpTypeOK
<1>8. QED
  BY <1>3, <1>5, <1>6, <1>7, RunMoves

LEMMA SelectStaleKeepsInv ==
  ASSUME DhcpInv, NEW l \in LeaseRuns, SelectStale(l)
  PROVE  DhcpInv'
<1> DEFINE gone == {h \in Hosts \ leaseRun[l].seen : address[h].status = "leased"}
           picked == {[host |-> h, id |-> address[h].id, managed |-> address[h].managed] :
                        h \in gone}
           record == IF gone = {} THEN NoLeaseRun
                     ELSE [NoLeaseRun EXCEPT !.step = "sweep", !.stale = picked]
<1>1. \A g \in Hosts : RowInv(g) /\ address[g] \in AddressRow
  BY DEF DhcpInv, DhcpTypeOK
<1>2. \A h \in gone : address[h] # NoAddress /\ address[h].id \in RowIds
  <2>1. NoAddress.status = "none"
    BY DEF NoAddress
  <2>2. QED
    BY <1>1, <2>1 DEF RowInv, AddressRow
<1>3. picked \subseteq [host : Hosts, id : RowIds, managed : BOOLEAN]
  BY <1>1, <1>2 DEF AddressRow
<1>4. record \in LeaseRun
  BY <1>3 DEF NoLeaseRun, LeaseRun
<1>5. /\ record.found = NoId /\ record.step \notin {"match", "insert", "update"}
      /\ record.stale \subseteq picked
  BY DEF NoLeaseRun
<1>6. \A s \in picked : \E h \in gone : s.host = h /\ s.id = address[h].id
                                        /\ s.managed = address[h].managed
  OBVIOUS
<1>7. leaseRun' = [leaseRun EXCEPT ![l] = record]
  BY DEF SelectStale, SetRun
<1> HIDE DEF record, picked
<1>8. leaseRun'[l] = record
  BY <1>7 DEF DhcpInv, DhcpTypeOK
<1>9. UNCHANGED <<scope, booked, ipamSubnet, address, leases, applied, clerk, blurred, happened>>
  BY DEF SelectStale
<1>10. RunInv(l)'
  <2>1. \A h \in Hosts, s \in record.stale : address[h] # NoAddress /\ address[h].id = s.id =>
          /\ s.host = h /\ address[h].status = "leased"
          /\ s.managed => ~address[h].typed
    BY <1>1, <1>2, <1>5, <1>6 DEF RowInv
  <2>2. \A h \in Hosts : address[h] # NoAddress => address[h].id # record.found
    BY <1>1, <1>5 DEF RowInv
  <2>3. QED
    BY <1>5, <1>8, <1>9, <2>1, <2>2 DEF RunInv, Overtakes
<1>11. happened' \in 0 .. MaxHappened
  BY <1>9 DEF DhcpInv, DhcpTypeOK
<1>12. QED
  BY <1>4, <1>7, <1>9, <1>10, <1>11, RunMoves

LEMMA WorldKeepsInv ==
  ASSUME DhcpInv, (\E h \in Hosts : LeaseChanges(h)) \/ KeaRestarts
  PROVE  DhcpInv'
<1>1. UNCHANGED <<scope, booked, ipamSubnet, address, clerk, leaseRun, blurred>>
  BY DEF LeaseChanges, KeaRestarts
<1>2. DhcpTypeOK'
  <2>1. happened' \in 0 .. MaxHappened
    BY HappenedCounts DEF LeaseChanges, KeaRestarts
  <2>2. leases' \subseteq Hosts /\ applied' \in [up : BOOLEAN, ids : SUBSET Reservations]
    <3>1. CASE \E h \in Hosts : LeaseChanges(h)
      BY <3>1 DEF LeaseChanges, DhcpInv, DhcpTypeOK
    <3>2. CASE KeaRestarts
      BY <3>2 DEF KeaRestarts, NothingServed, DhcpInv, DhcpTypeOK
    <3>3. QED
      BY <3>1, <3>2
  <2>3. QED
    BY <1>1, <2>1, <2>2 DEF DhcpInv, DhcpTypeOK, Booked
<1>3. ReservedTellsReservation'
  BY <1>1, TellingStands, SameSettled
<1>4. QED
  BY <1>1, <1>2, <1>3, RowsStand, ClerkStands, RunStands DEF DhcpInv

\* The requests under way are forgotten: their addresses are blurred.
LEMMA RestartKeepsInv ==
  ASSUME DhcpInv, BackendRestarts
  PROVE  DhcpInv'
<1>1. /\ UNCHANGED <<scope, booked, ipamSubnet, address, leases, applied>>
      /\ \A t \in Clerks \cup Pushes : clerk'[t] = AtRest
      /\ \A l \in LeaseRuns : leaseRun'[l] = NoLeaseRun
      /\ blurred' = blurred \cup UNION {AtStake(t) : t \in Clerks}
  BY DEF BackendRestarts, Blur
<1>2. UNION {AtStake(t) : t \in Clerks} \subseteq Hosts
  BY StakeIsHost
<1>3. DhcpTypeOK'
  <2>1. happened' \in 0 .. MaxHappened
    BY HappenedCounts DEF BackendRestarts
  <2>2. clerk' \in [Clerks \cup Pushes -> Clerk] /\ leaseRun' \in [LeaseRuns -> LeaseRun]
    BY AtRestRests, NoLeaseRunRests DEF BackendRestarts
  <2>3. QED
    BY <1>1, <1>2, <2>1, <2>2 DEF DhcpInv, DhcpTypeOK, Booked
<1>4. \A h \in Hosts : RowInv(h)'
  BY <1>1, RowsStand
<1>5. \A t \in Clerks \cup Pushes : ClerkInv(t)'
  BY <1>1, AtRestRests, NoReservationIsNone DEF ClerkInv, Booked
<1>6. \A l \in LeaseRuns : RunInv(l)'
  BY <1>1, <1>4, NoLeaseRunRests, ThoughtlessRun
<1>7. \A r \in Settled' \ Settled : booked[r] \in blurred'
  <2>1. TAKE r \in Settled' \ Settled
  <2>2. PICK t \in Clerks : WorksOn(t, r)
    BY <1>1 DEF Settled, Booked
  <2>3. QED
    BY <1>1, <2>2 DEF WorksOn
<1>8. ReservedTellsReservation'
  BY <1>1, <1>7, TellingStands
<1>9. QED
  BY <1>1, <1>3, <1>4, <1>5, <1>6, <1>8, AtRestRests DEF DhcpInv

-----------------------------------------------------------------------------
(* Steps that write to one row.                                            *)

LEMMA FreshRowIsFresh ==
  ASSUME RowIdsLeft
  PROVE  FreshRow \in RowIds /\ FreshRow \notin KnownRows
BY DEF RowIdsLeft, FreshRow

\* Whether a row is there, and its type.
LEMMA RowIsThere ==
  ASSUME DhcpInv, NEW h \in Hosts
  PROVE  /\ address[h] \in AddressRow /\ RowInv(h)
         /\ address[h] # NoAddress <=> address[h].id \in RowIds
         /\ address[h] # NoAddress <=> address[h].status # "none"
<1>1. address[h] \in AddressRow /\ RowInv(h)
  BY DEF DhcpInv, DhcpTypeOK
<1>2. NoAddress.id = NoId /\ NoAddress.status = "none"
  BY DEF NoAddress
<1>3. QED
  BY <1>1, <1>2, NoIdIsNone DEF RowInv, AddressRow

\* The row of h may become record.
Written(h, record) ==
  /\ record \in AddressRow
  /\ record # NoAddress => record.id # NoId /\ record.status # "none"
  /\ record = NoAddress \/ record.id = address[h].id \/ record.id \notin KnownRows
  /\ record.link # NoReservation =>
       record.link \in Booked /\ (booked[record.link] = h \/ h \in blurred)
  /\ record.typed => ~record.managed

LEMMA RowWritten ==
  ASSUME DhcpInv, NEW h \in Hosts, NEW record, Written(h, record),
         address' = [address EXCEPT ![h] = record], UNCHANGED booked,
         blurred \subseteq blurred'
  PROVE  \A g \in Hosts : RowInv(g)'
<1>1. TAKE g \in Hosts
<1>2. /\ address'[h] = record
      /\ \A k \in Hosts : k # h => address'[k] = address[k]
  BY DEF DhcpInv, DhcpTypeOK
<1>3. \A k \in Hosts : RowInv(k) /\ address[k].id \in KnownRows
  BY DEF DhcpInv, KnownRows
<1>4. \A k \in Hosts : k # h /\ record # NoAddress => address[k].id # record.id
  <2>1. TAKE k \in Hosts
  <2>2. SUFFICES ASSUME k # h, record # NoAddress, address[k].id = record.id PROVE FALSE
    OBVIOUS
  <2>3. record.id = address[h].id /\ record.id \in RowIds
    BY <1>3, <2>2 DEF Written, AddressRow
  <2>4. address[h] # NoAddress
    BY <2>3, RowIsThere
  <2>5. QED
    BY <1>3, <2>2, <2>3, <2>4 DEF RowInv
<1>5. CASE g = h
  BY <1>2, <1>3, <1>4, <1>5 DEF RowInv, Written
<1>6. CASE g # h
  <2>1. ASSUME address[g] # NoAddress, NEW k \in Hosts, address'[k].id = address[g].id
        PROVE  k = g
    <3>1. CASE k = h
      <4>1. NoAddress.id = NoId /\ address[g].id # NoId
        BY <1>3, <2>1 DEF NoAddress, RowInv
      <4>2. QED
        BY <1>2, <1>4, <1>6, <2>1, <3>1, <4>1
    <3>2. CASE k # h
      BY <1>2, <1>3, <2>1, <3>2 DEF RowInv
    <3>3. QED
      BY <3>1, <3>2
  <2>2. QED
    BY <1>2, <1>3, <1>6, <2>1 DEF RowInv
<1>7. QED
  BY <1>5, <1>6

\* A run that keeps in mind what it had, or less, does not meet it unprepared.
LEMMA RunSeesRow ==
  ASSUME DhcpInv, NEW h \in Hosts, NEW record, Written(h, record), NEW l \in LeaseRuns,
         address' = [address EXCEPT ![h] = record], blurred \subseteq blurred',
         \A g \in Hosts : RowInv(g)',
         \/ leaseRun'[l].found = NoId
         \/ leaseRun'[l].found = leaseRun[l].found /\ leaseRun'[l].host = leaseRun[l].host,
         leaseRun'[l].stale \subseteq leaseRun[l].stale,
         leaseRun'[l].step \in {"match", "insert", "update"} => leaseRun'[l] = leaseRun[l],
         h \notin blurred' /\ Overtakes(l, h) =>
           /\ record.status = "reserved" => address[h].status = "reserved"
           /\ record.typed => address[h].typed
  PROVE  RunInv(l)'
<1>1. /\ address'[h] = record
      /\ \A k \in Hosts : k # h => address'[k] = address[k]
  BY DEF DhcpInv, DhcpTypeOK
<1>2. RunInv(l)
  BY DEF DhcpInv
<1>3. \A s \in leaseRun[l].stale : s.id \in KnownRows
  BY DEF KnownRows
<1>4. leaseRun[l].found \in KnownRows
  BY DEF KnownRows
<1>5. ASSUME NEW g \in Hosts, address'[g] # NoAddress
      PROVE  /\ address'[g].id = leaseRun'[l].found => leaseRun'[l].host = g
             /\ \A s \in leaseRun'[l].stale : address'[g].id = s.id =>
                  s.host = g /\ (g \notin blurred' /\ s.managed => ~address'[g].typed)
             /\ g \notin blurred' /\ Overtakes(l, g)' => address'[g].status # "reserved"
  <2>1. address'[g].id # NoId
    BY <1>5 DEF RowInv
  <2>2. CASE g # h
    <3>1. Overtakes(l, g)' => Overtakes(l, g)
      BY <1>1, <1>5, <2>1, <2>2 DEF Overtakes
    <3>2. QED
      BY <1>1, <1>2, <1>5, <2>1, <2>2, <3>1 DEF RunInv
  <2>3. CASE g = h /\ record.id = address[h].id
    <3>1. address[h] # NoAddress
      BY <1>1, <2>1, <2>3 DEF NoAddress
    <3>2. Overtakes(l, h)' => Overtakes(l, h)
      BY <1>1, <2>1, <2>3, <3>1 DEF Overtakes
    <3>3. \A s \in leaseRun'[l].stale : record.id = s.id => Overtakes(l, h)
      BY <2>3, <3>1 DEF Overtakes
    <3>4. QED
      BY <1>1, <1>2, <2>1, <2>3, <3>1, <3>2, <3>3 DEF RunInv
  <2>4. CASE g = h /\ record.id \notin KnownRows
    BY <1>1, <1>3, <1>4, <2>1, <2>4 DEF Overtakes
  <2>5. QED
    BY <1>1, <1>5, <2>2, <2>3, <2>4 DEF Written
<1>6. QED
  BY <1>2, <1>5 DEF RunInv

\* Nor does a handler.
LEMMA ClerkSeesRow ==
  ASSUME DhcpInv, NEW h \in Hosts, NEW record, Written(h, record),
         NEW t \in Clerks \cup Pushes,
         address' = [address EXCEPT ![h] = record], UNCHANGED booked,
         blurred \subseteq blurred', clerk'[t] = clerk[t],
         h \notin blurred' => \/ address[h] = NoAddress
                              \/ record.id = address[h].id
                              \/ ~Awaited(h),
         h \notin blurred' /\ clerk[t].step = "delete" =>
           record.link = address[h].link \/ record.link # clerk[t].id
  PROVE  ClerkInv(t)'
<1>1. /\ address'[h] = record
      /\ \A k \in Hosts : k # h => address'[k] = address[k]
  BY DEF DhcpInv, DhcpTypeOK
<1>2. ClerkInv(t) /\ (t \in Pushes => clerk[t].id = NoReservation)
  BY DEF DhcpInv
<1>3. ASSUME clerk[t].step = "write", clerk[t].id \in Booked, clerk[t].host \notin blurred'
      PROVE  clerk[t].found \in {NoId, address'[clerk[t].host].id}
  <2>1. clerk[t].found \in {NoId, address[clerk[t].host].id} /\ clerk[t].host \in Hosts
    BY <1>2, <1>3, NoReservationIsNone DEF ClerkInv, Booked
  <2>2. CASE clerk[t].host # h
    BY <1>1, <2>1, <2>2
  <2>3. CASE clerk[t].host = h
    <3>1. CASE address[h] = NoAddress
      BY <2>1, <2>3, <3>1 DEF NoAddress
    <3>2. CASE record.id = address[h].id
      BY <1>1, <2>1, <2>3, <3>2
    <3>3. CASE ~Awaited(h)
      <4>1. t \in Clerks
        BY <1>2, <1>3, NoReservationIsNone DEF Booked
      <4>2. QED
        BY <1>3, <2>1, <2>3, <3>3, <4>1 DEF Awaited
    <3>4. QED
      BY <1>3, <2>3, <3>1, <3>2, <3>3
  <2>4. QED
    BY <2>2, <2>3
<1>4. ASSUME clerk[t].step = "delete", NEW g \in Hosts \ blurred'
      PROVE  address'[g].link # clerk[t].id
  <2>1. address[g].link # clerk[t].id
    BY <1>2, <1>4 DEF ClerkInv
  <2>2. QED
    BY <1>1, <1>4, <2>1
<1>5. QED
  BY <1>2, <1>3, <1>4 DEF ClerkInv, Booked

\* The runs keep in mind what they had, or less, and meet record prepared.
RunsMeet(h, record) ==
  \A l \in LeaseRuns :
    /\ \/ leaseRun'[l].found = NoId
       \/ leaseRun'[l].found = leaseRun[l].found /\ leaseRun'[l].host = leaseRun[l].host
    /\ leaseRun'[l].stale \subseteq leaseRun[l].stale
    /\ leaseRun'[l].step \in {"match", "insert", "update"} => leaseRun'[l] = leaseRun[l]
    /\ h \notin blurred' /\ Overtakes(l, h) =>
         /\ record.status = "reserved" => address[h].status = "reserved"
         /\ record.typed => address[h].typed

\* What such a step has to show of the row, the run and the handler it changes.
LEMMA RowChanges ==
  ASSUME DhcpInv, NEW h \in Hosts, NEW record, Written(h, record),
         address' = [address EXCEPT ![h] = record],
         UNCHANGED <<scope, booked, ipamSubnet, leases, applied>>, happened' \in 0 .. MaxHappened,
         blurred \subseteq blurred', blurred' \subseteq blurred \cup {h},
         clerk' \in [Clerks \cup Pushes -> Clerk], leaseRun' \in [LeaseRuns -> LeaseRun],
         \A t \in Clerks \cup Pushes : clerk'[t] \in {clerk[t], AtRest},
         RunsMeet(h, record),
         h \notin blurred' => \/ address[h] = NoAddress
                              \/ record.id = address[h].id
                              \/ ~Awaited(h),
         \A t \in Clerks \cup Pushes : h \notin blurred' /\ clerk[t].step = "delete" =>
           record.link = address[h].link \/ record.link # clerk[t].id,
         h \notin blurred' =>
           /\ record.status = "reserved" => record.link \in Booked /\ booked[record.link] = h
           /\ \A r \in Settled' : booked[r] = h =>
                record.status = "reserved" /\ record.link = r,
         \A r \in Settled' \ Settled : booked[r] = h
  PROVE  DhcpInv'
<1>1. /\ address'[h] = record
      /\ \A k \in Hosts : k # h => address'[k] = address[k]
  BY DEF DhcpInv, DhcpTypeOK
<1>2. DhcpTypeOK'
  <2>1. address' \in [Hosts -> AddressRow]
    BY DEF DhcpInv, DhcpTypeOK, Written
  <2>2. \A k \in Hosts : address'[k].link \in Booked \cup {NoReservation}
    BY <1>1 DEF DhcpInv, DhcpTypeOK, Written
  <2>3. Booked' = Booked
    BY DEF Booked
  <2>4. QED
    BY <2>1, <2>2, <2>3 DEF DhcpInv, DhcpTypeOK
<1>3. \A g \in Hosts : RowInv(g)'
  BY RowWritten
<1>4. \A t \in Clerks \cup Pushes : ClerkInv(t)'
  <2>1. TAKE t \in Clerks \cup Pushes
  <2>2. CASE clerk'[t] = clerk[t]
    BY <2>2, ClerkSeesRow
  <2>3. CASE clerk'[t] = AtRest
    BY <2>3, AtRestRests, NoReservationIsNone DEF ClerkInv, Booked
  <2>4. QED
    BY <2>2, <2>3
<1>5. \A l \in LeaseRuns : RunInv(l)'
  BY <1>3, RunSeesRow DEF RunsMeet
<1>6. \A t \in Pushes : clerk'[t].id = NoReservation
  BY AtRestRests DEF DhcpInv
<1>7. ReservedTellsReservation'
  <2>1. ReservedTellsReservation /\ Settled' \subseteq Booked
    BY DEF DhcpInv, Settled, Booked
  <2>2. ASSUME NEW r \in Settled', booked[r] \notin blurred'
        PROVE  address'[booked[r]].status = "reserved" /\ address'[booked[r]].link = r
    <3>1. CASE booked[r] = h
      BY <1>1, <2>2, <3>1
    <3>2. CASE booked[r] # h
      <4>1. r \in Settled /\ booked[r] \in Hosts /\ booked[r] \notin blurred
        BY <2>1, <2>2, <3>2 DEF DhcpInv, DhcpTypeOK, Booked
      <4>2. QED
        BY <1>1, <2>1, <3>2, <4>1 DEF ReservedTellsReservation
    <3>3. QED
      BY <3>1, <3>2
  <2>3. ASSUME NEW g \in Hosts \ blurred', address'[g].status = "reserved"
        PROVE  address'[g].link \in Booked /\ booked[address'[g].link] = g
    BY <1>1, <2>1, <2>3 DEF ReservedTellsReservation
  <2>4. Booked' = Booked
    BY DEF Booked
  <2>5. QED
    BY <2>2, <2>3, <2>4 DEF ReservedTellsReservation
<1>8. QED
  BY <1>2, <1>3, <1>4, <1>5, <1>6, <1>7 DEF DhcpInv

\* A settled reservation of an address with no blur has its row.
LEMMA SettledRow ==
  ASSUME DhcpInv, NEW r \in Settled, booked[r] \notin blurred
  PROVE  /\ booked[r] \in Hosts /\ address[booked[r]].status = "reserved"
         /\ address[booked[r]].link = r /\ address[booked[r]] # NoAddress
<1>1. booked[r] \in Hosts
  BY DEF Settled, Booked, DhcpInv, DhcpTypeOK
<1>2. address[booked[r]].status = "reserved" /\ address[booked[r]].link = r
  BY DEF DhcpInv, ReservedTellsReservation
<1>3. QED
  BY <1>1, <1>2 DEF NoAddress

LEMMA AddAddressKeepsInv ==
  ASSUME DhcpInv, NEW h \in Hosts, NEW placed \in BOOLEAN, AddAddress(h, placed)
  PROVE  DhcpInv'
<1> DEFINE record == [NoAddress EXCEPT !.id = FreshRow, !.status = "static",
                                       !.placed = placed, !.typed = TRUE]
<1>1. FreshRow \in RowIds \ KnownRows
  BY FreshRowIsFresh DEF AddAddress
<1>2. /\ record \in AddressRow /\ record.id = FreshRow /\ record.status = "static"
      /\ record.link = NoReservation /\ ~record.managed
  BY <1>1 DEF NoAddress, AddressRow
<1>3. Written(h, record)
  BY <1>1, <1>2, NoIdIsNone DEF Written
<1>4. address[h] = NoAddress /\ address' = [address EXCEPT ![h] = record]
  BY DEF AddAddress, SetAddress
<1> HIDE DEF record
<1>5. UNCHANGED <<scope, booked, ipamSubnet, leases, applied, clerk, leaseRun, blurred>>
  BY DEF AddAddress
<1>6. happened' \in 0 .. MaxHappened
  BY HappenedCounts DEF AddAddress
<1>7. \A l \in LeaseRuns : ~Overtakes(l, h)
  BY <1>4 DEF Overtakes
<1>8. Settled' = Settled
  BY <1>5, SameSettled
<1>9. clerk' \in [Clerks \cup Pushes -> Clerk] /\ leaseRun' \in [LeaseRuns -> LeaseRun]
  BY <1>5 DEF DhcpInv, DhcpTypeOK
<1>10. h \notin blurred => \A r \in Settled : booked[r] # h
  BY <1>4, SettledRow
<1>11. record.link = address[h].link
  BY <1>2, <1>4 DEF NoAddress
<1>12. QED
  BY <1>2, <1>3, <1>4, <1>5, <1>6, <1>7, <1>8, <1>9, <1>10, <1>11, RowChanges DEF RunsMeet

LEMMA EditAddressKeepsInv ==
  ASSUME DhcpInv, NEW h \in Hosts, EditAddress(h)
  PROVE  DhcpInv'
<1> DEFINE record == [address[h] EXCEPT !.managed = FALSE, !.typed = TRUE]
<1>1. address[h] \in AddressRow /\ RowInv(h) /\ address[h] # NoAddress
  BY RowIsThere DEF EditAddress, NoAddress
<1>2. /\ record \in AddressRow /\ record.id = address[h].id /\ record.status = address[h].status
      /\ record.link = address[h].link /\ ~record.managed
  BY <1>1 DEF AddressRow
<1>3. Written(h, record)
  BY <1>1, <1>2 DEF Written, RowInv, DhcpInv, DhcpTypeOK
<1>4. address' = [address EXCEPT ![h] = record]
  BY DEF EditAddress, SetAddress
<1> HIDE DEF record
<1>5. UNCHANGED <<scope, booked, ipamSubnet, leases, applied, clerk, leaseRun>>
  BY DEF EditAddress
<1>6. happened' \in 0 .. MaxHappened
  BY HappenedCounts DEF EditAddress
<1>7. /\ blurred \subseteq blurred' /\ blurred' \subseteq blurred \cup {h}
      /\ \A l \in LeaseRuns : Overtakes(l, h) => h \in blurred'
  BY DEF EditAddress, Blur
<1>8. Settled' = Settled
  BY <1>5, SameSettled
<1>9. clerk' \in [Clerks \cup Pushes -> Clerk] /\ leaseRun' \in [LeaseRuns -> LeaseRun]
  BY <1>5 DEF DhcpInv, DhcpTypeOK
<1>10. h \notin blurred' => /\ \A r \in Settled : booked[r] = h =>
                                address[h].status = "reserved" /\ address[h].link = r
                            /\ address[h].status = "reserved" =>
                                 /\ address[h].link \in Booked
                                 /\ booked[address[h].link] = h
  BY <1>7 DEF DhcpInv, ReservedTellsReservation
<1>11. h \notin blurred' =>
         /\ record.status = "reserved" => record.link \in Booked /\ booked[record.link] = h
         /\ \A r \in Settled' : booked[r] = h => record.status = "reserved" /\ record.link = r
  BY <1>2, <1>8, <1>10
<1>12. RunsMeet(h, record)
  BY <1>2, <1>5, <1>7 DEF RunsMeet
<1>13. \A t \in Clerks \cup Pushes : clerk'[t] \in {clerk[t], AtRest}
  BY <1>5
<1>14. QED
  BY <1>2, <1>3, <1>4, <1>5, <1>6, <1>7, <1>8, <1>9, <1>11, <1>12, <1>13, RowChanges

LEMMA NoAddressWritten ==
  ASSUME DhcpInv, NEW h \in Hosts
  PROVE  /\ Written(h, NoAddress) /\ NoAddress.link = NoReservation
         /\ NoAddress.status = "none" /\ ~NoAddress.typed
BY DEF Written, NoAddress, AddressRow

LEMMA DeleteAddressKeepsInv ==
  ASSUME DhcpInv, NEW h \in Hosts, DeleteAddress(h)
  PROVE  DhcpInv'
<1>1. address' = [address EXCEPT ![h] = NoAddress]
  BY DEF DeleteAddress, SetAddress
<1>2. UNCHANGED <<scope, booked, ipamSubnet, leases, applied, clerk, leaseRun>>
  BY DEF DeleteAddress
<1>3. happened' \in 0 .. MaxHappened
  BY HappenedCounts DEF DeleteAddress
<1>4. /\ blurred \subseteq blurred' /\ blurred' \subseteq blurred \cup {h}
      /\ Awaited(h) \/ h \in Reserved => h \in blurred'
  BY DEF DeleteAddress, Blur
<1>5. Settled' = Settled
  BY <1>2, SameSettled
<1>6. clerk' \in [Clerks \cup Pushes -> Clerk] /\ leaseRun' \in [LeaseRuns -> LeaseRun]
  BY <1>2 DEF DhcpInv, DhcpTypeOK
<1>7. h \notin blurred' => \A r \in Settled : booked[r] # h
  BY <1>4 DEF Settled, Reserved
<1>8. \A t \in Clerks \cup Pushes : clerk[t].step = "delete" => clerk[t].id # NoReservation
  BY DEF DhcpInv, ClerkInv
<1>9. \A t \in Clerks \cup Pushes : clerk[t].step = "delete" => NoAddress.link # clerk[t].id
  BY <1>8, NoAddressWritten
<1>10. NoAddress.status # "reserved" /\ ~NoAddress.typed /\ Written(h, NoAddress)
  BY NoAddressWritten
<1>11. QED
  BY <1>1, <1>2, <1>3, <1>4, <1>5, <1>6, <1>7, <1>9, <1>10, RowChanges DEF RunsMeet

\* syncReservationToIpam, where it writes.
LEMMA MarkReservedKeepsInv ==
  ASSUME DhcpInv, NEW t \in Clerks \cup Pushes, MarkReserved(t)
  PROVE  DhcpInv'
<1> DEFINE h == clerk[t].host
           r == clerk[t].id
           writes == r \in Booked /\ clerk[t].found \in {NoId, address[h].id}
           row == IF address[h] = NoAddress
                  THEN [NoAddress EXCEPT !.id = FreshRow] ELSE address[h]
           record == ReservedRow(row, r)
<1>1. /\ ClerkInv(t) /\ clerk[t] \in Clerk /\ clerk[t].step = "write"
      /\ t \in Pushes => r = NoReservation
  BY DEF DhcpInv, DhcpTypeOK, MarkReserved
<1>2. h \in Hosts /\ r # NoReservation /\ t \in Clerks
  BY <1>1 DEF ClerkInv
<1>3. clerk' = [clerk EXCEPT ![t] = AtRest]
  BY DEF MarkReserved, SetClerk
<1>4. UNCHANGED <<scope, booked, ipamSubnet, leases, applied, leaseRun, happened>>
  BY DEF MarkReserved
<1>5. AtStake(t) = {h}
  BY <1>1, <1>2, NoHostIsNone DEF AtStake, NoHost
<1>6. CASE ~writes
  <2>1. UNCHANGED <<address, blurred>>
    BY <1>6 DEF MarkReserved
  <2>2. clerk'[t] = AtRest /\ t \notin Pushes
    BY <1>2, <1>3, PushesAreNoRequests DEF DhcpInv, DhcpTypeOK
  <2>3. ClerkInv(t)'
    BY <2>2, AtRestRests, NoReservationIsNone DEF ClerkInv, Booked
  <2>4. \A q \in Booked : WorksOn(t, q) => booked[q] \in blurred'
    BY <1>1, <1>6, <1>5, <2>1 DEF ClerkInv, WorksOn
  <2>5. QED
    BY <1>3, <1>4, <2>1, <2>2, <2>3, <2>4, AtRestRests, ClerkMoves DEF DhcpInv, DhcpTypeOK
<1>7. CASE writes
  <2>1. r \in Booked /\ (booked[r] = h \/ h \in blurred) /\ r \in Reservations
    BY <1>1, <1>7 DEF ClerkInv, Booked
  <2>2. /\ address' = [address EXCEPT ![h] = record]
        /\ address[h] = NoAddress => RowIdsLeft
    BY <1>7 DEF MarkReserved, SetAddress
  <2>3. /\ blurred \subseteq blurred' /\ blurred' \subseteq blurred \cup {h}
        /\ \A l \in LeaseRuns : Overtakes(l, h) => h \in blurred'
        /\ \A c \in Clerks : clerk[c].step = "delete" /\ clerk[c].id = r => h \in blurred'
    BY <1>7 DEF MarkReserved, Blur
  <2>4. /\ row \in AddressRow /\ row.id # NoId
        /\ row.id = address[h].id \/ row.id \notin KnownRows
        /\ address[h] = NoAddress \/ row.id = address[h].id
        /\ address[h] # NoAddress => row = address[h]
        /\ row.typed => ~row.managed
    <3>1. CASE address[h] = NoAddress
      <4>1. FreshRow \in RowIds \ KnownRows
        BY <2>2, <3>1, FreshRowIsFresh
      <4>2. QED
        BY <3>1, <4>1, NoIdIsNone DEF NoAddress, AddressRow
    <3>2. CASE address[h] # NoAddress
      BY <1>2, <3>2, RowIsThere, NoIdIsNone DEF RowInv
    <3>3. QED
      BY <3>1, <3>2
  <2> HIDE DEF row
  <2>5. /\ record \in AddressRow /\ record.id = row.id /\ record.status = "reserved"
        /\ record.link = r /\ record.typed = row.typed /\ record.managed = row.managed
    BY <2>1, <2>4 DEF AddressRow, ReservedRow
  <2> HIDE DEF record
  <2>6. Written(h, record)
    BY <2>1, <2>4, <2>5 DEF Written
  <2>7. \A l \in LeaseRuns : Overtakes(l, h) => h \in blurred'
    BY <2>3
  <2>8. clerk' \in [Clerks \cup Pushes -> Clerk] /\ leaseRun' \in [LeaseRuns -> LeaseRun]
    BY <1>3, <1>4, AtRestRests DEF DhcpInv, DhcpTypeOK
  <2>9. \A c \in Clerks \cup Pushes : clerk'[c] \in {clerk[c], AtRest}
    BY <1>3 DEF DhcpInv, DhcpTypeOK
  <2>10. \A c \in Clerks \cup Pushes : clerk[c].step = "delete" => c \in Clerks
    BY DEF DhcpInv, ClerkInv
  <2>11. h \notin blurred' => \A q \in Settled' : booked[q] = h => q = r
    BY <1>4, <2>1, <2>3 DEF Settled, Booked, DhcpInv, DhcpTypeOK
  <2>12. \A q \in Settled' \ Settled : booked[q] = h
    <3>1. TAKE q \in Settled' \ Settled
    <3>2. booked'[q] = booked[q]
      BY <1>4
    <3>3. PICK c \in Clerks : WorksOn(c, q) /\ ~WorksOn(c, q)'
      BY <1>4 DEF Settled, Booked
    <3>4. c = t
      BY <1>3, <3>2, <3>3, WorksElsewhere DEF DhcpInv, DhcpTypeOK
    <3>5. QED
      BY <1>5, <3>3, <3>4 DEF WorksOn
  <2>13. happened' \in 0 .. MaxHappened
    BY <1>4 DEF DhcpInv, DhcpTypeOK
  <2>14. h \notin blurred' =>
           /\ record.status = "reserved" => record.link \in Booked /\ booked[record.link] = h
           /\ \A q \in Settled' : booked[q] = h => record.status = "reserved" /\ record.link = q
    BY <2>1, <2>3, <2>5, <2>11
  <2> HIDE DEF h, r
  <2>15. RunsMeet(h, record)
    BY <1>4, <2>3, <2>5 DEF RunsMeet
  <2>16. \A c \in Clerks \cup Pushes : h \notin blurred' /\ clerk[c].step = "delete" =>
           record.link = address[h].link \/ record.link # clerk[c].id
    BY <2>3, <2>5, <2>10
  <2>17. h \notin blurred' => \/ address[h] = NoAddress
                              \/ record.id = address[h].id
                              \/ ~Awaited(h)
    BY <2>4, <2>5
  <2>18. QED
    BY <1>2, <1>4, <2>2, <2>3, <2>6, <2>8, <2>9, <2>12, <2>13, <2>14, <2>15, <2>16, <2>17, RowChanges
<1>8. QED
  BY <1>6, <1>7

\* What a step of the lease job that writes has to show.
LEMMA RunWrites ==
  ASSUME DhcpInv, NEW l \in LeaseRuns, NEW h \in Hosts, NEW record, Written(h, record),
         NEW run \in LeaseRun, leaseRun' = [leaseRun EXCEPT ![l] = run],
         \/ run.found = NoId
         \/ run.found = leaseRun[l].found /\ run.host = leaseRun[l].host,
         run.stale \subseteq leaseRun[l].stale,
         run.step \notin {"match", "insert", "update"},
         address' = [address EXCEPT ![h] = record],
         UNCHANGED <<scope, booked, ipamSubnet, leases, applied, clerk, happened>>,
         blurred \subseteq blurred', blurred' \subseteq blurred \cup {h},
         record.status # "reserved", record.typed => address[h].typed,
         record.link = address[h].link \/ record.link = NoReservation,
         h \notin blurred' => \/ address[h] = NoAddress
                              \/ record.id = address[h].id
                              \/ ~Awaited(h),
         h \notin blurred => address[h].status # "reserved"
  PROVE  DhcpInv'
<1>1. leaseRun'[l] = run /\ \A k \in LeaseRuns : k # l => leaseRun'[k] = leaseRun[k]
  BY DEF DhcpInv, DhcpTypeOK
<1>2. RunsMeet(h, record)
  BY <1>1 DEF RunsMeet
<1>3. Settled' = Settled
  BY SameSettled
<1>4. \A r \in Settled : booked[r] = h => h \in blurred'
  BY SettledRow
<1>5. \A t \in Clerks \cup Pushes : clerk[t].step = "delete" => clerk[t].id # NoReservation
  BY DEF DhcpInv, ClerkInv
<1>6. \A t \in Clerks \cup Pushes : clerk[t].step = "delete" =>
        record.link = address[h].link \/ record.link # clerk[t].id
  BY <1>5
<1>7. /\ clerk' \in [Clerks \cup Pushes -> Clerk] /\ leaseRun' \in [LeaseRuns -> LeaseRun]
      /\ happened' \in 0 .. MaxHappened
  BY DEF DhcpInv, DhcpTypeOK
<1>8. h \notin blurred' =>
        /\ record.status = "reserved" => record.link \in Booked /\ booked[record.link] = h
        /\ \A r \in Settled' : booked[r] = h => record.status = "reserved" /\ record.link = r
  BY <1>3, <1>4
<1>9. \A t \in Clerks \cup Pushes : clerk'[t] \in {clerk[t], AtRest}
  OBVIOUS
<1>10. \A r \in Settled' \ Settled : booked[r] = h
  BY <1>3
<1>11. QED
  BY <1>2, <1>6, <1>7, <1>8, <1>9, <1>10, RowChanges

LEMMA NextLeaseRests ==
  ASSUME DhcpInv, NEW l \in LeaseRuns, NEW run,
         run = [leaseRun[l] EXCEPT !.step = "next", !.host = NoHost, !.found = NoId,
                                  !.subnet = NoId]
  PROVE  /\ run \in LeaseRun /\ run.found = NoId /\ run.step = "next"
         /\ run.stale = leaseRun[l].stale
<1>1. leaseRun[l] \in LeaseRun
  BY DEF DhcpInv, DhcpTypeOK
<1>2. QED
  BY <1>1 DEF LeaseRun

\* The row stays: only what the run has in mind is less.
LEMMA RunForgets ==
  ASSUME DhcpInv, NEW l \in LeaseRuns, NEW run \in LeaseRun,
         leaseRun' = [leaseRun EXCEPT ![l] = run],
         \/ run.found = NoId
         \/ run.found = leaseRun[l].found /\ run.host = leaseRun[l].host,
         run.stale \subseteq leaseRun[l].stale,
         run.step \notin {"match", "insert", "update"},
         UNCHANGED <<scope, booked, ipamSubnet, address, leases, applied, clerk, happened, blurred>>
  PROVE  DhcpInv'
<1>1. leaseRun'[l] = run
  BY DEF DhcpInv, DhcpTypeOK
<1>2. RunInv(l) /\ \A h \in Hosts : RowInv(h)
  BY DEF DhcpInv
<1>3. \A h \in Hosts : address[h] # NoAddress => address[h].id # NoId
  BY <1>2 DEF RowInv
<1>4. RunInv(l)'
  BY <1>1, <1>2, <1>3 DEF RunInv, Overtakes
<1>5. happened' \in 0 .. MaxHappened
  BY DEF DhcpInv, DhcpTypeOK
<1>6. QED
  BY <1>4, <1>5, RunMoves

LEMMA MatchSubnetKeepsInv ==
  ASSUME DhcpInv, NEW l \in LeaseRuns, MatchSubnet(l)
  PROVE  DhcpInv'
<1>1. leaseRun[l] \in LeaseRun /\ RunInv(l) /\ leaseRun[l].step = "match"
  BY DEF DhcpInv, DhcpTypeOK, MatchSubnet
<1>2. UNCHANGED <<scope, booked, ipamSubnet, address, leases, applied, clerk, blurred, happened>>
  BY DEF MatchSubnet
<1>3. CASE ipamSubnet = NoId
  <2> DEFINE run == [leaseRun[l] EXCEPT !.step = "next", !.host = NoHost, !.found = NoId,
                                        !.subnet = NoId]
  <2>1. /\ run \in LeaseRun /\ run.found = NoId /\ run.step = "next"
        /\ run.stale = leaseRun[l].stale
    BY NextLeaseRests
  <2>2. leaseRun' = [leaseRun EXCEPT ![l] = run]
    BY <1>3 DEF MatchSubnet, NextLease, SetRun
  <2> HIDE DEF run
  <2>3. QED
    BY <1>2, <2>1, <2>2, RunForgets
<1>4. CASE ipamSubnet # NoId
  <2> DEFINE run == [leaseRun[l] EXCEPT !.step = "insert", !.subnet = ipamSubnet]
  <2>1. /\ run \in LeaseRun /\ run.found = leaseRun[l].found /\ run.step = "insert"
        /\ run.stale = leaseRun[l].stale /\ run.host = leaseRun[l].host
    BY <1>1 DEF LeaseRun, DhcpInv, DhcpTypeOK
  <2>2. leaseRun' = [leaseRun EXCEPT ![l] = run]
    BY <1>4 DEF MatchSubnet, SetRun
  <2> HIDE DEF run
  <2>3. leaseRun'[l] = run
    BY <2>2 DEF DhcpInv, DhcpTypeOK
  <2>4. RunInv(l)'
    BY <1>1, <1>2, <2>1, <2>3 DEF RunInv, Overtakes
  <2>5. happened' \in 0 .. MaxHappened
    BY <1>2 DEF DhcpInv, DhcpTypeOK
  <2>6. QED
    BY <1>2, <2>1, <2>2, <2>4, <2>5, RunMoves
<1>5. QED
  BY <1>3, <1>4

LEMMA InsertLeasedKeepsInv ==
  ASSUME DhcpInv, NEW l \in LeaseRuns, InsertLeased(l)
  PROVE  DhcpInv'
<1> DEFINE run == [leaseRun[l] EXCEPT !.step = "next", !.host = NoHost, !.found = NoId,
                                  !.subnet = NoId]
           h == leaseRun[l].host
           record == [NoAddress EXCEPT !.id = FreshRow, !.status = "leased",
                                       !.managed = TRUE, !.placed = TRUE]
<1>1. /\ run \in LeaseRun /\ run.found = NoId /\ run.step = "next"
      /\ run.stale = leaseRun[l].stale
  BY NextLeaseRests
<1> HIDE DEF run
<1>2. UNCHANGED <<scope, booked, ipamSubnet, leases, applied, clerk, blurred, happened>>
  BY DEF InsertLeased
<1>3. h \in Hosts
  BY DEF DhcpInv, RunInv, InsertLeased
<1>4. CASE address[h] # NoAddress
  <2>1. UNCHANGED address /\ leaseRun' = [leaseRun EXCEPT ![l] = run]
    BY <1>4 DEF InsertLeased, NextLease, SetRun, run
  <2>2. QED
    BY <1>1, <1>2, <2>1, RunForgets
<1>5. CASE address[h] = NoAddress /\ leaseRun[l].subnet # ipamSubnet
  <2>1. UNCHANGED address /\ leaseRun' = [leaseRun EXCEPT ![l] = NoLeaseRun]
    BY <1>5 DEF InsertLeased, SetRun
  <2>2. QED
    BY <1>2, <2>1, NoLeaseRunRests, RunForgets
<1>6. CASE address[h] = NoAddress /\ leaseRun[l].subnet = ipamSubnet
  <2>1. FreshRow \in RowIds \ KnownRows
    BY <1>6, FreshRowIsFresh DEF InsertLeased
  <2>2. /\ address' = [address EXCEPT ![h] = record]
        /\ leaseRun' = [leaseRun EXCEPT ![l] = run]
    BY <1>6 DEF InsertLeased, SetAddress, NextLease, SetRun, run
  <2>3. /\ record \in AddressRow /\ record.id = FreshRow /\ record.status = "leased"
        /\ record.link = NoReservation /\ ~record.typed
    BY <2>1 DEF NoAddress, AddressRow
  <2> HIDE DEF record
  <2>4. Written(h, record)
    BY <2>1, <2>3, NoIdIsNone DEF Written
  <2>5. address[h].status # "reserved"
    BY <1>6 DEF NoAddress
  <2> HIDE DEF h
  <2>6. QED
    BY <1>1, <1>2, <1>3, <1>6, <2>2, <2>3, <2>4, <2>5, RunWrites
<1>7. QED
  BY <1>4, <1>5, <1>6

LEMMA MarkLeasedKeepsInv ==
  ASSUME DhcpInv, NEW l \in LeaseRuns, MarkLeased(l)
  PROVE  DhcpInv'
<1> DEFINE run == [leaseRun[l] EXCEPT !.step = "next", !.host = NoHost, !.found = NoId,
                                  !.subnet = NoId]
           h == leaseRun[l].host
           record == [address[h] EXCEPT !.status = "leased"]
<1>1. /\ run \in LeaseRun /\ run.found = NoId /\ run.step = "next"
      /\ run.stale = leaseRun[l].stale
  BY NextLeaseRests
<1>2. leaseRun' = [leaseRun EXCEPT ![l] = run]
  BY DEF MarkLeased, NextLease, SetRun
<1> HIDE DEF run
<1>3. UNCHANGED <<scope, booked, ipamSubnet, leases, applied, clerk, blurred, happened>>
  BY DEF MarkLeased
<1>4. h \in Hosts /\ leaseRun[l].found # NoId /\ RunInv(l)
  BY DEF DhcpInv, RunInv, MarkLeased
<1>5. CASE address[h].id # leaseRun[l].found
  <2>1. UNCHANGED address
    BY <1>5 DEF MarkLeased
  <2>2. QED
    BY <1>1, <1>2, <1>3, <2>1, RunForgets
<1>6. CASE address[h].id = leaseRun[l].found
  <2>1. address' = [address EXCEPT ![h] = record]
    BY <1>6 DEF MarkLeased, SetAddress
  <2>2. address[h] # NoAddress /\ address[h] \in AddressRow /\ RowInv(h)
    BY <1>4, <1>6, RowIsThere DEF NoAddress
  <2>3. /\ record \in AddressRow /\ record.id = address[h].id /\ record.status = "leased"
        /\ record.link = address[h].link /\ record.typed = address[h].typed
        /\ record.managed = address[h].managed
    BY <2>2 DEF AddressRow
  <2> HIDE DEF record
  <2>4. Written(h, record)
    BY <1>4, <2>2, <2>3 DEF Written, RowInv, DhcpInv, DhcpTypeOK
  <2>5. h \notin blurred => address[h].status # "reserved"
    BY <1>4, <1>6, <2>2 DEF RunInv, Overtakes
  <2> HIDE DEF h
  <2>6. QED
    BY <1>1, <1>2, <1>3, <1>4, <2>1, <2>3, <2>4, <2>5, RunWrites
<1>7. QED
  BY <1>5, <1>6

LEMMA SweepKeepsInv ==
  ASSUME DhcpInv, NEW l \in LeaseRuns, NEW s \in leaseRun[l].stale, Sweep(l, s)
  PROVE  DhcpInv'
<1> DEFINE h == s.host
           rest == leaseRun[l].stale \ {s}
           run == IF rest = {} THEN NoLeaseRun ELSE [leaseRun[l] EXCEPT !.stale = rest]
           record == [address[h] EXCEPT !.status = "static"]
<1>1. leaseRun[l] \in LeaseRun /\ RunInv(l) /\ leaseRun[l].step = "sweep"
  BY DEF DhcpInv, DhcpTypeOK, Sweep
<1>2. s \in [host : Hosts, id : RowIds, managed : BOOLEAN]
  BY <1>1 DEF LeaseRun
<1>3. h \in Hosts /\ s.id \in RowIds
  BY <1>2
<1>4. /\ run \in LeaseRun /\ run.stale \subseteq rest /\ run.step \notin {"match", "insert", "update"}
      /\ \/ run.found = NoId
         \/ run.found = leaseRun[l].found /\ run.host = leaseRun[l].host
  <2>1. CASE rest = {}
    BY <2>1, NoLeaseRunRests
  <2>2. CASE rest # {}
    BY <1>1, <2>2 DEF LeaseRun
  <2>3. QED
    BY <2>1, <2>2
<1>5. leaseRun' = [leaseRun EXCEPT ![l] = run]
  BY DEF Sweep, SetRun
<1>6. run.stale \subseteq leaseRun[l].stale
  BY <1>4
<1> HIDE DEF run, rest
<1>7. UNCHANGED <<scope, booked, ipamSubnet, leases, applied, clerk, happened>>
  BY DEF Sweep
<1>8. CASE address[h].id # s.id
  <2>1. UNCHANGED <<address, blurred>>
    BY <1>8 DEF Sweep
  <2>2. QED
    BY <1>4, <1>5, <1>6, <1>7, <2>1, RunForgets
<1>9. CASE address[h].id = s.id
  <2>1. address[h] # NoAddress /\ address[h] \in AddressRow /\ RowInv(h)
    BY <1>3, <1>9, RowIsThere, NoIdIsNone DEF NoAddress
  <2>2. h \notin blurred => address[h].status # "reserved"
    BY <1>1, <1>3, <1>9, <2>1 DEF RunInv, Overtakes
  <2>3. CASE s.managed
    <3>1. address' = [address EXCEPT ![h] = NoAddress]
      BY <1>9, <2>3 DEF Sweep, SetAddress
    <3>2. /\ blurred \subseteq blurred' /\ blurred' \subseteq blurred \cup {h}
          /\ Awaited(h) => h \in blurred'
      BY <1>9, <2>3 DEF Sweep, Blur
    <3>3. /\ Written(h, NoAddress) /\ NoAddress.link = NoReservation
          /\ NoAddress.status # "reserved" /\ ~NoAddress.typed
      BY <1>3, NoAddressWritten
    <3> HIDE DEF h
    <3>4. QED
      BY <1>3, <1>4, <1>5, <1>6, <1>7, <2>2, <3>1, <3>2, <3>3, RunWrites
  <2>4. CASE ~s.managed
    <3>1. address' = [address EXCEPT ![h] = record] /\ UNCHANGED blurred
      BY <1>9, <2>4 DEF Sweep, SetAddress
    <3>2. /\ record \in AddressRow /\ record.id = address[h].id /\ record.status = "static"
          /\ record.link = address[h].link /\ record.typed = address[h].typed
          /\ record.managed = address[h].managed
      BY <2>1 DEF AddressRow
    <3> HIDE DEF record
    <3>3. Written(h, record)
      BY <1>3, <1>9, <2>1, <3>2, NoIdIsNone DEF Written, RowInv, DhcpInv, DhcpTypeOK
    <3> HIDE DEF h
    <3>4. QED
      BY <1>3, <1>4, <1>5, <1>6, <1>7, <2>2, <3>1, <3>2, <3>3, RunWrites
  <2>5. QED
    BY <2>3, <2>4
<1>10. QED
  BY <1>8, <1>9

-----------------------------------------------------------------------------
(* Steps that write to the reservations, or to the rows linked to them.    *)

\* A run has nothing to fear of rows that keep their ids and are less reserved.
LEMMA RunSeesRows ==
  ASSUME DhcpInv, NEW l \in LeaseRuns, UNCHANGED leaseRun, blurred \subseteq blurred',
         \A h \in Hosts : /\ address'[h].id = address[h].id
                          /\ address'[h] # NoAddress => address[h] # NoAddress
                          /\ address'[h].typed = address[h].typed
                          /\ address'[h].status = "reserved" => address[h].status = "reserved"
  PROVE  RunInv(l)'
<1>1. RunInv(l)
  BY DEF DhcpInv
<1>2. \A h \in Hosts : Overtakes(l, h)' => Overtakes(l, h)
  BY DEF Overtakes
<1>3. QED
  BY <1>1, <1>2 DEF RunInv

\* removeReservationFromIpam.
LEMMA RemoveKeepsInv ==
  ASSUME DhcpInv, NEW t \in Clerks \cup Pushes, RemoveFromIpam(t)
  PROVE  DhcpInv'
<1> DEFINE r == clerk[t].id
           moved == [clerk[t] EXCEPT !.step = "delete"]
<1>1. /\ clerk[t] \in Clerk /\ ClerkInv(t) /\ clerk[t].step = "remove"
      /\ t \in Pushes => r = NoReservation
  BY DEF DhcpInv, DhcpTypeOK, RemoveFromIpam
<1>2. r \in Reservations /\ t \in Clerks
  BY <1>1 DEF ClerkInv, Clerk
<1>3. UNCHANGED <<scope, booked, ipamSubnet, leases, applied, leaseRun, blurred, happened>>
  BY DEF RemoveFromIpam
<1>4. /\ moved \in Clerk /\ moved.step = "delete" /\ moved.id = r
      /\ moved.host = clerk[t].host
  BY <1>1 DEF Clerk
<1>5. clerk' = [clerk EXCEPT ![t] = moved]
  BY DEF RemoveFromIpam, SetClerk
<1> HIDE DEF moved
<1>6. clerk'[t] = moved /\ \A c \in Clerks \cup Pushes : c # t => clerk'[c] = clerk[c]
  BY <1>5 DEF DhcpInv, DhcpTypeOK
<1>7. \A h \in Hosts :
        /\ address[h].link # r => address'[h] = address[h]
        /\ address[h].link = r =>
             address'[h] = [address[h] EXCEPT
                              !.status = IF @ = "reserved" THEN "static" ELSE @,
                              !.link = NoReservation]
  BY DEF RemoveFromIpam
<1>8. \A h \in Hosts :
        /\ address[h] \in AddressRow /\ RowInv(h)
        /\ address'[h] \in AddressRow /\ address'[h].id = address[h].id
        /\ address'[h].typed = address[h].typed /\ address'[h].managed = address[h].managed
        /\ address[h].link # r => address'[h] = address[h]
        /\ address[h].link = r => /\ address'[h].link = NoReservation
                                  /\ address'[h].status # "reserved" /\ address[h] # NoAddress
                                  /\ address[h].status # "none" => address'[h].status # "none"
  <2>1. TAKE h \in Hosts
  <2>2. address[h] \in AddressRow /\ RowInv(h)
    BY DEF DhcpInv, DhcpTypeOK
  <2>3. CASE address[h].link # r
    BY <1>7, <2>2, <2>3
  <2>4. CASE address[h].link = r
    <3> DEFINE status == IF address[h].status = "reserved" THEN "static" ELSE address[h].status
    <3>1. address'[h] = [address[h] EXCEPT !.status = status, !.link = NoReservation]
      BY <1>7, <2>4
    <3>2. /\ status \in {"none", "static", "leased"}
          /\ address[h].status # "none" => status # "none"
      BY <2>2 DEF AddressRow
    <3> HIDE DEF status
    <3>3. address[h] # NoAddress
      BY <1>2, <2>4, NoReservationIsNone DEF NoAddress
    <3>4. QED
      BY <2>2, <2>4, <3>1, <3>2, <3>3 DEF AddressRow
  <2>5. QED
    BY <2>3, <2>4
<1>9. DhcpTypeOK'
  <2>1. address' \in [Hosts -> AddressRow]
    BY <1>8 DEF RemoveFromIpam
  <2>2. clerk' \in [Clerks \cup Pushes -> Clerk]
    BY <1>4, <1>5 DEF DhcpInv, DhcpTypeOK
  <2>3. \A h \in Hosts : address'[h].link \in Booked \cup {NoReservation}
    BY <1>8 DEF DhcpInv, DhcpTypeOK
  <2>4. Booked' = Booked
    BY <1>3 DEF Booked
  <2>5. QED
    BY <1>3, <2>1, <2>2, <2>3, <2>4 DEF DhcpInv, DhcpTypeOK
<1>10. \A h \in Hosts : RowInv(h)'
  <2>1. \A h \in Hosts : address'[h] # NoAddress => address[h] # NoAddress
    BY <1>8
  <2>2. TAKE h \in Hosts
  <2>3. address'[h] # NoAddress => address'[h].id # NoId /\ address'[h].status # "none"
    BY <1>8, <2>1 DEF RowInv
  <2>4. \A g \in Hosts : address'[h] # NoAddress /\ address'[g].id = address'[h].id => g = h
    BY <1>8, <2>1 DEF RowInv
  <2>5. address'[h].link # NoReservation => booked'[address'[h].link] = h \/ h \in blurred'
    BY <1>3, <1>8 DEF RowInv
  <2>6. address'[h].typed => ~address'[h].managed
    BY <1>8 DEF RowInv
  <2>7. QED
    BY <2>3, <2>4, <2>5, <2>6 DEF RowInv
<1>11. \A c \in Clerks \cup Pushes : ClerkInv(c)'
  <2>1. TAKE c \in Clerks \cup Pushes
  <2>2. ClerkInv(c)
    BY DEF DhcpInv
  <2>3. CASE c = t
    BY <1>1, <1>2, <1>3, <1>4, <1>6, <1>8, <2>3, NoReservationIsNone DEF ClerkInv, Booked
  <2>4. CASE c # t
    <3>1. clerk'[c] = clerk[c]
      BY <1>6, <2>4
    <3>2. \A h \in Hosts : address'[h].link \in {address[h].link, NoReservation}
      BY <1>8
    <3>3. clerk[c].step = "write" => clerk[c].host \in Hosts
      BY <2>2 DEF ClerkInv
    <3>4. QED
      BY <1>3, <1>8, <2>2, <3>1, <3>2, <3>3 DEF ClerkInv, Booked
  <2>5. QED
    BY <2>3, <2>4
<1>12. \A c \in Pushes : clerk'[c].id = NoReservation
  BY <1>4, <1>6 DEF DhcpInv
<1>13. \A l \in LeaseRuns : RunInv(l)'
  BY <1>3, <1>8, RunSeesRows
<1>14. ReservedTellsReservation'
  <2>1. Settled' = Settled
    <3>1. \A q : WorksOn(t, q)' <=> WorksOn(t, q)
      BY <1>1, <1>3, <1>4, <1>6 DEF WorksOn, AtStake
    <3>2. \A c \in Clerks : \A q : WorksOn(c, q)' <=> WorksOn(c, q)
      BY <1>3, <1>6, <3>1, WorksElsewhere
    <3>3. QED
      BY <1>3, <3>2 DEF Settled, Booked
  <2>2. r \notin Settled /\ ReservedTellsReservation
    <3>1. r \in Booked => WorksOn(t, r)
      BY <1>1 DEF WorksOn, AtStake, Booked
    <3>2. QED
      BY <1>2, <3>1 DEF Settled, DhcpInv
  <2>3. ASSUME NEW q \in Settled, booked[q] \notin blurred
        PROVE  address'[booked[q]].status = "reserved" /\ address'[booked[q]].link = q
    BY <1>8, <2>2, <2>3, SettledRow
  <2>4. \A h \in Hosts \ blurred : address'[h].status = "reserved" =>
          address'[h].link \in Booked /\ booked[address'[h].link] = h
    BY <1>8, <2>2 DEF ReservedTellsReservation
  <2>5. Booked' = Booked
    BY <1>3 DEF Booked
  <2>6. QED
    BY <1>3, <2>1, <2>3, <2>4, <2>5 DEF ReservedTellsReservation
<1>15. QED
  BY <1>9, <1>10, <1>11, <1>12, <1>13, <1>14 DEF DhcpInv

\* Reservations go, and their links with them; no address with no blur tells of them.
LEMMA GoneKeepsInv ==
  ASSUME DhcpInv, NEW gone \in SUBSET Reservations,
         Unlink(gone), booked' = [r \in Reservations |-> IF r \in gone THEN NoHost ELSE booked[r]],
         UNCHANGED <<ipamSubnet, leases, applied, leaseRun>>,
         clerk' \in [Clerks \cup Pushes -> Clerk],
         \A c \in Clerks \cup Pushes :
           \/ clerk'[c] = clerk[c]
           \/ /\ clerk'[c].step = "scope" /\ clerk'[c].id = NoReservation
              /\ clerk[c].id \in gone \cup {NoReservation},
         scope' \in {"active", "inactive", "deleted"}, scope' = "deleted" => Booked \subseteq gone,
         happened' \in 0 .. MaxHappened, blurred \subseteq blurred', blurred' \subseteq Hosts,
         \A h \in Hosts \ blurred' :
           address[h].status = "reserved" => address[h].link \notin gone
  PROVE  DhcpInv'
<1>4. Booked' = Booked \ gone /\ \A r \in Booked' : booked'[r] = booked[r]
  BY DEF Booked
<1>5. \A h \in Hosts :
        /\ address[h] \in AddressRow /\ RowInv(h)
        /\ address'[h] \in AddressRow /\ address'[h].id = address[h].id
        /\ address'[h].typed = address[h].typed /\ address'[h].managed = address[h].managed
        /\ address'[h].status = address[h].status
        /\ address[h].link \notin gone => address'[h] = address[h]
        /\ address[h].link \in gone =>
             address'[h].link = NoReservation /\ address[h] # NoAddress
  <2>1. TAKE h \in Hosts
  <2>2. address[h] \in AddressRow /\ RowInv(h)
    BY DEF DhcpInv, DhcpTypeOK
  <2>3. CASE address[h].link \notin gone
    BY <2>2, <2>3 DEF Unlink
  <2>4. CASE address[h].link \in gone
    <3>1. address'[h] = [address[h] EXCEPT !.link = NoReservation]
      BY <2>4 DEF Unlink
    <3>2. address[h] # NoAddress
      BY <2>4, NoReservationIsNone DEF NoAddress
    <3>3. QED
      BY <2>2, <2>4, <3>1, <3>2 DEF AddressRow
  <2>5. QED
    BY <2>3, <2>4
<1>6. DhcpTypeOK'
  <2>1. address' \in [Hosts -> AddressRow]
    BY <1>5 DEF Unlink
  <2>3. \A h \in Hosts : address'[h].link \in Booked' \cup {NoReservation}
    BY <1>4, <1>5 DEF DhcpInv, DhcpTypeOK
  <2>4. booked' \in [Reservations -> Hosts \cup {NoHost}]
    BY DEF DhcpInv, DhcpTypeOK
  <2>5. \A q, r \in Booked' : booked'[q] = booked'[r] => q = r
    BY <1>4 DEF DhcpInv, DhcpTypeOK
  <2>6. QED
    BY <1>4, <2>1, <2>3, <2>4, <2>5 DEF DhcpInv, DhcpTypeOK
<1>7. \A h \in Hosts : address'[h] # NoAddress => address[h] # NoAddress
  BY <1>5
<1>8. \A h \in Hosts : address'[h].link \in {address[h].link, NoReservation} \ gone
  BY <1>5, NoReservationIsNone
<1>9. \A h \in Hosts : RowInv(h)'
  <2>1. TAKE h \in Hosts
  <2>2. address'[h] # NoAddress => address'[h].id # NoId /\ address'[h].status # "none"
    BY <1>5, <1>7 DEF RowInv
  <2>3. \A g \in Hosts : address'[h] # NoAddress /\ address'[g].id = address'[h].id => g = h
    BY <1>5, <1>7 DEF RowInv
  <2>4. address'[h].link # NoReservation => booked'[address'[h].link] = h \/ h \in blurred'
    BY <1>4, <1>5, <1>6, <1>8 DEF RowInv, DhcpTypeOK
  <2>5. address'[h].typed => ~address'[h].managed
    BY <1>5 DEF RowInv
  <2>6. QED
    BY <2>2, <2>3, <2>4, <2>5 DEF RowInv
<1>10. \A c \in Clerks \cup Pushes : ClerkInv(c)'
  <2>1. TAKE c \in Clerks \cup Pushes
  <2>2. ClerkInv(c)
    BY DEF DhcpInv
  <2>3. CASE clerk'[c].step = "scope" /\ clerk'[c].id = NoReservation
    BY <2>3 DEF ClerkInv
  <2>4. CASE clerk'[c] = clerk[c]
    <3>1. clerk'[c] = clerk[c]
      BY <2>4
    <3>2. clerk[c].step = "write" => clerk[c].host \in Hosts
      BY <2>2 DEF ClerkInv
    <3>3. \A h \in Hosts : address'[h].id = address[h].id
      BY <1>5
    <3>4. clerk[c].step = "delete" => \A h \in Hosts \ blurred' : address'[h].link # clerk[c].id
      BY <1>8, <2>2 DEF ClerkInv
    <3>5. QED
      BY <1>4, <2>2, <3>1, <3>2, <3>3, <3>4 DEF ClerkInv
  <2>5. QED
    BY <2>3, <2>4
<1>11. \A c \in Pushes : clerk'[c].id = NoReservation
  BY DEF DhcpInv
<1>12. \A l \in LeaseRuns : RunInv(l)'
  BY <1>5, <1>7, RunSeesRows
<1>13. ReservedTellsReservation'
  <2>1. ReservedTellsReservation
    BY DEF DhcpInv
  <2>2. ASSUME NEW r \in Settled' PROVE r \in Settled /\ r \notin gone /\ r \in Booked'
    <3>1. r \in Booked' /\ \A c \in Clerks : ~WorksOn(c, r)'
      BY DEF Settled
    <3>2. r \in Booked /\ r \notin gone
      BY <1>4, <3>1
    <3>3. r # NoReservation
      BY <3>2, NoReservationIsNone DEF Booked
    <3>4. \A c \in Clerks : ~WorksOn(c, r)
      <4>1. TAKE c \in Clerks
      <4>2. CASE clerk'[c] = clerk[c]
        BY <1>4, <3>1, <4>2, WorksElsewhere
      <4>3. CASE clerk[c].id \in gone \cup {NoReservation}
        BY <3>2, <3>3, <4>3 DEF WorksOn
      <4>4. QED
        BY <4>2, <4>3
    <3>5. QED
      BY <3>1, <3>2, <3>4 DEF Settled
  <2>3. ASSUME NEW r \in Settled', booked'[r] \notin blurred'
        PROVE  address'[booked'[r]].status = "reserved" /\ address'[booked'[r]].link = r
    <3>1. r \in Settled /\ r \notin gone /\ booked'[r] = booked[r]
      BY <1>4, <2>2
    <3>2. QED
      BY <1>5, <2>3, <3>1, SettledRow
  <2>4. ASSUME NEW h \in Hosts \ blurred', address'[h].status = "reserved"
        PROVE  address'[h].link \in Booked' /\ booked'[address'[h].link] = h
    BY <1>4, <1>5, <2>1, <2>4 DEF ReservedTellsReservation
  <2>5. QED
    BY <2>3, <2>4 DEF ReservedTellsReservation
<1>14. QED
  BY <1>6, <1>9, <1>10, <1>11, <1>12, <1>13 DEF DhcpInv

LEMMA DropKeepsInv ==
  ASSUME DhcpInv, NEW t \in Clerks \cup Pushes, DropReservation(t)
  PROVE  DhcpInv'
<1> DEFINE r == clerk[t].id
<1>1. /\ ClerkInv(t) /\ clerk[t] \in Clerk /\ clerk[t].step = "delete"
      /\ t \in Pushes => r = NoReservation
  BY DEF DhcpInv, DhcpTypeOK, DropReservation
<1>2. r \in Reservations /\ t \in Clerks
  BY <1>1 DEF ClerkInv, Clerk
<1>3. booked' = [q \in Reservations |-> IF q \in {r} THEN NoHost ELSE booked[q]]
  BY <1>2 DEF DropReservation, DhcpInv, DhcpTypeOK
<1>4. \A h \in Hosts \ blurred : address[h].link \notin {r}
  BY <1>1 DEF ClerkInv
<1>5. UNCHANGED <<scope, ipamSubnet, leases, applied, leaseRun, blurred, happened>>
  BY DEF DropReservation
<1>6. Unlink({r}) /\ ThenPush(t, NoReservation, NoHost, FALSE)
  BY DEF DropReservation
<1>7. /\ scope' \in {"active", "inactive", "deleted"}
      /\ scope' = "deleted" => Booked \subseteq {r}
      /\ happened' \in 0 .. MaxHappened /\ blurred' \subseteq Hosts
  BY <1>5 DEF DhcpInv, DhcpTypeOK
<1>8. /\ clerk' \in [Clerks \cup Pushes -> Clerk]
      /\ \A c \in Clerks \cup Pushes :
           \/ clerk'[c] = clerk[c]
           \/ /\ clerk'[c].step = "scope" /\ clerk'[c].id = NoReservation
              /\ clerk[c].id \in {r} \cup {NoReservation}
  BY <1>6, PushTurns
<1>9. QED
  BY <1>2, <1>3, <1>4, <1>5, <1>6, <1>7, <1>8, GoneKeepsInv

\* The reservations of a scope go with it, from either page.
LEMMA ScopeGoesKeepsInv ==
  ASSUME DhcpInv, Happening, ScopeGoes,
         \/ UNCHANGED clerk
         \/ \E a \in Clerks : clerk[a] = AtRest /\ ThenPush(a, NoReservation, NoHost, FALSE)
  PROVE  DhcpInv'
<1>1. booked' = [q \in Reservations |-> IF q \in Booked THEN NoHost ELSE booked[q]]
  BY DEF ScopeGoes, Booked
<1>2. Booked \in SUBSET Reservations /\ Reserved \subseteq Hosts
  BY DEF Booked, Reserved, DhcpInv, DhcpTypeOK
<1>3. blurred' = blurred \cup Reserved
  BY DEF ScopeGoes, Blur
<1>4. ASSUME NEW h \in Hosts \ blurred', address[h].link \in Booked
      PROVE  FALSE
  <2>1. booked[address[h].link] = h
    BY <1>3, <1>4, NoReservationIsNone DEF DhcpInv, RowInv, Booked
  <2>2. QED
    BY <1>3, <1>4, <2>1 DEF Reserved
<1>5. /\ scope' = "deleted" /\ Unlink(Booked)
      /\ UNCHANGED <<ipamSubnet, leases, applied, leaseRun>>
  BY DEF ScopeGoes
<1>6. happened' \in 0 .. MaxHappened
  BY HappenedCounts
<1>7. /\ clerk' \in [Clerks \cup Pushes -> Clerk]
      /\ \A c \in Clerks \cup Pushes :
           \/ clerk'[c] = clerk[c]
           \/ /\ clerk'[c].step = "scope" /\ clerk'[c].id = NoReservation
              /\ clerk[c].id \in Booked \cup {NoReservation}
  <2>1. CASE UNCHANGED clerk
    BY <2>1 DEF DhcpInv, DhcpTypeOK
  <2>2. ASSUME NEW a \in Clerks, clerk[a] = AtRest, ThenPush(a, NoReservation, NoHost, FALSE)
        PROVE  /\ clerk' \in [Clerks \cup Pushes -> Clerk]
               /\ \A c \in Clerks \cup Pushes :
                    \/ clerk'[c] = clerk[c]
                    \/ /\ clerk'[c].step = "scope" /\ clerk'[c].id = NoReservation
                       /\ clerk[c].id \in Booked \cup {NoReservation}
    <3>1. clerk[a].id = NoReservation /\ FALSE \in BOOLEAN
      BY <2>2, AtRestRests
    <3>2. a \in Clerks \cup Pushes
      OBVIOUS
    <3>3. QED
      BY <2>2, <3>1, <3>2, PushTurns
  <2>3. QED
    BY <2>1, <2>2
<1>8. blurred \subseteq blurred' /\ blurred' \subseteq Hosts
  BY <1>2, <1>3 DEF DhcpInv, DhcpTypeOK
<1>9. QED
  BY <1>1, <1>2, <1>4, <1>5, <1>6, <1>7, <1>8, GoneKeepsInv

\* Reservation r, a fresh one or one of the table, gets address h; the address it had,
\* if it had another, is blurred.
LEMMA BookKeepsInv ==
  ASSUME DhcpInv, NEW a \in Clerks, NEW r \in Reservations, NEW h \in Hosts,
         NEW covers \in BOOLEAN,
         booked' = [booked EXCEPT ![r] = h], \A q \in Booked : booked[q] = h => q = r,
         r \in Booked \/ \A t \in Clerks \cup Pushes : clerk[t].id # r,
         Blur({booked[r]} \ {NoHost, h}), ThenPush(a, r, h, covers),
         \A q \in Booked : q = r \/ ~WorksOn(a, q),
         UNCHANGED <<ipamSubnet, address, leases, applied, leaseRun>>,
         scope' \in {"active", "inactive"}, happened' \in 0 .. MaxHappened
  PROVE  DhcpInv'
<1> DEFINE moved == [AtRest EXCEPT !.step = "scope", !.id = r, !.host = h, !.covers = covers]
<1>1. moved \in Clerk /\ moved.step = "scope" /\ moved.id = r /\ moved.host = h
  BY DEF AtRest, Clerk
<1>2. clerk' = [clerk EXCEPT ![a] = moved]
  BY DEF ThenPush, SetClerk
<1> HIDE DEF moved
<1>3. clerk'[a] = moved /\ \A c \in Clerks \cup Pushes : c # a => clerk'[c] = clerk[c]
  BY <1>2 DEF DhcpInv, DhcpTypeOK
<1>4. /\ booked' \in [Reservations -> Hosts \cup {NoHost}] /\ booked'[r] = h
      /\ \A q \in Reservations : q # r => booked'[q] = booked[q]
  BY DEF DhcpInv, DhcpTypeOK
<1>5. Booked' = Booked \cup {r}
  BY <1>4, NoHostIsNone DEF Booked, NoHost
<1>6. /\ blurred \subseteq blurred' /\ blurred' \subseteq Hosts
      /\ \A g \in Hosts : g = booked[r] /\ g # h => g \in blurred'
  BY NoHostIsNone DEF Blur, NoHost, DhcpInv, DhcpTypeOK
<1>7. \A g \in Hosts : /\ address[g].link \in Booked \cup {NoReservation} /\ RowInv(g)
                       /\ address[g].link # NoReservation => address[g].link \in Reservations
  BY DEF DhcpInv, DhcpTypeOK, Booked
<1>8. DhcpTypeOK'
  <2>1. clerk' \in [Clerks \cup Pushes -> Clerk]
    BY <1>1, <1>2 DEF DhcpInv, DhcpTypeOK
  <2>2. \A q \in Booked' : q # r => q \in Booked /\ q \in Reservations
    BY <1>5 DEF Booked
  <2>3. \A p, q \in Booked' : booked'[p] = booked'[q] => p = q
    BY <1>4, <2>2 DEF DhcpInv, DhcpTypeOK
  <2>4. \A g \in Hosts : address'[g].link \in Booked' \cup {NoReservation}
    BY <1>5, <1>7
  <2>5. QED
    BY <1>4, <1>6, <2>1, <2>3, <2>4 DEF DhcpInv, DhcpTypeOK
<1>9. \A g \in Hosts : RowInv(g)'
  <2>1. TAKE g \in Hosts
  <2>2. address[g].link # NoReservation => booked'[address[g].link] = g \/ g \in blurred'
    BY <1>4, <1>6, <1>7 DEF RowInv
  <2>3. QED
    BY <1>7, <2>2 DEF RowInv
<1>10. \A c \in Clerks \cup Pushes : ClerkInv(c)'
  <2>1. TAKE c \in Clerks \cup Pushes
  <2>2. CASE c = a
    BY <1>1, <1>3, <1>4, <2>2 DEF ClerkInv
  <2>3. CASE c # a
    <3>1. clerk'[c] = clerk[c] /\ ClerkInv(c)
      BY <1>3, <2>3 DEF DhcpInv
    <3>2. clerk[c].id \in Booked' => clerk[c].id \in Booked /\ clerk[c].id \in Reservations
      BY <1>5 DEF Booked
    <3>3. ASSUME clerk[c].id \in Booked', clerk[c].host \in Hosts,
                 booked[clerk[c].id] = clerk[c].host \/ clerk[c].host \in blurred
          PROVE  booked'[clerk[c].id] = clerk[c].host \/ clerk[c].host \in blurred'
      BY <1>4, <1>6, <3>2, <3>3
    <3>4. QED
      BY <1>6, <3>1, <3>2, <3>3 DEF ClerkInv
  <2>4. QED
    BY <2>2, <2>3
<1>11. \A c \in Pushes : clerk'[c].id = NoReservation
  BY <1>3, PushesAreNoRequests DEF DhcpInv
<1>12. \A l \in LeaseRuns : RunInv(l)'
  BY <1>6, RunStands
<1>13. ReservedTellsReservation'
  <2>1. ReservedTellsReservation
    BY DEF DhcpInv
  <2>2. ASSUME NEW q \in Settled' PROVE q \in Settled /\ booked'[q] = booked[q]
    <3>1. q \in Booked' /\ \A c \in Clerks : ~WorksOn(c, q)'
      BY DEF Settled
    <3>2. WorksOn(a, r)'
      BY <1>1, <1>3, <1>4, NoHostIsNone DEF WorksOn, AtStake, NoHost
    <3>3. q # r
      BY <3>1, <3>2
    <3>4. q \in Booked /\ booked'[q] = booked[q]
      BY <1>4, <1>5, <3>1, <3>3 DEF Booked
    <3>5. \A c \in Clerks : c # a => ~WorksOn(c, q)
      BY <1>3, <3>1, <3>4, WorksElsewhere
    <3>6. QED
      BY <3>3, <3>4, <3>5 DEF Settled
  <2>3. ASSUME NEW g \in Hosts \ blurred', address[g].status = "reserved"
        PROVE  address[g].link \in Booked' /\ booked'[address[g].link] = g
    <3>1. address[g].link \in Booked /\ booked[address[g].link] = g /\ address[g].link \in Reservations
      BY <1>6, <2>1, <2>3 DEF ReservedTellsReservation, Booked
    <3>2. QED
      BY <1>4, <1>5, <1>6, <2>3, <3>1
  <2>4. QED
    BY <1>6, <2>1, <2>2, <2>3 DEF ReservedTellsReservation
<1>14. QED
  BY <1>8, <1>9, <1>10, <1>11, <1>12, <1>13 DEF DhcpInv

\* A fresh id is one no handler has in hand.
LEMMA FreshReservationIsFresh ==
  ASSUME NEW r \in FreshReservations
  PROVE  /\ r \in Reservations \ Booked
         /\ \A t \in Clerks \cup Pushes : clerk[t].id # r
BY DEF FreshReservations

LEMMA CreateKeepsInv ==
  ASSUME DhcpInv, NEW a \in Clerks, NEW h \in Hosts,
         CreateReservation(a, h) \/ \E r \in Reservations : ImportReservation(a, r, h)
  PROVE  DhcpInv'
<1>1. \A q \in Booked : ~WorksOn(a, q)
  BY Idle DEF CreateReservation, ImportReservation
<1>2. happened' \in 0 .. MaxHappened
  BY HappenedCounts DEF CreateReservation, ImportReservation
<1>3. CASE CreateReservation(a, h)
  <2>1. PICK r \in FreshReservations :
          booked' = [booked EXCEPT ![r] = h] /\ ThenPush(a, r, h, FALSE)
    BY <1>3 DEF CreateReservation
  <2>2. r \in Reservations /\ booked[r] = NoHost /\ \A t \in Clerks \cup Pushes : clerk[t].id # r
    BY FreshReservationIsFresh DEF Booked
  <2>3. Blur({booked[r]} \ {NoHost, h})
    BY <1>3, <2>2 DEF CreateReservation, Blur
  <2>4. \A q \in Booked : booked[q] # h
    BY <1>3 DEF CreateReservation, Reserved
  <2>5. scope' \in {"active", "inactive"} /\ UNCHANGED <<ipamSubnet, address, leases, applied, leaseRun>>
    BY <1>3 DEF CreateReservation, DhcpInv, DhcpTypeOK
  <2>6. QED
    BY <1>1, <1>2, <2>1, <2>2, <2>3, <2>4, <2>5, BookKeepsInv
<1>4. ASSUME NEW r \in Reservations, ImportReservation(a, r, h)
      PROVE  DhcpInv'
  <2>1. booked' = [booked EXCEPT ![r] = h] /\ ThenPush(a, r, h, TRUE) /\ Blur({booked[r]} \ {NoHost, h})
    BY <1>4 DEF ImportReservation, MoveTo
  <2>2. r \in Booked \/ \A t \in Clerks \cup Pushes : clerk[t].id # r
    BY <1>4, FreshReservationIsFresh DEF ImportReservation
  <2>3. \A q \in Booked : booked[q] = h => q = r
    <3>1. TAKE q \in Booked
    <3>2. HAVE booked[q] = h
    <3>3. h = booked[r] /\ q \in Reservations
      BY <1>4, <3>2 DEF ImportReservation, Reserved, Booked
    <3>4. r \in Booked
      BY <3>2, <3>3 DEF Booked
    <3>5. QED
      BY <3>2, <3>3, <3>4 DEF DhcpInv, DhcpTypeOK
  <2>4. scope' \in {"active", "inactive"} /\ UNCHANGED <<ipamSubnet, address, leases, applied, leaseRun>>
    BY <1>4 DEF ImportReservation, DhcpInv, DhcpTypeOK
  <2>5. QED
    BY <1>1, <1>2, <2>1, <2>2, <2>3, <2>4, BookKeepsInv
<1>5. QED
  BY <1>3, <1>4

\* The UPDATE of a reservation, with the address its SELECT read.
LEMMA SaveKeepsInv ==
  ASSUME DhcpInv, NEW t \in Clerks \cup Pushes, SaveReservation(t)
  PROVE  DhcpInv'
<1> DEFINE r == clerk[t].id
           h == clerk[t].host
<1>1. /\ ClerkInv(t) /\ clerk[t] \in Clerk /\ clerk[t].step = "save"
      /\ t \in Pushes => r = NoReservation
  BY DEF DhcpInv, DhcpTypeOK, SaveReservation
<1>2. r \in Reservations /\ t \in Clerks /\ t \notin Pushes /\ h \in Hosts
  BY <1>1, PushesAreNoRequests DEF ClerkInv, Clerk
<1>3. UNCHANGED <<scope, ipamSubnet, address, leases, applied, leaseRun, happened>>
  BY DEF SaveReservation
<1>4. \A q \in Booked : ~WorksOn(t, q)
  BY <1>1, Idle
<1>5. CASE r \in Booked /\ h \notin Reserved \ {booked[r]}
  <2>1. /\ booked' = [booked EXCEPT ![r] = h] /\ ThenPush(t, r, h, FALSE)
        /\ Blur({booked[r]} \ {NoHost, h})
    BY <1>5 DEF SaveReservation, MoveTo
  <2>2. \A q \in Booked : booked[q] = h => q = r
    BY <1>5 DEF Reserved, DhcpInv, DhcpTypeOK
  <2>3. scope' \in {"active", "inactive"} /\ happened' \in 0 .. MaxHappened
    BY <1>3, <1>5 DEF DhcpInv, DhcpTypeOK
  <2> HIDE DEF r, h
  <2>4. QED
    BY <1>2, <1>3, <1>4, <1>5, <2>1, <2>2, <2>3, BookKeepsInv
<1>6. CASE r \in Booked /\ h \in Reserved \ {booked[r]}
  <2>1. clerk' = [clerk EXCEPT ![t] = AtRest] /\ UNCHANGED <<booked, blurred>>
    BY <1>6 DEF SaveReservation, SetClerk
  <2>2. clerk'[t] = AtRest
    BY <2>1 DEF DhcpInv, DhcpTypeOK
  <2>3. ClerkInv(t)'
    BY <2>2, AtRestRests DEF ClerkInv
  <2>4. QED
    BY <1>2, <1>3, <1>4, <2>1, <2>3, AtRestRests, ClerkMoves DEF DhcpInv, DhcpTypeOK
<1>7. CASE r \notin Booked
  <2>1. ThenPush(t, NoReservation, NoHost, FALSE) /\ UNCHANGED <<booked, blurred>>
    BY <1>7 DEF SaveReservation
  <2>2. QED
    BY <1>3, <1>4, <2>1, ThenPushMoves DEF DhcpInv, DhcpTypeOK
<1>8. QED
  BY <1>5, <1>6, <1>7

\* The subnet that covered the pool goes; its addresses stay.
LEMMA UncoverKeepsInv ==
  ASSUME DhcpInv, UncoverPool
  PROVE  DhcpInv'
<1>1. /\ UNCHANGED <<scope, booked, leases, applied, clerk, leaseRun, blurred>>
      /\ ipamSubnet' = NoId
  BY DEF UncoverPool
<1>2. \A h \in Hosts :
        /\ RowInv(h) /\ address'[h] \in AddressRow /\ address'[h].id = address[h].id
        /\ address'[h].status = address[h].status /\ address'[h].link = address[h].link
        /\ address'[h].typed = address[h].typed /\ address'[h].managed = address[h].managed
        /\ address'[h] # NoAddress => address[h] # NoAddress
  <2>1. TAKE h \in Hosts
  <2>2. address[h] \in AddressRow /\ RowInv(h)
    BY DEF DhcpInv, DhcpTypeOK
  <2>3. address'[h] = [address[h] EXCEPT !.placed = FALSE]
    BY DEF UncoverPool
  <2>4. /\ address'[h] \in AddressRow /\ address'[h].id = address[h].id
        /\ address'[h].status = address[h].status /\ address'[h].link = address[h].link
        /\ address'[h].typed = address[h].typed /\ address'[h].managed = address[h].managed
    BY <2>2, <2>3 DEF AddressRow
  <2>5. address[h] = NoAddress => address'[h] = NoAddress
    <3>1. NoAddress.placed = FALSE /\ NoAddress \in AddressRow
      BY DEF NoAddress, AddressRow
    <3>2. [NoAddress EXCEPT !.placed = FALSE] = NoAddress
      BY <3>1 DEF AddressRow
    <3>3. QED
      BY <2>3, <3>2
  <2>6. QED
    BY <2>2, <2>4, <2>5
<1>3. DhcpTypeOK'
  <2>1. address' \in [Hosts -> AddressRow]
    BY <1>2 DEF UncoverPool
  <2>2. happened' \in 0 .. MaxHappened
    BY HappenedCounts DEF UncoverPool
  <2>3. Booked' = Booked
    BY <1>1 DEF Booked
  <2>4. QED
    BY <1>1, <1>2, <2>1, <2>2, <2>3 DEF DhcpInv, DhcpTypeOK
<1>4. \A h \in Hosts : RowInv(h)'
  BY <1>1, <1>2 DEF RowInv
<1>5. \A t \in Clerks \cup Pushes : ClerkInv(t)'
  <2>1. TAKE t \in Clerks \cup Pushes
  <2>2. ClerkInv(t) /\ (clerk[t].step = "write" => clerk[t].host \in Hosts)
    BY DEF DhcpInv, ClerkInv
  <2>3. QED
    BY <1>1, <1>2, <2>2 DEF ClerkInv, Booked
<1>6. \A l \in LeaseRuns : RunInv(l)'
  BY <1>1, <1>2, RunSeesRows
<1>7. ReservedTellsReservation'
  <2>1. Settled' = Settled /\ Booked' = Booked
    BY <1>1, SameSettled DEF Booked
  <2>2. \A r \in Settled : booked[r] \in Hosts
    BY DEF Settled, Booked, DhcpInv, DhcpTypeOK
  <2>3. QED
    BY <1>1, <1>2, <2>1, <2>2 DEF DhcpInv, ReservedTellsReservation
<1>8. QED
  BY <1>1, <1>3, <1>4, <1>5, <1>6, <1>7 DEF DhcpInv

-----------------------------------------------------------------------------
(* The theorems.                                                           *)

LEMMA InitHasInv ==
  ASSUME DhcpInit
  PROVE  DhcpInv
<1> DEFINE r == CHOOSE r \in Reservations : TRUE
           i == CHOOSE i \in RowIds : TRUE
           row == ReservedRow([NoAddress EXCEPT !.id = i], r)
<1>1. NoAddress \in AddressRow /\ NoAddress.link = NoReservation /\ NoAddress.status = "none"
      /\ ~NoAddress.typed /\ NoAddress.id = NoId
  BY DEF NoAddress, AddressRow
<1>2. r \in Reservations /\ i \in RowIds /\ ipamSubnet = i /\ i # NoId
  BY IdsExist, NoIdIsNone DEF DhcpInit
<1> HIDE DEF r, i
<1>3. /\ row \in AddressRow /\ row.id = i /\ row.status = "reserved" /\ row.link = r
      /\ ~row.typed
  BY <1>2 DEF ReservedRow, NoAddress, AddressRow
<1> HIDE DEF row
<1>4. PICK h \in Hosts \cup {NoHost} :
        /\ booked = [q \in Reservations |-> IF q = r THEN h ELSE NoHost]
        /\ address = [g \in Hosts |-> IF g = h THEN row ELSE NoAddress]
  BY DEF DhcpInit, r, i, row
<1>5. /\ h \in Hosts => Booked = {r} /\ booked[r] = h
      /\ h = NoHost => Booked = {}
  BY <1>2, <1>4, NoHostIsNone DEF Booked, NoHost
<1>6. \A g \in Hosts : address[g] = IF g = h THEN row ELSE NoAddress
  BY <1>4
<1>7. DhcpTypeOK
  <2>1. booked \in [Reservations -> Hosts \cup {NoHost}] /\ address \in [Hosts -> AddressRow]
    BY <1>1, <1>3, <1>4
  <2>2. \A g \in Hosts : address[g].link \in Booked \cup {NoReservation}
    BY <1>1, <1>3, <1>5, <1>6
  <2>3. /\ applied \in [up : BOOLEAN, ids : SUBSET Reservations]
        /\ \A p, q \in Booked : p = q
    BY <1>5 DEF DhcpInit, Booked
  <2>4. clerk \in [Clerks \cup Pushes -> Clerk] /\ leaseRun \in [LeaseRuns -> LeaseRun]
    BY AtRestRests, NoLeaseRunRests DEF DhcpInit
  <2>5. happened \in 0 .. MaxHappened
    BY HappenedIsNat DEF DhcpInit
  <2>6. scope = "active" /\ leases \subseteq Hosts /\ blurred \subseteq Hosts
    BY DEF DhcpInit
  <2>7. QED
    BY <1>2, <2>1, <2>2, <2>3, <2>4, <2>5, <2>6 DEF DhcpTypeOK
<1>8. \A t \in Clerks \cup Pushes : clerk[t] = AtRest
  BY DEF DhcpInit
<1>9. \A g \in Hosts : RowInv(g)
  BY <1>1, <1>2, <1>3, <1>5, <1>6 DEF RowInv
<1>10. \A t \in Clerks \cup Pushes : ClerkInv(t)
  BY <1>8, AtRestRests DEF ClerkInv
<1>11. \A l \in LeaseRuns : RunInv(l)
  BY <1>1, <1>2, <1>3, <1>6, NoLeaseRunRests DEF RunInv, Overtakes, DhcpInit
<1>12. ReservedTellsReservation
  BY <1>1, <1>3, <1>5, <1>6 DEF ReservedTellsReservation, Settled
<1>13. QED
  BY <1>7, <1>8, <1>9, <1>10, <1>11, <1>12, AtRestRests DEF DhcpInv

LEMMA StutterHasInv ==
  ASSUME DhcpInv, UNCHANGED dhcpVars
  PROVE  DhcpInv'
<1>1. UNCHANGED <<scope, booked, ipamSubnet, address, leases, applied, clerk, leaseRun, blurred, happened>>
  BY DEF dhcpVars
<1>2. DhcpTypeOK'
  BY <1>1 DEF DhcpInv, DhcpTypeOK, Booked
<1>3. ReservedTellsReservation'
  BY <1>1, TellingStands, SameSettled
<1>4. QED
  BY <1>1, <1>2, <1>3, RowsStand, ClerkStands, RunStands DEF DhcpInv

LEMMA NextKeepsInv ==
  ASSUME DhcpInv, DhcpNext
  PROVE  DhcpInv'
<1>1. ASSUME NEW a \in Clerks, NEW h \in Hosts,
             CreateReservation(a, h) \/ \E r \in Reservations : ImportReservation(a, r, h)
      PROVE  DhcpInv'
  BY <1>1, CreateKeepsInv
<1>2. ASSUME NEW a \in Clerks, NEW r \in Reservations,
             UpdateReservation(a, r) \/ DeleteReservation(a, r)
      PROVE  DhcpInv'
  BY <1>2, RequestKeepsInv
<1>3. ASSUME (\E a \in Clerks : SwitchScope(a)) \/ SwitchScopeInIpam \/ CoverPool PROVE DhcpInv'
  BY <1>3, SwitchKeepsInv
<1>4. ASSUME (\E a \in Clerks : DeleteScope(a)) \/ DeleteScopeInIpam PROVE DhcpInv'
  BY <1>4, ScopeGoesKeepsInv DEF DeleteScope, DeleteScopeInIpam
<1>5. ASSUME NEW a \in Clerks, CoverFails(a) \/ SyncFails(a) \/ RemoveFails(a) \/ DropFails(a)
      PROVE  DhcpInv'
  BY <1>5, CoverKeepsInv, FailureKeepsInv
<1>6. ASSUME NEW h \in Hosts,
             \/ AddAddress(h, TRUE) \/ AddAddress(h, FALSE)
             \/ EditAddress(h) \/ DeleteAddress(h) \/ LeaseChanges(h)
      PROVE  DhcpInv'
  BY <1>6, AddAddressKeepsInv, EditAddressKeepsInv, DeleteAddressKeepsInv, WorldKeepsInv
<1>7. ASSUME NEW t \in Pushes, StartPush(t) PROVE DhcpInv'
  BY <1>7, PushKeepsInv
<1>8. ASSUME NEW t \in Clerks \cup Pushes, ClerkStep(t) \/ PushFails(t) PROVE DhcpInv'
  BY <1>8, SaveKeepsInv, PushKeepsInv, CoverKeepsInv, LookUpKeepsInv, MarkReservedKeepsInv, RemoveKeepsInv, DropKeepsInv
     DEF ClerkStep
<1>9. ASSUME NEW l \in LeaseRuns, LeaseStep(l) \/ LeaseRunFails(l) PROVE DhcpInv'
  BY <1>9, ReadingRunKeepsInv, LookUpLeaseKeepsInv, MatchSubnetKeepsInv,
     InsertLeasedKeepsInv, MarkLeasedKeepsInv, SelectStaleKeepsInv, SweepKeepsInv DEF LeaseStep
<1>10. ASSUME UncoverPool \/ KeaRestarts \/ BackendRestarts PROVE DhcpInv'
  BY <1>10, UncoverKeepsInv, WorldKeepsInv, RestartKeepsInv
<1>11. QED
  BY <1>1, <1>2, <1>3, <1>4, <1>5, <1>6, <1>7, <1>8, <1>9, <1>10 DEF DhcpNext

\* What rows, handlers and runs know of each other, at every step.
THEOREM DhcpInvariance == DhcpSpec => []DhcpInv
<1>1. DhcpInit => DhcpInv
  BY InitHasInv
<1>2. DhcpInv /\ [DhcpNext]_dhcpVars => DhcpInv'
  BY NextKeepsInv, StutterHasInv
<1>3. QED
  BY <1>1, <1>2, PTL DEF DhcpSpec

\* IPAM shows an address as reserved for every reservation whose handler is done, and
\* for no other (dhcpIpamSync.js, dhcpLeaseIpamSync.js).
THEOREM ReservationsAreTold == DhcpSpec => []ReservedTellsReservation
<1>1. DhcpInv => ReservedTellsReservation
  BY DEF DhcpInv
<1>2. QED
  BY <1>1, DhcpInvariance, PTL

LEMMA TypedRowStays ==
  ASSUME DhcpInv, DhcpInv', [DhcpNext]_dhcpVars, NEW h \in Hosts, address[h].typed,
         h \notin blurred, ~DeleteAddress(h)
  PROVE  address'[h].typed
<1>1. address[h] \in AddressRow /\ address[h] # NoAddress
  BY DEF DhcpInv, DhcpTypeOK, NoAddress
<1>2. CASE UNCHANGED address
  BY <1>2
<1>3. ASSUME NEW g \in Hosts, NEW record,
             address' = [address EXCEPT ![g] = record], g = h => record.typed
      PROVE  address'[h].typed
  BY <1>3 DEF DhcpInv, DhcpTypeOK
<1>4. ASSUME NEW g \in Hosts, AddAddress(g, TRUE) \/ AddAddress(g, FALSE)
      PROVE  address'[h].typed
  <2>1. g # h
    BY <1>1, <1>4 DEF AddAddress
  <2>2. QED
    BY <1>3, <1>4, <2>1 DEF AddAddress, SetAddress
<1>5. ASSUME NEW g \in Hosts, EditAddress(g) PROVE address'[h].typed
  <2>1. address[g] \in AddressRow
    BY DEF DhcpInv, DhcpTypeOK
  <2>2. [address[g] EXCEPT !.managed = FALSE, !.typed = TRUE].typed
    BY <2>1 DEF AddressRow
  <2>3. QED
    BY <1>3, <1>5, <2>2 DEF EditAddress, SetAddress
<1>6. ASSUME NEW g \in Hosts, DeleteAddress(g) PROVE address'[h].typed
  BY <1>3, <1>6 DEF DeleteAddress, SetAddress
<1>7. ASSUME NEW gone, Unlink(gone) PROVE address'[h].typed
  BY <1>1, <1>7 DEF Unlink, AddressRow
<1>8. ASSUME NEW t \in Clerks \cup Pushes, RemoveFromIpam(t) PROVE address'[h].typed
  <2>1. \/ address'[h] = address[h]
        \/ \E status : address'[h] = [address[h] EXCEPT !.status = status,
                                                        !.link = NoReservation]
    BY <1>8 DEF RemoveFromIpam
  <2>2. QED
    BY <1>1, <2>1 DEF AddressRow
<1>9. ASSUME NEW t \in Clerks \cup Pushes, MarkReserved(t) PROVE address'[h].typed
  <2> DEFINE g == clerk[t].host
             row == IF address[g] = NoAddress
                    THEN [NoAddress EXCEPT !.id = FreshRow] ELSE address[g]
             record == ReservedRow(row, clerk[t].id)
  <2>1. g \in Hosts
    BY <1>9 DEF MarkReserved, DhcpInv, ClerkInv
  <2>2. UNCHANGED address \/ address' = [address EXCEPT ![g] = record]
    BY <1>9 DEF MarkReserved, SetAddress
  <2>3. g = h => record.typed
    BY <1>1 DEF AddressRow, ReservedRow
  <2> HIDE DEF record
  <2>4. QED
    BY <1>2, <1>3, <2>1, <2>2, <2>3
<1>10. ASSUME NEW l \in LeaseRuns, InsertLeased(l) PROVE address'[h].typed
  <2>1. leaseRun[l].host \in Hosts
    BY <1>10 DEF InsertLeased, DhcpInv, RunInv
  <2>2. CASE UNCHANGED address
    BY <1>2, <2>2
  <2>3. CASE ~UNCHANGED address
    BY <1>1, <1>3, <1>10, <2>1, <2>3 DEF InsertLeased, SetAddress
  <2>4. QED
    BY <2>2, <2>3
<1>11. ASSUME NEW l \in LeaseRuns, MarkLeased(l) PROVE address'[h].typed
  <2> DEFINE g == leaseRun[l].host
  <2>1. g \in Hosts
    BY <1>11 DEF MarkLeased, DhcpInv, RunInv
  <2>2. [address[h] EXCEPT !.status = "leased"].typed
    BY <1>1 DEF AddressRow
  <2>3. \/ UNCHANGED address
        \/ address' = [address EXCEPT ![g] = [address[g] EXCEPT !.status = "leased"]]
    BY <1>11 DEF MarkLeased, SetAddress
  <2>4. QED
    BY <1>2, <1>3, <2>1, <2>2, <2>3
<1>12. ASSUME NEW l \in LeaseRuns, NEW s \in leaseRun[l].stale, Sweep(l, s)
       PROVE  address'[h].typed
  <2>1. s \in [host : Hosts, id : RowIds, managed : BOOLEAN]
    BY DEF DhcpInv, DhcpTypeOK, LeaseRun
  <2>2. s.host \in Hosts
    BY <2>1
  <2>3. CASE address[s.host].id # s.id
    BY <1>2, <1>12, <2>3 DEF Sweep
  <2>4. CASE address[s.host].id = s.id /\ s.managed
    <3>1. s.host # h
      BY <1>1, <2>4 DEF DhcpInv, RunInv
    <3>2. address' = [address EXCEPT ![s.host] = NoAddress]
      BY <1>12, <2>4 DEF Sweep, SetAddress
    <3>3. QED
      BY <1>3, <2>2, <3>1, <3>2
  <2>5. CASE address[s.host].id = s.id /\ ~s.managed
    <3>1. address' = [address EXCEPT ![s.host] = [address[s.host] EXCEPT !.status = "static"]]
      BY <1>12, <2>5 DEF Sweep, SetAddress
    <3>2. [address[h] EXCEPT !.status = "static"].typed
      BY <1>1 DEF AddressRow
    <3>3. QED
      BY <1>3, <2>2, <3>1, <3>2
  <2>6. QED
    BY <2>3, <2>4, <2>5
<1>13. CASE UNCHANGED dhcpVars
  BY <1>2, <1>13 DEF dhcpVars
<1>14. ASSUME NEW a \in Clerks,
              \/ \E g \in Hosts : CreateReservation(a, g)
              \/ \E r \in Reservations, g \in Hosts : ImportReservation(a, r, g)
              \/ \E r \in Reservations : UpdateReservation(a, r) \/ DeleteReservation(a, r)
              \/ SwitchScope(a) \/ DeleteScope(a)
              \/ CoverFails(a) \/ SyncFails(a) \/ RemoveFails(a) \/ DropFails(a)
       PROVE  address'[h].typed
  BY <1>2, <1>7, <1>14 DEF CreateReservation, ImportReservation, UpdateReservation,
     DeleteReservation, SwitchScope, ScopeTurns, DeleteScope, ScopeGoes, CoverFails, SyncFails,
     RemoveFails, DropFails
<1>15. ASSUME NEW t \in Clerks \cup Pushes, StartPush(t) \/ ClerkStep(t) \/ PushFails(t)
       PROVE  address'[h].typed
  BY <1>2, <1>7, <1>8, <1>9, <1>15 DEF StartPush, ClerkStep, SaveReservation, PushFails,
     ReadScope, ReadReservations, ApplySubnets, FindSubnet, AddSubnet, LookUp, DropReservation
<1>16. ASSUME NEW l \in LeaseRuns, LeaseStep(l) \/ LeaseRunFails(l) PROVE address'[h].typed
  BY <1>2, <1>10, <1>11, <1>12, <1>16 DEF LeaseStep, LeaseRunFails, GetLeases, SelectStale,
     LookUpLease, MatchSubnet
<1>17. ASSUME \/ KeaRestarts \/ BackendRestarts \/ \E g \in Hosts : LeaseChanges(g)
              \/ SwitchScopeInIpam \/ DeleteScopeInIpam \/ CoverPool
       PROVE  address'[h].typed
  BY <1>2, <1>7, <1>17 DEF KeaRestarts, BackendRestarts, LeaseChanges, SwitchScopeInIpam,
     ScopeTurns, DeleteScopeInIpam, ScopeGoes, CoverPool
<1>18. CASE UncoverPool
  BY <1>1, <1>18 DEF UncoverPool, AddressRow
<1>19. QED
  BY <1>4, <1>5, <1>6, <1>13, <1>14, <1>15, <1>16, <1>17, <1>18 DEF DhcpNext

\* A row an admin created or saved goes only when an admin deletes it: neither the
\* lease job nor a reservation that comes or goes takes it (dhcpLeaseIpamSync.js).
THEOREM TypedRowsAreKept == DhcpSpec => TypedRowsStay
<1>1. DhcpInv /\ DhcpInv' /\ [DhcpNext]_dhcpVars =>
        [\A h \in Hosts : address[h].typed =>
           address'[h].typed \/ DeleteAddress(h) \/ h \in blurred]_dhcpVars
  BY TypedRowStays
<1>2. QED
  BY <1>1, DhcpInvariance, PTL DEF DhcpSpec, TypedRowsStay

-----------------------------------------------------------------------------
(* The composition.                                                        *)

\* A step of the composition is one of each part, or leaves the part alone.
LEMMA ClusterSteps ==
  ClusterSpec => Spec /\ DhcpSpec
<1>1. ClusterInit => Init /\ DhcpInit
  BY DEF ClusterInit
<1>2. ASSUME [/\ \/ part = "roles" /\ Next /\ UNCHANGED dhcpVars
                 \/ part = "dhcp" /\ DhcpNext /\ UNCHANGED vars
              /\ UNCHANGED part]_clusterVars
      PROVE  [Next]_vars /\ [DhcpNext]_dhcpVars
  BY <1>2 DEF clusterVars
<1> QED
  BY <1>1, <1>2, PTL DEF ClusterSpec, Spec, DhcpSpec

\* What the runs of the composition check of both parts at once.
THEOREM ClusterTypeCorrect == ClusterSpec => []ClusterTypeOK
<1>1. DhcpInv => DhcpTypeOK
  BY DEF DhcpInv
<1> QED
  BY <1>1, ClusterSteps, TypeCorrect, DhcpInvariance, PTL DEF ClusterTypeOK
==============================================================================
