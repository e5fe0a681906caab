------------------------------ MODULE DhcpIpam ------------------------------
(***************************************************************************)
(* One DHCP scope, its reservations, and what Kea and IPAM make of them    *)
(* (backend/src/services/dhcpReservations.js, dhcpKeaSync.js,              *)
(* dhcpIpamSync.js, dhcpLeaseIpamSync.js, windowsDhcpImport.js, their      *)
(* routes and cron jobs).                                                  *)
(*                                                                         *)
(* An admin's change of a scope or a reservation is one statement; then    *)
(* the handler pushes the tables to Kea and writes the reservation to the  *)
(* address table of IPAM, each in several steps that may fail alone. A job *)
(* writes Kea's leases to the same address rows, by what a SELECT told it  *)
(* some statements ago. Nothing keeps any two of these apart.              *)
(*                                                                         *)
(* Left out: what a reservation says (its MAC address and names), options, *)
(* and DHCPv6; nested IPAM subnets (one row covers the pool, or none) and  *)
(* imports of several reservations at once. A new row's id is one that     *)
(* nothing refers to (any more).                                           *)
(* External: Postgres (one statement is atomic), Kea (one command is).     *)
(***************************************************************************)
EXTENDS Naturals

CONSTANTS
  Hosts,         \* the addresses in the scope's pool
  Reservations,  \* the ids of dhcp_reservations, NoReservation is none of them
  NoReservation,
  RowIds,        \* the ids of the rows of IPAM, NoId is none of them
  NoId,
  Clerks,        \* bound: the admins' requests under way at once
  Pushes,        \* the runs of dhcpKeaSync that no change starts: cron, the button
  LeaseRuns,     \* the runs of dhcpLeaseIpamSync
  MaxHappened    \* bound: what admins do, leases that change, failures, restarts

ASSUME NoReservationIsNone == NoReservation \notin Reservations
ASSUME NoIdIsNone == NoId \notin RowIds
ASSUME IdsExist == RowIds # {} /\ Reservations # {}
ASSUME NoHostIsNone == "none" \notin Hosts
ASSUME PushesAreNoRequests == Pushes \cap Clerks = {}
ASSUME HappenedIsNat == MaxHappened \in Nat

VARIABLES
  scope,     \* dhcp_subnets: the row of the scope
  booked,    \* dhcp_reservations: booked[r] is the address r reserves, or nothing
  ipamSubnet, \* ipam_subnets: the id of the row that covers the pool, or NoId
  address,   \* ip_addresses: the row of an address
  leases,    \* the active leases in Kea
  applied,   \* what Kea's running configuration serves
  clerk,     \* clerk[t]: where a handler, or a push, is
  leaseRun,  \* leaseRun[l]: where a run of dhcpLeaseIpamSync is
  blurred,   \* history: the addresses whose row a failure, or a race that is named
             \* where it is recorded, may have spoiled
  happened

dhcpVars == <<scope, booked, ipamSubnet, address, leases, applied, clerk, leaseRun, blurred, happened>>

NoHost == "none"
NoAddress == [id |-> NoId, status |-> "none", managed |-> FALSE, link |-> NoReservation,
              placed |-> FALSE, typed |-> FALSE]
NothingServed == [up |-> FALSE, ids |-> {}]
AtRest == [step |-> "idle", id |-> NoReservation, host |-> NoHost, found |-> NoId,
           up |-> FALSE, ids |-> {}, covers |-> FALSE]
NoLeaseRun == [step |-> "idle", host |-> NoHost, found |-> NoId, subnet |-> NoId, seen |-> {},
               todo |-> {}, stale |-> {}]

\* managed is lease_managed, link is dhcp_reservation_id, placed that ipam_subnet_id is
\* set. typed is history: an admin created the row or saved the Edit modal on it.
AddressRow == [id : RowIds \cup {NoId}, status : {"none", "static", "reserved", "leased"},
               managed : BOOLEAN, link : Reservations \cup {NoReservation},
               placed : BOOLEAN, typed : BOOLEAN]

\* covers: syncSubnetToIpam comes after the push.
Clerk == [step : {"idle", "save", "scope", "reservations", "apply", "findSubnet", "addSubnet",
                  "lookUp", "write", "remove", "delete"},
          id : Reservations \cup {NoReservation}, host : Hosts \cup {NoHost},
          found : RowIds \cup {NoId}, up : BOOLEAN, ids : SUBSET Reservations, covers : BOOLEAN]
LeaseRun == [step : {"idle", "next", "match", "insert", "update", "sweep"},
             host : Hosts \cup {NoHost}, found : RowIds \cup {NoId},
             subnet : RowIds \cup {NoId}, seen : SUBSET Hosts, todo : SUBSET Hosts,
             stale : SUBSET [host : Hosts, id : RowIds, managed : BOOLEAN]]

Booked == {r \in Reservations : booked[r] # NoHost}
Reserved == {booked[r] : r \in Booked}

\* The tables and the runs keep their shape, a link is a foreign key and an address
\* and a scope have the rows the UNIQUE constraints allow.
DhcpTypeOK ==
  /\ scope \in {"active", "inactive", "deleted"}
  /\ booked \in [Reservations -> Hosts \cup {NoHost}]
  /\ ipamSubnet \in RowIds \cup {NoId}
  /\ address \in [Hosts -> AddressRow]
  /\ leases \subseteq Hosts
  /\ applied \in [up : BOOLEAN, ids : SUBSET Reservations]
  /\ clerk \in [Clerks \cup Pushes -> Clerk]
  /\ leaseRun \in [LeaseRuns -> LeaseRun]
  /\ blurred \subseteq Hosts
  /\ happened \in 0 .. MaxHappened
  /\ \A h \in Hosts : address[h].link \in Booked \cup {NoReservation}
  /\ \A q, r \in Booked : booked[q] = booked[r] => q = r
  /\ scope = "deleted" => Booked = {}

\* A row marked reserved for r.
ReservedRow(row, r) == [row EXCEPT !.status = "reserved", !.link = r]

\* The scope has been served for a while, with one reservation or none.
DhcpInit ==
  /\ scope = "active"
  /\ ipamSubnet = CHOOSE i \in RowIds : TRUE
  /\ \E h \in Hosts \cup {NoHost} : LET r == CHOOSE r \in Reservations : TRUE IN
       /\ booked = [q \in Reservations |-> IF q = r THEN h ELSE NoHost]
       /\ address = [g \in Hosts |->
            IF g = h THEN ReservedRow([NoAddress EXCEPT !.id = CHOOSE i \in RowIds : TRUE], r)
            ELSE NoAddress]
  /\ applied = [up |-> TRUE, ids |-> Booked]
  /\ leases \in SUBSET Hosts
  /\ clerk = [t \in Clerks \cup Pushes |-> AtRest]
  /\ leaseRun = [l \in LeaseRuns |-> NoLeaseRun]
  /\ blurred = {}
  /\ happened = 0

Happening == happened < MaxHappened /\ happened' = happened + 1
SetClerk(t, record) == clerk' = [clerk EXCEPT ![t] = record]
SetRun(l, record) == leaseRun' = [leaseRun EXCEPT ![l] = record]
SetAddress(h, record) == address' = [address EXCEPT ![h] = record]
Blur(hosts) == blurred' = blurred \cup hosts

\* gen_random_uuid(): an id that nothing refers to, if the bounds leave one.
KnownRows ==
  {address[h].id : h \in Hosts} \cup {clerk[t].found : t \in Clerks \cup Pushes}
    \cup {leaseRun[l].found : l \in LeaseRuns}
    \cup {s.id : s \in UNION {leaseRun[l].stale : l \in LeaseRuns}}
FreshRow == CHOOSE i \in RowIds : i \notin KnownRows
RowIdsLeft == ~(RowIds \subseteq KnownRows)
KnownSubnets == {leaseRun[l].subnet : l \in LeaseRuns}
FreshSubnet == CHOOSE i \in RowIds : i \notin KnownSubnets
SubnetIdsLeft == ~(RowIds \subseteq KnownSubnets)
FreshReservations ==
  Reservations \ (Booked \cup applied.ids
                    \cup UNION {clerk[t].ids \cup {clerk[t].id} : t \in Clerks \cup Pushes})

\* The address whose row a request leaves wrong if it ends where it is: of a reservation
\* that is to go, wherever it is by now; and none before anything is written.
AtStake(t) ==
  CASE clerk[t].step = "save" -> {}
    [] clerk[t].step \in {"remove", "delete"} -> {booked[clerk[t].id]} \ {NoHost}
    [] OTHER -> {clerk[t].host} \ {NoHost}

\* Run l is about to write to the row of h, by an id it read before.
Overtakes(l, h) ==
  /\ address[h] # NoAddress
  /\ address[h].id \in {leaseRun[l].found} \cup {s.id : s \in leaseRun[l].stale}

-----------------------------------------------------------------------------
(* The handlers of routes/dhcp.js and routes/ipam.js: the first statement. *)

\* dhcpKeaSync.run, on behalf of whatever the handler does afterwards.
ThenPush(t, id, host, covers) ==
  SetClerk(t, [AtRest EXCEPT !.step = "scope", !.id = id, !.host = host, !.covers = covers])

\* createReservation: the INSERT, with its foreign key and its UNIQUE constraint.
CreateReservation(a, h) ==
  /\ Happening /\ clerk[a] = AtRest
  /\ scope # "deleted" /\ h \notin Reserved /\ FreshReservations # {}
  /\ LET r == CHOOSE r \in FreshReservations : TRUE IN
       /\ booked' = [booked EXCEPT ![r] = h]
       /\ ThenPush(a, r, h, FALSE)
  /\ UNCHANGED <<scope, ipamSubnet, address, leases, applied, leaseRun, blurred>>

\* Reservation r gets address h, if no other has it. Nobody tells IPAM of the address it
\* had: that row stays reserved for r.
MoveTo(r, h) ==
  /\ booked' = [booked EXCEPT ![r] = h]
  /\ Blur({booked[r]} \ {NoHost, h})

\* POST /import-windows-scope, of one reservation: its transaction, which makes the
\* scope where there is none, and the reservation or "DO UPDATE SET ip_address".
ImportReservation(a, r, h) ==
  /\ Happening /\ clerk[a] = AtRest
  /\ r \in Booked \/ (FreshReservations # {} /\ r = CHOOSE q \in FreshReservations : TRUE)
  /\ h \notin Reserved \ {booked[r]}
  /\ scope' = IF scope = "deleted" THEN "active" ELSE scope
  /\ MoveTo(r, h)
  /\ ThenPush(a, r, h, TRUE)
  /\ UNCHANGED <<ipamSubnet, address, leases, applied, leaseRun>>

\* PUT /reservations/:id: the SELECT. (A request that names an address is refused:
\* ipInPool is given the pool of dhcp_reservations, which has none.)
UpdateReservation(a, r) ==
  /\ Happening /\ clerk[a] = AtRest /\ r \in Booked
  /\ SetClerk(a, [AtRest EXCEPT !.step = "save", !.id = r, !.host = booked[r]])
  /\ UNCHANGED <<scope, booked, ipamSubnet, address, leases, applied, leaseRun, blurred>>

\* Its UPDATE, which writes the address that was read back: over an import's, unless
\* another reservation has it by now.
SaveReservation(t) ==
  LET r == clerk[t].id
      h == clerk[t].host
  IN /\ clerk[t].step = "save"
     /\ IF r \in Booked /\ h \notin Reserved \ {booked[r]}
        THEN MoveTo(r, h) /\ ThenPush(t, r, h, FALSE)
        ELSE /\ IF r \in Booked THEN SetClerk(t, AtRest)
                ELSE ThenPush(t, NoReservation, NoHost, FALSE)
             /\ UNCHANGED <<booked, blurred>>
     /\ UNCHANGED <<scope, ipamSubnet, address, leases, applied, leaseRun, happened>>

\* deleteReservation: the SELECT.
DeleteReservation(a, r) ==
  /\ Happening /\ clerk[a] = AtRest /\ r \in Booked
  /\ SetClerk(a, [AtRest EXCEPT !.step = "remove", !.id = r])
  /\ UNCHANGED <<scope, booked, ipamSubnet, address, leases, applied, leaseRun, blurred>>

\* The scope is made, or switched on or off.
ScopeTurns ==
  /\ scope' = IF scope = "active" THEN "inactive" ELSE "active"
  /\ UNCHANGED <<booked, ipamSubnet, address, leases, applied, leaseRun, blurred>>

\* POST /subnets, and PUT /subnets/:id with is_active.
SwitchScope(a) ==
  Happening /\ clerk[a] = AtRest /\ ScopeTurns /\ ThenPush(a, NoReservation, NoHost, TRUE)

\* The same from the pages of IPAM, which push nothing.
SwitchScopeInIpam == Happening /\ ScopeTurns /\ UNCHANGED clerk

\* ON DELETE SET NULL, of the reservations that go.
Unlink(gone) ==
  address' = [h \in Hosts |-> IF address[h].link \in gone
                              THEN [address[h] EXCEPT !.link = NoReservation]
                              ELSE address[h]]

\* The reservations go with their scope (ON DELETE CASCADE), and no handler tells IPAM:
\* the addresses they reserved stay reserved there.
ScopeGoes ==
  /\ scope # "deleted" /\ scope' = "deleted"
  /\ booked' = [r \in Reservations |-> NoHost]
  /\ Unlink(Booked)
  /\ Blur(Reserved)
  /\ UNCHANGED <<ipamSubnet, leases, applied, leaseRun>>

\* DELETE /subnets/:id of the routes of DHCP, and of those of IPAM, which push nothing.
DeleteScope(a) ==
  Happening /\ clerk[a] = AtRest /\ ScopeGoes /\ ThenPush(a, NoReservation, NoHost, FALSE)

DeleteScopeInIpam == Happening /\ ScopeGoes /\ UNCHANGED clerk

\* POST /ipam-subnets of one that covers the pool.
CoverPool ==
  /\ Happening /\ ipamSubnet = NoId /\ SubnetIdsLeft
  /\ ipamSubnet' = FreshSubnet
  /\ UNCHANGED <<scope, booked, address, leases, applied, clerk, leaseRun, blurred>>

\* DELETE /ipam-subnets/:id: the rows of its addresses stay (ON DELETE SET NULL).
UncoverPool ==
  /\ Happening /\ ipamSubnet # NoId
  /\ ipamSubnet' = NoId
  /\ address' = [h \in Hosts |-> [address[h] EXCEPT !.placed = FALSE]]
  /\ UNCHANGED <<scope, booked, leases, applied, clerk, leaseRun, blurred>>

\* POST of an address, on the page of its subnet or of the DHCP module.
AddAddress(h, placed) ==
  /\ Happening /\ address[h] = NoAddress /\ RowIdsLeft
  /\ placed => ipamSubnet # NoId
  /\ SetAddress(h, [NoAddress EXCEPT !.id = FreshRow, !.status = "static",
                                     !.placed = placed, !.typed = TRUE])
  /\ UNCHANGED <<scope, booked, ipamSubnet, leases, applied, clerk, leaseRun, blurred>>

\* Mutant: the row is not claimed.
EditAddressOnly(h) ==
  /\ Happening /\ address[h].placed
  /\ SetAddress(h, [address[h] EXCEPT !.typed = TRUE])
  /\ Blur({g \in {h} : \E l \in LeaseRuns : Overtakes(l, g)})
  /\ UNCHANGED <<scope, booked, ipamSubnet, leases, applied, clerk, leaseRun>>

\* PUT of an address, on the page of its subnet, where a row without one is not: "claim
\* the row away from the lease-sync job". A run that has read the row as its own to
\* delete does not notice.
EditAddress(h) ==
  /\ Happening /\ address[h].placed
  /\ SetAddress(h, [address[h] EXCEPT !.managed = FALSE, !.typed = TRUE])
  /\ Blur({g \in {h} : \E l \in LeaseRuns : Overtakes(l, g)})
  /\ UNCHANGED <<scope, booked, ipamSubnet, leases, applied, clerk, leaseRun>>

\* The row of h goes: a handler that has read its id will update nothing.
Awaited(h) == \E t \in Clerks : clerk[t].step = "write" /\ clerk[t].found = address[h].id

\* DELETE of an address, reserved or not.
DeleteAddress(h) ==
  /\ Happening /\ address[h] # NoAddress
  /\ SetAddress(h, NoAddress)
  /\ Blur({h} \cap (Reserved \cup {g \in Hosts : Awaited(g)}))
  /\ UNCHANGED <<scope, booked, ipamSubnet, leases, applied, clerk, leaseRun>>

-----------------------------------------------------------------------------
(* dhcpKeaSync.run: the tables one after the other, then config-set.       *)

\* The cron job, every ten minutes, and POST /sync-kea.
StartPush(t) ==
  /\ clerk[t] = AtRest
  /\ ThenPush(t, NoReservation, NoHost, FALSE)
  /\ UNCHANGED <<scope, booked, ipamSubnet, address, leases, applied, leaseRun, blurred, happened>>

ReadScope(t) ==
  /\ clerk[t].step = "scope"
  /\ SetClerk(t, [clerk[t] EXCEPT !.step = "reservations", !.up = (scope = "active")])
  /\ UNCHANGED <<scope, booked, ipamSubnet, address, leases, applied, leaseRun, blurred, happened>>

ReadReservations(t) ==
  /\ clerk[t].step = "reservations"
  /\ SetClerk(t, [clerk[t] EXCEPT !.step = "apply", !.ids = Booked])
  /\ UNCHANGED <<scope, booked, ipamSubnet, address, leases, applied, leaseRun, blurred, happened>>

\* The handler of a reservation goes on to IPAM.
ThenReservation(t) ==
  SetClerk(t, IF clerk[t].id = NoReservation THEN AtRest
              ELSE [AtRest EXCEPT !.step = "lookUp", !.id = clerk[t].id,
                                  !.host = clerk[t].host])

\* The push is over, well or not.
AfterPush(t) ==
  IF clerk[t].covers
  THEN SetClerk(t, [AtRest EXCEPT !.step = "findSubnet", !.id = clerk[t].id,
                                  !.host = clerk[t].host])
  ELSE ThenReservation(t)

\* Mutant: nothing to serve is nothing to push.
ApplySome(t) ==
  /\ clerk[t].step = "apply"
  /\ applied' = IF clerk[t].up THEN [up |-> TRUE, ids |-> clerk[t].ids] ELSE applied
  /\ AfterPush(t)
  /\ UNCHANGED <<scope, booked, ipamSubnet, address, leases, leaseRun, blurred, happened>>

\* applySubnets: the whole subnet4 list is replaced.
ApplySubnets(t) ==
  /\ clerk[t].step = "apply"
  /\ applied' = IF clerk[t].up THEN [up |-> TRUE, ids |-> clerk[t].ids] ELSE NothingServed
  /\ AfterPush(t)
  /\ UNCHANGED <<scope, booked, ipamSubnet, address, leases, leaseRun, blurred, happened>>

\* Kea does not answer, or a statement fails: a warning in the log.
PushFails(t) ==
  /\ Happening /\ clerk[t].step \in {"scope", "reservations", "apply"}
  /\ AfterPush(t)
  /\ UNCHANGED <<scope, booked, ipamSubnet, address, leases, applied, leaseRun, blurred>>

-----------------------------------------------------------------------------
(* dhcpIpamSync.js, called by the handlers of a scope and a reservation.   *)

\* syncSubnetToIpam: the SELECT. The UPDATE of the row it finds writes nothing modelled.
FindSubnet(t) ==
  /\ clerk[t].step = "findSubnet"
  /\ IF ipamSubnet # NoId THEN ThenReservation(t)
     ELSE SetClerk(t, [clerk[t] EXCEPT !.step = "addSubnet"])
  /\ UNCHANGED <<scope, booked, ipamSubnet, address, leases, applied, leaseRun, blurred, happened>>

\* The INSERT, refused if the row has come since.
AddSubnet(t) ==
  /\ clerk[t].step = "addSubnet" /\ SubnetIdsLeft
  /\ ipamSubnet' = IF ipamSubnet = NoId THEN FreshSubnet ELSE ipamSubnet
  /\ ThenReservation(t)
  /\ UNCHANGED <<scope, booked, address, leases, applied, leaseRun, blurred, happened>>

\* "IPAM syncSubnet failed", in the log.
CoverFails(t) ==
  /\ Happening /\ clerk[t].step \in {"findSubnet", "addSubnet"}
  /\ ThenReservation(t)
  /\ UNCHANGED <<scope, booked, ipamSubnet, address, leases, applied, leaseRun, blurred>>

\* syncReservationToIpam: the SELECT by address.
LookUp(t) ==
  /\ clerk[t].step = "lookUp"
  /\ SetClerk(t, [clerk[t] EXCEPT !.step = "write", !.found = address[clerk[t].host].id])
  /\ UNCHANGED <<scope, booked, ipamSubnet, address, leases, applied, leaseRun, blurred, happened>>

\* The UPDATE of the row that was found, or the INSERT, which updates the row that has
\* come since. Neither refers to a reservation that has gone. A run of the lease job
\* that read the row before, or a handler that has cleaned it up and is about to
\* delete the reservation, overtakes this.
MarkReserved(t) ==
  LET h == clerk[t].host
      r == clerk[t].id
      writes == r \in Booked /\ clerk[t].found \in {NoId, address[h].id}
      row == IF address[h] = NoAddress
             THEN [NoAddress EXCEPT !.id = FreshRow] ELSE address[h]
  IN /\ clerk[t].step = "write"
     /\ address[h] = NoAddress => RowIdsLeft
     /\ SetClerk(t, AtRest)
     /\ IF writes
        THEN /\ SetAddress(h, ReservedRow(row, r))
             /\ IF \/ \E l \in LeaseRuns : Overtakes(l, h)
                   \/ \E c \in Clerks : clerk[c].step = "delete" /\ clerk[c].id = r
                THEN Blur({h}) ELSE UNCHANGED blurred
        ELSE UNCHANGED <<address, blurred>>
     /\ UNCHANGED <<scope, booked, ipamSubnet, leases, applied, leaseRun, happened>>

\* "IPAM syncReservation failed", in the log.
SyncFails(t) ==
  /\ Happening /\ clerk[t].step \in {"lookUp", "write"}
  /\ SetClerk(t, AtRest)
  /\ Blur({clerk[t].host})
  /\ UNCHANGED <<scope, booked, ipamSubnet, address, leases, applied, leaseRun>>

\* removeReservationFromIpam: the address stays documented, as static.
RemoveFromIpam(t) ==
  LET r == clerk[t].id IN
  /\ clerk[t].step = "remove"
  /\ address' = [h \in Hosts |->
       IF address[h].link # r THEN address[h]
       ELSE [address[h] EXCEPT
               !.status = IF @ = "reserved" THEN "static" ELSE @,
               !.link = NoReservation]]
  /\ SetClerk(t, [clerk[t] EXCEPT !.step = "delete"])
  /\ UNCHANGED <<scope, booked, ipamSubnet, leases, applied, leaseRun, blurred, happened>>

\* "IPAM removeReservation failed", in the log: the reservation is deleted all the same.
RemoveFails(t) ==
  /\ Happening /\ clerk[t].step = "remove"
  /\ SetClerk(t, [clerk[t] EXCEPT !.step = "delete"])
  /\ Blur(AtStake(t))
  /\ UNCHANGED <<scope, booked, ipamSubnet, address, leases, applied, leaseRun>>

DropReservation(t) ==
  /\ clerk[t].step = "delete"
  /\ booked' = [booked EXCEPT ![clerk[t].id] = NoHost]
  /\ Unlink({clerk[t].id})
  /\ ThenPush(t, NoReservation, NoHost, FALSE)
  /\ UNCHANGED <<scope, ipamSubnet, leases, applied, leaseRun, blurred, happened>>

\* The DELETE throws: the reservation stays and IPAM has forgotten it.
DropFails(t) ==
  /\ Happening /\ clerk[t].step = "delete"
  /\ SetClerk(t, AtRest)
  /\ Blur(AtStake(t))
  /\ UNCHANGED <<scope, booked, ipamSubnet, address, leases, applied, leaseRun>>

-----------------------------------------------------------------------------
(* dhcpLeaseIpamSync.run, every two minutes and by POST /sync-leases-ipam. *)

GetLeases(l) ==
  /\ leaseRun[l].step = "idle"
  /\ SetRun(l, [NoLeaseRun EXCEPT !.step = "next", !.seen = leases, !.todo = leases])
  /\ UNCHANGED <<scope, booked, ipamSubnet, address, leases, applied, clerk, blurred, happened>>

\* The run goes on to lease h: to its row, or to the subnet of a row to be.
Consider(l, h) ==
  SetRun(l, [leaseRun[l] EXCEPT !.todo = @ \ {h}, !.host = h, !.found = address[h].id,
                                !.step = IF address[h] = NoAddress THEN "match" ELSE "update"])

\* Mutant: a lease is a lease.
LookUpAnyLease(l, h) ==
  /\ leaseRun[l].step = "next" /\ h \in leaseRun[l].todo
  /\ Consider(l, h)
  /\ UNCHANGED <<scope, booked, ipamSubnet, address, leases, applied, clerk, blurred, happened>>

\* The SELECT for one lease: "reservation stays authoritative".
LookUpLease(l, h) ==
  /\ leaseRun[l].step = "next" /\ h \in leaseRun[l].todo
  /\ IF address[h].status = "reserved"
     THEN SetRun(l, [leaseRun[l] EXCEPT !.todo = @ \ {h}])
     ELSE Consider(l, h)
  /\ UNCHANGED <<scope, booked, ipamSubnet, address, leases, applied, clerk, blurred, happened>>

NextLease(l) ==
  SetRun(l, [leaseRun[l] EXCEPT !.step = "next", !.host = NoHost, !.found = NoId, !.subnet = NoId])

\* "no documented subnet covers this IP": the lease is passed over.
MatchSubnet(l) ==
  /\ leaseRun[l].step = "match"
  /\ IF ipamSubnet = NoId THEN NextLease(l)
     ELSE SetRun(l, [leaseRun[l] EXCEPT !.step = "insert", !.subnet = ipamSubnet])
  /\ UNCHANGED <<scope, booked, ipamSubnet, address, leases, applied, clerk, blurred, happened>>

\* ON CONFLICT (ip) DO NOTHING; and the run ends if the subnet has gone, to which the
\* new row would refer.
InsertLeased(l) ==
  LET h == leaseRun[l].host IN
  /\ leaseRun[l].step = "insert"
  /\ \/ address[h] # NoAddress /\ NextLease(l) /\ UNCHANGED address
     \/ /\ address[h] = NoAddress /\ leaseRun[l].subnet = ipamSubnet /\ RowIdsLeft
        /\ SetAddress(h, [NoAddress EXCEPT !.id = FreshRow, !.status = "leased",
                                           !.managed = TRUE, !.placed = TRUE])
        /\ NextLease(l)
     \/ /\ address[h] = NoAddress /\ leaseRun[l].subnet # ipamSubnet
        /\ SetRun(l, NoLeaseRun) /\ UNCHANGED address
  /\ UNCHANGED <<scope, booked, ipamSubnet, leases, applied, clerk, blurred, happened>>

\* WHERE id is that of the row it found, whatever has become of it.
MarkLeased(l) ==
  LET h == leaseRun[l].host IN
  /\ leaseRun[l].step = "update"
  /\ IF address[h].id = leaseRun[l].found
     THEN SetAddress(h, [address[h] EXCEPT !.status = "leased"])
     ELSE UNCHANGED address
  /\ NextLease(l)
  /\ UNCHANGED <<scope, booked, ipamSubnet, leases, applied, clerk, blurred, happened>>

\* The rows marked leased whose lease the run has not seen.
SelectStale(l) ==
  LET gone == {h \in Hosts \ leaseRun[l].seen : address[h].status = "leased"} IN
  /\ leaseRun[l].step = "next" /\ leaseRun[l].todo = {}
  /\ SetRun(l, IF gone = {} THEN NoLeaseRun
               ELSE [NoLeaseRun EXCEPT
                       !.step = "sweep",
                       !.stale = {[host |-> h, id |-> address[h].id,
                                   managed |-> address[h].managed] : h \in gone}])
  /\ UNCHANGED <<scope, booked, ipamSubnet, address, leases, applied, clerk, blurred, happened>>

\* One of them: the row the job made is deleted, any other is static again.
Sweep(l, s) ==
  LET h == s.host
      rest == leaseRun[l].stale \ {s}
  IN /\ leaseRun[l].step = "sweep" /\ s \in leaseRun[l].stale
     /\ SetRun(l, IF rest = {} THEN NoLeaseRun ELSE [leaseRun[l] EXCEPT !.stale = rest])
     /\ CASE address[h].id # s.id -> UNCHANGED <<address, blurred>>
          [] address[h].id = s.id /\ s.managed ->
               /\ SetAddress(h, NoAddress)
               /\ Blur({g \in {h} : Awaited(g)})
          [] address[h].id = s.id /\ ~s.managed ->
               SetAddress(h, [address[h] EXCEPT !.status = "static"]) /\ UNCHANGED blurred
     /\ UNCHANGED <<scope, booked, ipamSubnet, leases, applied, clerk, happened>>

\* A statement fails: the run ends.
LeaseRunFails(l) ==
  /\ Happening /\ leaseRun[l] # NoLeaseRun
  /\ SetRun(l, NoLeaseRun)
  /\ UNCHANGED <<scope, booked, ipamSubnet, address, leases, applied, clerk, blurred>>

-----------------------------------------------------------------------------
(* The world.                                                              *)

LeaseChanges(h) ==
  /\ Happening
  /\ leases' = IF h \in leases THEN leases \ {h} ELSE leases \cup {h}
  /\ UNCHANGED <<scope, booked, ipamSubnet, address, applied, clerk, leaseRun, blurred>>

\* The container "reverts to the static on-disk template (empty subnet4)".
KeaRestarts ==
  /\ Happening
  /\ applied' = NothingServed
  /\ UNCHANGED <<scope, booked, ipamSubnet, address, leases, clerk, leaseRun, blurred>>

BackendRestarts ==
  /\ Happening
  /\ clerk' = [t \in Clerks \cup Pushes |-> AtRest]
  /\ leaseRun' = [l \in LeaseRuns |-> NoLeaseRun]
  /\ Blur(UNION {AtStake(t) : t \in Clerks})
  /\ UNCHANGED <<scope, booked, ipamSubnet, address, leases, applied>>

ClerkStep(t) ==
  \/ SaveReservation(t) \/ ReadScope(t) \/ ReadReservations(t) \/ ApplySubnets(t)
  \/ FindSubnet(t) \/ AddSubnet(t)
  \/ LookUp(t) \/ MarkReserved(t) \/ RemoveFromIpam(t) \/ DropReservation(t)

LeaseStep(l) ==
  \/ GetLeases(l) \/ MatchSubnet(l) \/ InsertLeased(l) \/ MarkLeased(l) \/ SelectStale(l)
  \/ \E h \in Hosts : LookUpLease(l, h)
  \/ \E s \in leaseRun[l].stale : Sweep(l, s)

DhcpNext ==
  \/ \E a \in Clerks : \/ \E h \in Hosts : CreateReservation(a, h)
                       \/ \E r \in Reservations : UpdateReservation(a, r) \/ DeleteReservation(a, r)
                       \/ \E r \in Reservations, h \in Hosts : ImportReservation(a, r, h)
                       \/ SwitchScope(a) \/ DeleteScope(a)
                       \/ CoverFails(a) \/ SyncFails(a) \/ RemoveFails(a) \/ DropFails(a)
  \/ \E h \in Hosts : \/ AddAddress(h, TRUE) \/ AddAddress(h, FALSE)
                      \/ EditAddress(h) \/ DeleteAddress(h) \/ LeaseChanges(h)
  \/ \E t \in Pushes : StartPush(t)
  \/ \E t \in Clerks \cup Pushes : ClerkStep(t) \/ PushFails(t)
  \/ \E l \in LeaseRuns : LeaseStep(l) \/ LeaseRunFails(l)
  \/ SwitchScopeInIpam \/ DeleteScopeInIpam \/ CoverPool \/ UncoverPool
  \/ KeaRestarts \/ BackendRestarts

DhcpSpec == DhcpInit /\ [][DhcpNext]_dhcpVars

\* Node runs the continuation of every await, and cron starts both jobs again and again.
DhcpFairness ==
  /\ \A t \in Clerks : WF_dhcpVars(ClerkStep(t))
  /\ \A t \in Pushes : WF_dhcpVars(StartPush(t) \/ ClerkStep(t))
  /\ \A l \in LeaseRuns : WF_dhcpVars(LeaseStep(l))

-----------------------------------------------------------------------------
(* What must hold.                                                         *)

\* Handler t is working on reservation r, at the address it has.
WorksOn(t, r) == clerk[t].id = r /\ booked[r] \in AtStake(t)

\* The reservations whose handlers are done.
Settled == {r \in Booked : \A t \in Clerks : ~WorksOn(t, r)}

\* "'reserved' always wins over 'leased'", and "a fixed dhcp_reservations row exists":
\* IPAM shows an address as reserved for every reservation whose handler is done,
\* whatever leases the job saw, and for no other reservation - but for the addresses
\* whose row a failure, a move or one of the named races has spoiled.
ReservedTellsReservation ==
  /\ \A r \in Settled : booked[r] \notin blurred =>
       address[booked[r]].status = "reserved" /\ address[booked[r]].link = r
  /\ \A h \in Hosts \ blurred : address[h].status = "reserved" =>
       address[h].link \in Booked /\ booked[address[h].link] = h

\* "We never clobber documentation a human typed in": a row an admin created or saved
\* goes only when an admin deletes it - or under a run of the lease job that had read
\* it as its own before it was saved.
TypedRowsStay ==
  [][\A h \in Hosts : address[h].typed =>
       address'[h].typed \/ DeleteAddress(h) \/ h \in blurred]_dhcpVars

\* "Self-healing": once admins, leases and failures leave it alone, Kea serves what
\* the tables say, whatever older state a slow push has left there, and IPAM shows the
\* leases there are and no others. It leaves out a lease only of an address it has no
\* row of and, with the row that covered the pool deleted, "nothing to attach the row to".
DhcpSettles ==
  <>[](/\ applied = IF scope = "active" THEN [up |-> TRUE, ids |-> Booked] ELSE NothingServed
       /\ \A h \in leases : \/ address[h].status \in {"leased", "reserved"}
                            \/ address[h] = NoAddress /\ ipamSubnet = NoId
       /\ \A h \in Hosts \ leases : address[h].status # "leased")
=============================================================================
