---------------------------- MODULE MCPolicyCache ----------------------------
EXTENDS PolicyCache, TLC

Symmetric == Permutations(Writers) \cup Permutations(Resolvers)

\* Bound: a behaviour belongs to one of two parts. "policies": one early commit, the
\* API and the engine resolving side by side, until every copy has expired.
\* "restrictions": more commits of the other tables, and one call at a time.
VARIABLE part

InPart ==
  IF part = "policies"
  THEN /\ writes' # writes => writes = 0 /\ now <= 1
       /\ UNCHANGED <<boxed, boxUntil, boxSites, lesson, members>>
  ELSE /\ now' <= 4 /\ engine' = engine
       /\ Cardinality({ r \in Resolvers : pc'[r] # "idle" }) <= 1
       /\ UNCHANGED <<assigned, inherited, rules>>

\* Bound: the student is in every class or in none, and has no policy of its own yet.
TwoPartsInit ==
  /\ Init
  /\ part \in {"policies", "restrictions"}
  /\ \/ members = [s \in Students |-> Classes]
     \/ part = "restrictions" /\ members = [s \in Students |-> {}]
  /\ assigned = [k \in Keys |-> Nothing]
  /\ inherited = [s \in Students |-> Nothing]

TwoPartsSpec == TwoPartsInit /\ [][Next /\ InPart /\ UNCHANGED part]_<<vars, part>>

\* Bound: the student has a policy of its own at the start.
AssignedInit ==
  /\ Init
  /\ members = [s \in Students |-> {}]
  /\ assigned \in [Keys -> Policies]
  /\ inherited = [s \in Students |-> Nothing]
  /\ part = "policies"

AssignedSpec == AssignedInit /\ [][Next /\ UNCHANGED part]_<<vars, part>>
=============================================================================
