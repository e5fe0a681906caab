-------------------------- MODULE MCDnsLogPipeline --------------------------
EXTENDS DnsLogPipeline, TLC

\* Runs of drainDnsLog differ only in name.
DrainSymmetry == Permutations(Drains)

VARIABLE overlapped   \* history: two runs of drainDnsLog were alive at once

Overlap == \E c, d \in Drains : c # d /\ pc[c] # "idle" /\ pc[d] # "idle"

OverlapInit == Init /\ overlapped = FALSE

OverlapSpec ==
  /\ OverlapInit
  /\ [][Next /\ overlapped' = (overlapped \/ Overlap')]_<<vars, overlapped>>

FairOverlapSpec == OverlapSpec /\ Fairness

\* It takes a fault or a second run to store an entry twice: batch edges, the
\* inclusive bound of XTRIM MINID, the exclusive one of XREAD and the saved
\* cursor of drainDnsLog never repeat one.
ExactlyOnce == faults = 0 /\ ~overlapped => \A e \in Entry : copies[e] <= 1
=============================================================================
