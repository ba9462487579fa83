-------------------------- MODULE MCMachineProofs --------------------------
(***************************************************************************)
(* The instance of RaftSnapshot that the theorems of MachineProofs are     *)
(* tried on.                                                               *)
(***************************************************************************)
EXTENDS MCRaftSnapshot, MachineProofs

\* What the nodes of Lagging start with is what the theorems assume of a start,
\* and the leader's snapshots do not fail.  p2 starts with an entry that the
\* leader does not have, so LaggingMatchesAreHeld is not about this instance.
ASSUME LaggingStarts ==
  LET h == [k \in 1 .. 4 |-> [term |-> <<1, 1, 2, 3>>[k], data |-> k]]
  IN /\ \A n \in Node : Sane(n, Started[n]) /\ InPlace(Started[n].log)
     /\ StartAgrees(h) /\ WholeSnapshot(Started[Lead]) /\ <<Lead, "poll">> \notin Failing
     /\ ~OnlyOf(Started[p2], h)
=============================================================================
