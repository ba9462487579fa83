--------------------------- MODULE TermLeadership ---------------------------
(***************************************************************************)
(* What a cluster tells its clients about leadership (raft_get_term,       *)
(* raft_get_leader_id): the abstract specification of the elections.  Each *)
(* step is of one node.  Its term never goes back, whatever it was told or *)
(* lost, it names no leader but one elected in that very term, and a term  *)
(* has one leader at most.                                                 *)
(***************************************************************************)
EXTENDS Naturals

CONSTANTS Node, None

VARIABLES
  term, leader, \* of each node
  leaders       \* <<t, i>> when i was elected in term t

Init ==
  /\ term = [i \in Node |-> 0]
  /\ leader = [i \in Node |-> None]
  /\ leaders = {}

\* Node i wins the election of the term it is in now.
Win(i) ==
  /\ \A l \in leaders : l[1] = term'[i] => l[2] = i
  /\ leaders' = leaders \cup {<<term'[i], i>>}
  /\ leader'[i] = i

\* Node i follows a leader, or knows of none.
Follow(i) ==
  /\ leader'[i] = None \/ <<term'[i], leader'[i]>> \in leaders
  /\ UNCHANGED leaders

Step(i) ==
  /\ term'[i] \in Nat /\ term'[i] >= term[i]
  /\ \A j \in Node \ {i} : term'[j] = term[j] /\ leader'[j] = leader[j]
  /\ Win(i) \/ Follow(i)

Next == \E i \in Node : Step(i)

Spec == Init /\ [][Next]_<<term, leader, leaders>>
=============================================================================
