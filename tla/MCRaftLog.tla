----------------------------- MODULE MCRaftLog ------------------------------
(***************************************************************************)
(* A small instance of RaftLog for TLC.                                    *)
(***************************************************************************)
EXTENDS RaftLog

CONSTANTS MaxTerm, MaxIndex, d1

\* One entry, or three that need two doublings at once.
OneOrThree ==
  {<<e>> : e \in Entry} \cup {<<e, e, f>> : e \in Entry, f \in {x \in Entry : x.term = MaxTerm}}
Terms == 1 .. MaxTerm
Indexes == 0 .. MaxIndex
=============================================================================
