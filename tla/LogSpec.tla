------------------------------ MODULE LogSpec -------------------------------
(***************************************************************************)
(* The log as its callers see it: the abstract specification of raft_log.c.*)
(***************************************************************************)
EXTENDS CompactLog

CONSTANTS
  Index,  \* the indexes callers name
  Chunks  \* the sequences of entries callers append in one call

VARIABLE log

Init == log = EmptyLog(0)

Next ==
  \/ \E es \in Chunks : log' = Extend(log, es)
  \/ \E k \in Index :
       \/ log' = TruncateAfter(log, k)
       \/ log' = TruncateBefore(log, k)
       \/ log' = EmptyLog(k)

Spec == Init /\ [][Next]_log
=============================================================================
