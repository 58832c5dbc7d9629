----------------------------- MODULE AppendLog -----------------------------
(***************************************************************************)
(* What every EventLog promises (src/agent/world/event_log.rs): the log    *)
(* that load returns only ever grows, by one event at its end.  Nothing a  *)
(* crash, a roll to a new segment or a move to cold storage does is        *)
(* visible in it.                                                          *)
(***************************************************************************)
EXTENDS Sequences

CONSTANT Events
VARIABLE log

Init == log = <<>>
AppendEvent == \E e \in Events : log' = Append(log, e)
Spec == Init /\ [][AppendEvent]_log
=============================================================================
