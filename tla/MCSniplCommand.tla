-------------------------- MODULE MCSniplCommand ---------------------------
(***************************************************************************)
(* Instances of SniplCommand: faults in groups, so that every run asks one *)
(* question.                                                               *)
(***************************************************************************)
EXTENDS SniplCommand

\* Everything but a host name that stops resolving.
MostFaults == FaultKind \ {"resolve"}
AllFaults == FaultKind
=============================================================================
