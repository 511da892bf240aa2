---------------------------- MODULE SnapshotView ----------------------------
(***************************************************************************)
(* What elan's caches of elan-central's tables promise.  A writer commits  *)
(* versions of the source.  A reader decides by its view: a whole version, *)
(* not necessarily the last one and not necessarily a later one than it    *)
(* had before, or no view at all.  A commit and an installation are        *)
(* separate steps, and an installation leaves the source alone.            *)
(*                                                                         *)
(* IamService implements it with the engine's Vec<Policy> as the view of   *)
(* iam_policies, QueryService with datasets_by_ns as the view of the       *)
(* catalog and with the gateway's engine as the view of the policies.      *)
(***************************************************************************)
CONSTANT Absent   \* no view: the process is not there

VARIABLES source, view, history

vars == <<source, view, history>>

Init ==
  /\ history = {source}
  /\ view \in {source, Absent}

Commit ==
  /\ history' = history \cup {source'}
  /\ UNCHANGED view

Install ==
  /\ view' \in history \cup {Absent}
  /\ UNCHANGED <<source, history>>

Next == Commit \/ Install

Spec == Init /\ [][Next]_vars
=============================================================================
