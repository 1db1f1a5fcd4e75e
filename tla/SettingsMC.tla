------------------------------ MODULE SettingsMC ------------------------------
(* Settings on small instances.                                             *)
EXTENDS OrgSettings

(* Overrides and edits touch no common row, and no instance learns of an    *)
(* override from another: they meet where a process merges its copy with    *)
(* the rows.  So overrides are written with no edit open and no fact on its *)
(* way, and one instance that never fails reads them.                       *)
Apart ==
  /\ (\E r \in OrgRequest : visit[r] # NoValue) => Open = {} /\ \A i \in Instance : todo[i] = {}
  /\ visits > 0 => faults = 0 /\ Cardinality(up) <= 1
===============================================================================
