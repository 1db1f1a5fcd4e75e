------------------------------ MODULE OrgSettings ------------------------------
(* The values an organization gets: its overrides, which the console writes *)
(* and each request reads, over the copy that its process serves.  A request *)
(* to set or to remove an override reads the row, then writes it under the  *)
(* optimistic lock and tells its fact, in one transaction; no instance      *)
(* keeps a copy, so nothing is spread.                                      *)
EXTENDS Settings

CONSTANTS
  Org,            \* organizations
  Overridable,    \* the keys declared as such
  OrgRequest,     \* requests to the console about overrides
  MaxOverrides    \* bound: requests that read, in all

ASSUME OverridableAssumption == Overridable \subseteq Setting

VARIABLES
  override,    \* override[k, o]: [value, version], the row of org_app_settings
  visit,       \* visit[r]: what an open request read and would write, or NoValue
  said,        \* said[k, o]: the last fact told of the override
  standing,    \* organizations that exist
  visits       \* requests that read so far

orgVars == <<override, visit, said, standing, visits>>

Slots == Setting \X Org
NoRow == [value |-> NoValue, version |-> 0]
Unsaid == [value |-> NoValue, idle |-> FALSE]

OrgInit ==
  /\ Init
  /\ override = [s \in Slots |-> NoRow]
  /\ visit = [r \in OrgRequest |-> NoValue]
  /\ said = [s \in Slots |-> Unsaid]
  /\ standing = Org
  /\ visits = 0

Begin(r, slot, value) ==
  /\ visit[r] = NoValue
  /\ visits < MaxOverrides
  /\ visits' = visits + 1
  /\ visit' = [visit EXCEPT ![r] =
                 [slot |-> slot, value |-> value, row |-> override[slot]]]
  /\ UNCHANGED <<vars, override, said, standing>>

(* A key that may be overridden, an organization found by its handle.       *)
SetOverride(r, slot, value) ==
  /\ slot[1] \in Overridable
  /\ slot[2] \in standing
  /\ Begin(r, slot, value)

(* Any key and any organization: there may be no such override.             *)
RemoveOverride(r, slot) == Begin(r, slot, NoValue)

(* Setting the value it has, or removing none, writes nothing.              *)
Writes(r) == visit[r].value # visit[r].row.value

SameRow(r) == override[visit[r].slot].version = visit[r].row.version

(* The key of the row refuses a second INSERT, and its organization one for *)
(* which it is gone; a row that moved or went is not updated, nor deleted.  *)
Accepted(r) == Writes(r) => SameRow(r) /\ visit[r].slot[2] \in standing

NextRow(r) ==
  IF visit[r].value = NoValue THEN NoRow
    ELSE [value |-> visit[r].value, version |-> override[visit[r].slot].version + 1]

(* The fact is told whether or not a row changed.                           *)
CommitOverride(r) ==
  /\ visit[r] # NoValue
  /\ Accepted(r)
  /\ override' = IF Writes(r) THEN [override EXCEPT ![visit[r].slot] = NextRow(r)] ELSE override
  /\ said' = [said EXCEPT ![visit[r].slot] = [value |-> visit[r].value, idle |-> ~Writes(r)]]
  /\ visit' = [visit EXCEPT ![r] = NoValue]
  /\ UNCHANGED <<vars, standing, visits>>

(* Refused, or the connection lost: nothing is written, nothing told.       *)
AbandonOverride(r) ==
  /\ visit[r] # NoValue
  /\ visit' = [visit EXCEPT ![r] = NoValue]
  /\ UNCHANGED <<vars, override, said, standing, visits>>

(* Its overrides go with an organization.                                   *)
DeleteOrg(o) ==
  /\ o \in standing
  /\ standing' = standing \ {o}
  /\ override' = [s \in Slots |-> IF s[2] = o THEN NoRow ELSE override[s]]
  /\ UNCHANGED <<vars, visit, said, visits>>

OrgStep ==
  \/ \E r \in OrgRequest : CommitOverride(r) \/ AbandonOverride(r)
  \/ \E r \in OrgRequest, s \in Slots :
       RemoveOverride(r, s) \/ \E v \in Value : SetOverride(r, s, v)
  \/ \E o \in Org : DeleteOrg(o)

OrgNext == (Next /\ UNCHANGED orgVars) \/ OrgStep

OrgSpec ==
  /\ OrgInit /\ [][OrgNext]_<<vars, orgVars>>
  /\ \A e \in Edit : WF_vars(Flush(e) \/ ReadValues(e) \/ Record(e) \/ Commit(e))
  /\ \A i \in Instance : WF_vars(Fetch(i)) /\ WF_vars(Reload(i))

-----------------------------------------------------------------------------
(* What is read.                                                            *)

(* mutant: the server-wide values over the overrides *)
MergedUnder(values, o) ==
  Typed([k \in Setting |-> IF values[k] = NoValue THEN override[k, o].value ELSE values[k]])

(* merged_for_org: the overrides over the server-wide values, then types.   *)
Merged(values, o) ==
  Typed([k \in Setting |-> IF override[k, o].value = NoValue THEN values[k] ELSE override[k, o].value])

(* The settings dependency: a member's request under the handle of their    *)
(* organization gets its values, any other the server's.                    *)
Given(i, o, member) == IF member THEN Merged(raw[i], o) ELSE Typed(raw[i])

(* What the console lists: the overrides whose organization it can name.    *)
Listed == {s \in Slots : override[s].value # NoValue /\ s[2] \in standing}

(* The console's page of the app reads the server-wide values themselves.   *)
Page == Typed(Committed)

-----------------------------------------------------------------------------
(* The last fact told of an override, if its request wrote.                 *)
Told(slot, value) == said[slot].idle \/ said[slot].value = value

(* A member gets, of each setting, what was last told of their              *)
(* organization's override, and else what the console's page shows, on      *)
(* every instance that applied all there is; anyone else gets the page's    *)
(* values; and the console lists the overrides that were told.  Until two   *)
(* edits are open at once, and but for the facts of requests that wrote     *)
(* nothing.                                                                 *)
OrgsGetWhatWasTold ==
  /\ \A s \in Slots : s[2] \in standing => Told(s, override[s].value)
  /\ \A i \in Instance, o \in standing : CaughtUp(i) /\ ~overlapped =>
       /\ Given(i, o, FALSE) = Page
       /\ \A k \in Setting :
            Given(i, o, TRUE)[k] = IF <<k, o>> \in Listed THEN override[k, o].value ELSE Page[k]
===============================================================================
