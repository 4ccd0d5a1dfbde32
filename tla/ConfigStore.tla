---------------------------- MODULE ConfigStore -----------------------------
(* The override rows an administrator pushes to agents: one tenant-wide      *)
(* default and one row per device (storage/mod.rs ConfigStore,               *)
(* meta_sqlite.rs), the checks of common-wire and the merge of               *)
(* routes/config.rs.  An override sets some of the pushable fields.          *)
EXTENDS Naturals

CONSTANTS
  Fields,     \* the pushable fields of AgentConfigOverride
  Values,     \* the values a body may give a field
  BadValues,  \* the ones validate() refuses (zero, over the cap, malformed)
  Absent      \* a field that is not set, a row that does not exist

ASSUME ConfigAssumption == BadValues \subseteq Values /\ Absent \notin Values

VARIABLES
  defaultRow,  \* default_config_override, or Absent
  deviceRow    \* device_config_overrides of the device, or Absent

storeVars == <<defaultRow, deviceRow>>

\* AgentConfigOverride
Overrides == [Fields -> Values \cup {Absent}]
Empty == [f \in Fields |-> Absent]

\* AgentConfigOverride::is_empty
IsEmpty(o) == o = Empty

\* AgentConfigOverride::validate: the checks look at one field each.
Valid(o) == \A f \in Fields : o[f] \notin BadValues

\* merge_overrides: a field of the device row wins over the default's.
MergeOverrides(base, top) ==
  LET b == IF base = Absent THEN Empty ELSE base
      t == IF top = Absent THEN Empty ELSE top
  IN  [f \in Fields |-> IF t[f] # Absent THEN t[f] ELSE b[f]]

StoreInit == defaultRow = Absent /\ deviceRow = Absent

SetDeviceConfig(o) == deviceRow' = o /\ UNCHANGED defaultRow
DeleteDeviceConfig == deviceRow' = Absent /\ UNCHANGED defaultRow
SetDefaultConfig(o) == defaultRow' = o /\ UNCHANGED deviceRow

StoreTypeOK == /\ defaultRow \in Overrides \cup {Absent}
               /\ deviceRow \in Overrides \cup {Absent}
=============================================================================
