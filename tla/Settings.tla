------------------------------ MODULE Settings ------------------------------
(***************************************************************************)
(* One family of global settings: its rows (repository/                    *)
(* system_settings_repository.go), the cache the gateway reads it through  *)
(* (service/systemsettings) and the console's writes (handler/             *)
(* system_settings_handler.go).  A family is one or two rows that share a  *)
(* version; the capability family's six switches stand for one.            *)
(*                                                                         *)
(* The rows are found as a migration left them, or as somebody's hand did. *)
(* The database may fail any read or write, and a write it committed may   *)
(* look failed to the service.                                             *)
(***************************************************************************)
EXTENDS Naturals

CONSTANTS
    Families,       \* the families checked
    Lookups,        \* the gateway's reads in flight
    Puts,           \* the console's writes in flight
    MaxVersion      \* bound: versions of the rows

ASSUME SettingsAssumption ==
    /\ Families \subseteq {"custom_system_prompt", "input_compression", "vision_fallback",
                           "key_auto_recovery", "request_log_retention",
                           "admin_audit_retention", "outbound_proxy", "capability_enforcement"}
    /\ MaxVersion \in Nat \ {0, 1}

VARIABLES
    family,
    stored,     \* the rows: value and version, or Absent
    entry,      \* settingEntry; fresh, failing: refreshExpiry, refreshFailureUntil are ahead
    flight,     \* singleflight's call for the family
    lookups,    \* floor: history, the version published when the read began
    puts,
    chronicle   \* history: what the rows held at each version

settings == <<family, stored, entry, flight, lookups, puts, chronicle>>

Absent == [value |-> "", version |-> 0]
Grounded == [step |-> "none"]
NoLookup == [step |-> "none"]
NoPut == [step |-> "none"]
Unread == [ok |-> FALSE]
-----------------------------------------------------------------------------
(* What the rows of a family may say, and what is made of them.            *)

Switch == {"true", "false"}

Rows == CASE family = "custom_system_prompt" -> {"enabled", "text"}
          [] family = "input_compression" -> {"enabled"}
          [] family = "vision_fallback" -> {"model", "prompt"}
          [] family = "key_auto_recovery" -> {"enabled", "interval"}
          [] family \in {"request_log_retention", "admin_audit_retention"} -> {"days"}
          [] family = "outbound_proxy" -> {"mode", "url"}
          [] family = "capability_enforcement" -> {"switches", "margin"}

\* What is submitted: two settings of the family that are accepted, and the refused.
Submissions ==
    CASE family = "custom_system_prompt" ->
            [enabled : Switch, text : {"", "short", "long"}] \ {[enabled |-> "false", text |-> "short"]}
      [] family = "input_compression" -> [enabled : Switch]
      [] family = "vision_fallback" -> [model : {"", "known", "unknown"}, prompt : {""}]
      [] family = "key_auto_recovery" -> [enabled : Switch, interval : {"30", "9999"}]
      [] family \in {"request_log_retention", "admin_audit_retention"} ->
            [days : {"0", "180", "9999"}]
      [] family = "outbound_proxy" ->
            [mode : {"off", "custom"}, url : {"", "good", "bad"}] \ {[mode |-> "off", url |-> "good"]}
      [] family = "capability_enforcement" -> [switches : Switch, margin : {"5", "9999"}]

DefaultSetting ==
    CASE family = "custom_system_prompt" -> [enabled |-> "false", text |-> ""]
      [] family = "input_compression" -> [enabled |-> "false"]
      [] family = "vision_fallback" -> [model |-> "", prompt |-> ""]
      [] family = "key_auto_recovery" -> [enabled |-> "true", interval |-> "30"]
      [] family = "request_log_retention" -> [days |-> "0"]
      [] family = "admin_audit_retention" -> [days |-> "180"]
      [] family = "outbound_proxy" -> [mode |-> "off", url |-> ""]
      [] family = "capability_enforcement" -> [switches |-> "false", margin |-> "5"]

Corrupt(rows) == {row \in rows : stored[row].value = "corrupt"}

Missing == \A row \in Rows : stored[row] = Absent

Uneven == \E r, s \in Rows : stored[r].version # stored[s].version

\* The rows as one snapshot, unless one of those that must parse does not.
Parsed(mustParse) ==
    IF Uneven \/ Missing \/ Corrupt(mustParse) # {} THEN Unread
    ELSE [ok |-> TRUE, value |-> [row \in Rows |-> stored[row].value],
          version |-> stored[CHOOSE row \in Rows : TRUE].version]

\* A database from before the family's migration reads as the shipped default.
OrDefault(mustParse) ==
    IF Missing THEN [ok |-> TRUE, value |-> DefaultSetting, version |-> 0] ELSE Parsed(mustParse)

GetCustomSystemPrompt == Parsed({"enabled"})
GetInputCompression == OrDefault({"enabled"})
GetVisionFallback == OrDefault({})
GetKeyAutoRecovery == OrDefault({"enabled", "interval"})
GetRequestLogRetention == OrDefault({"days"})
GetAdminAuditRetention == OrDefault({"days"})
GetOutboundProxy == OrDefault({"mode"})
GetCapabilityEnforcement == OrDefault({"switches", "margin"})

ReadRows ==
    CASE family = "custom_system_prompt" -> GetCustomSystemPrompt
      [] family = "input_compression" -> GetInputCompression
      [] family = "vision_fallback" -> GetVisionFallback
      [] family = "key_auto_recovery" -> GetKeyAutoRecovery
      [] family = "request_log_retention" -> GetRequestLogRetention
      [] family = "admin_audit_retention" -> GetAdminAuditRetention
      [] family = "outbound_proxy" -> GetOutboundProxy
      [] family = "capability_enforcement" -> GetCapabilityEnforcement


(* What a write must satisfy before it reaches the rows.                   *)

UpdateCustomSystemPrompt(v) == v.text # "long" /\ (v.enabled = "true" => v.text # "")
UpdateInputCompression(v) == v.enabled \in Switch
UpdateVisionFallback(v) == v.model # "unknown"
UpdateKeyAutoRecovery(v) == v.interval # "9999"
UpdateRequestLogRetention(v) == v.days # "9999"
UpdateAdminAuditRetention(v) == v.days # "9999"
UpdateOutboundProxy(v) == v.url # "bad" /\ (v.mode = "custom" => v.url # "")
UpdateCapabilityEnforcement(v) == v.margin # "9999"

Accepted(v) ==
    CASE family = "custom_system_prompt" -> UpdateCustomSystemPrompt(v)
      [] family = "input_compression" -> UpdateInputCompression(v)
      [] family = "vision_fallback" -> UpdateVisionFallback(v)
      [] family = "key_auto_recovery" -> UpdateKeyAutoRecovery(v)
      [] family = "request_log_retention" -> UpdateRequestLogRetention(v)
      [] family = "admin_audit_retention" -> UpdateAdminAuditRetention(v)
      [] family = "outbound_proxy" -> UpdateOutboundProxy(v)
      [] family = "capability_enforcement" -> UpdateCapabilityEnforcement(v)
-----------------------------------------------------------------------------
(* Reading through the cache.                                              *)

NewSystemSettingsService ==
    [has |-> FALSE, value |-> DefaultSetting, version |-> 0, fresh |-> FALSE, failing |-> FALSE]

cachedEntry == entry.has /\ (entry.fresh \/ entry.failing)

inFailureWindow == entry.failing

\* What a read is answered; history: whether the rows held it, whether it is current.
Given(value, version, floor) ==
    [step |-> "served", held |-> value = chronicle[version], current |-> version >= floor]

\* A read that finds the snapshot current is answered at once.
readCached(l) ==
    /\ lookups[l] = NoLookup /\ ~cachedEntry
    /\ lookups' = [lookups EXCEPT ![l] = [step |-> "cold", floor |-> entry.version]]
    /\ UNCHANGED <<family, stored, entry, flight, puts, chronicle>>

\* Also when a refresh failed since the read found the snapshot expired.
ServedZero(l) ==
    /\ lookups[l].step = "cold" /\ inFailureWindow
    /\ lookups' = [lookups EXCEPT ![l] = [step |-> "zero"]]
    /\ UNCHANGED <<family, stored, entry, flight, puts, chronicle>>

JoinRefresh(l) ==
    /\ lookups[l].step = "cold" /\ ~inFailureWindow /\ flight # Grounded
    /\ lookups' = [lookups EXCEPT ![l].step = "waiting"]
    /\ UNCHANGED <<family, stored, entry, flight, puts, chronicle>>

\* The leader looks at the cache once more.
LeadRefresh(l) ==
    /\ lookups[l].step = "cold" /\ ~inFailureWindow /\ flight = Grounded
    /\ IF cachedEntry
       THEN /\ lookups' = [lookups EXCEPT ![l] = Given(entry.value, entry.version, @.floor)]
            /\ UNCHANGED flight
       ELSE /\ lookups' = [lookups EXCEPT ![l].step = "waiting"]
            /\ flight' = [step |-> "reading"]
    /\ UNCHANGED <<family, stored, entry, puts, chronicle>>

\* Mutant: whatever was read last is kept.
PublishAnyhow(e, value, version) ==
    [has |-> TRUE, value |-> value, version |-> version, fresh |-> TRUE, failing |-> FALSE]

\* An older version is dropped; that the database answered is noted either way.
publishIfNewer(e, value, version) ==
    IF e.has /\ version < e.version THEN [e EXCEPT !.failing = FALSE]
    ELSE [has |-> TRUE, value |-> value, version |-> version, fresh |-> TRUE, failing |-> FALSE]

RefreshReads ==
    /\ flight.step = "reading"
    /\ \E row \in {ReadRows, Unread} : flight' = [step |-> "read", row |-> row]
    /\ UNCHANGED <<family, stored, entry, lookups, puts, chronicle>>

\* What is read goes to the cache, and the cache's snapshot to everyone waiting.  A
\* write published between the two only makes that snapshot newer.
refreshEntry ==
    /\ flight.step = "read"
    /\ entry' = IF flight.row.ok THEN publishIfNewer(entry, flight.row.value, flight.row.version)
                ELSE [entry EXCEPT !.failing = TRUE]
    /\ lookups' = [l \in Lookups |->
            IF lookups[l].step # "waiting" THEN lookups[l]
            ELSE IF flight.row.ok THEN Given(entry'.value, entry'.version, lookups[l].floor)
            ELSE [lookups[l] EXCEPT !.step = "failed"]]
    /\ flight' = Grounded
    /\ UNCHANGED <<family, stored, puts, chronicle>>

\* The refresh failed: the last good snapshot, or the zero value of a cold start.
FailOpen(l) ==
    /\ lookups[l].step = "failed"
    /\ lookups' = [lookups EXCEPT ![l] = Given(entry.value, entry.version, @.floor)]
    /\ UNCHANGED <<family, stored, entry, flight, puts, chronicle>>

EndLookup(l) ==
    /\ lookups[l].step \in {"served", "zero"}
    /\ lookups' = [lookups EXCEPT ![l] = NoLookup]
    /\ UNCHANGED <<family, stored, entry, flight, puts, chronicle>>

\* refreshExpiry, or refreshFailureUntil, is reached.
TimePassesOver ==
    /\ \/ entry.fresh /\ entry' = [entry EXCEPT !.fresh = FALSE]
       \/ entry.failing /\ entry' = [entry EXCEPT !.failing = FALSE]
    /\ UNCHANGED <<family, stored, flight, lookups, puts, chronicle>>
-----------------------------------------------------------------------------
(* The console's writes.                                                   *)

\* A request names a version it was shown, 1 or later; what it will report to have
\* replaced is read first.
PutSetting(p, before) ==
    /\ puts[p] = NoPut /\ before.ok
    /\ \E version \in 1..before.version :
        puts' = [puts EXCEPT ![p] =
            [step |-> "seen", version |-> version, before |-> before.value]]
    /\ UNCHANGED <<family, stored, entry, flight, lookups, chronicle>>

PutCustomSystemPrompt(p) == family = "custom_system_prompt" /\ PutSetting(p, GetCustomSystemPrompt)
PutInputCompression(p) == family = "input_compression" /\ PutSetting(p, GetInputCompression)
PutVisionFallback(p) == family = "vision_fallback" /\ PutSetting(p, GetVisionFallback)
PutKeyAutoRecovery(p) == family = "key_auto_recovery" /\ PutSetting(p, GetKeyAutoRecovery)
PutRequestLogRetention(p) == family = "request_log_retention" /\ PutSetting(p, GetRequestLogRetention)
PutAdminAuditRetention(p) == family = "admin_audit_retention" /\ PutSetting(p, GetAdminAuditRetention)
PutOutboundProxy(p) == family = "outbound_proxy" /\ PutSetting(p, GetOutboundProxy)
PutCapabilityEnforcement(p) == family = "capability_enforcement" /\ PutSetting(p, GetCapabilityEnforcement)

\* Mutant: the rows are written at whatever version they are.
OverwriteRows(version, value) ==
    [row \in Rows |-> [value |-> value[row], version |-> stored[row].version + 1]]

\* One statement: every row of the family is at the version named, or none is written.
CompareAndSet(version, value) ==
    IF \E row \in Rows : stored[row].version # version THEN stored
    ELSE [row \in Rows |-> [value |-> value[row], version |-> version + 1]]

HeldNow == [row \in Rows |-> stored[row].value]

Settle(rows) ==
    LET row == CHOOSE r \in Rows : TRUE IN
    /\ stored' = rows
    /\ chronicle' = IF rows = stored THEN chronicle
                    ELSE [chronicle EXCEPT ![rows[row].version] = [r \in Rows |-> rows[r].value]]

\* A refusal and a conflict change nothing.
PutRefused(p) ==
    /\ puts[p].step = "seen"
    /\ puts' = [puts EXCEPT ![p] = NoPut]
    /\ UNCHANGED <<family, stored, entry, flight, lookups, chronicle>>

\* The write, which the database may commit and yet fail to answer.
UpdateSetting(p) ==
    LET put == puts[p] IN
    /\ put.step = "seen" /\ stored[CHOOSE r \in Rows : TRUE].version < MaxVersion
    /\ \E value \in {v \in Submissions : Accepted(v)} :
        LET rows == CompareAndSet(put.version, value) IN
        /\ rows # stored
        /\ Settle(rows)
        /\ \/ puts' = [puts EXCEPT ![p] = NoPut]
           \/ puts' = [puts EXCEPT ![p] = [step |-> "written", version |-> put.version + 1,
                                           before |-> put.before, value |-> value]]
    /\ UNCHANGED <<family, entry, flight, lookups>>

\* The service publishes what it committed, and the handler reports the difference.
PublishPut(p) ==
    /\ puts[p].step = "written"
    /\ entry' = publishIfNewer(entry, puts[p].value, puts[p].version)
    /\ puts' = [puts EXCEPT ![p] = NoPut]
    /\ UNCHANGED <<family, stored, flight, lookups, chronicle>>

\* A model is deleted or renamed, and the vision fallback with it, cache left alone.
FallbackFollows ==
    /\ family = "vision_fallback" /\ ReadRows.ok
    /\ stored["model"].value = "known" /\ stored["model"].version < MaxVersion
    /\ \E name \in {"", "known"} :
        Settle([row \in Rows |->
            [value |-> IF row = "model" THEN name ELSE stored[row].value,
             version |-> stored[row].version + 1]])
    /\ UNCHANGED <<family, entry, flight, lookups, puts>>
-----------------------------------------------------------------------------
\* The rows as their migration seeds them, or as a write left them, before the
\* migration, or as somebody's hand left them.
Seeded(version) == [row \in Rows |-> [value |-> DefaultSetting[row], version |-> version]]

Torn(row) ==
    {Absent, [value |-> "corrupt", version |-> 1], [value |-> DefaultSetting[row], version |-> 2]}

Found ==
    {Seeded(1), Seeded(2), [row \in Rows |-> Absent]}
    \cup UNION {{[Seeded(1) EXCEPT ![row] = torn] : torn \in Torn(row)} : row \in Rows}

SettingsInit ==
    /\ family \in Families
    /\ stored \in Found
    /\ entry = NewSystemSettingsService
    /\ flight = Grounded
    /\ lookups = [l \in Lookups |-> NoLookup]
    /\ puts = [p \in Puts |-> NoPut]
    /\ chronicle = [v \in 0..MaxVersion |-> IF v = 0 THEN DefaultSetting ELSE HeldNow]

SettingsNext ==
    \/ \E l \in Lookups :
        \/ readCached(l) \/ ServedZero(l) \/ JoinRefresh(l) \/ LeadRefresh(l)
        \/ FailOpen(l) \/ EndLookup(l)
    \/ RefreshReads \/ refreshEntry \/ TimePassesOver
    \/ \E p \in Puts :
        \/ PutCustomSystemPrompt(p) \/ PutInputCompression(p) \/ PutVisionFallback(p)
        \/ PutKeyAutoRecovery(p) \/ PutRequestLogRetention(p) \/ PutAdminAuditRetention(p)
        \/ PutOutboundProxy(p) \/ PutCapabilityEnforcement(p)
        \/ PutRefused(p) \/ UpdateSetting(p) \/ PublishPut(p)
    \/ FallbackFollows

SettingsSpec == SettingsInit /\ [][SettingsNext]_settings
-----------------------------------------------------------------------------
(* Properties.                                                             *)

\* A read is answered a whole snapshot that the rows held under its version, or the
\* shipped default before there were any, and never one older than what had been
\* published when it began (publishIfNewer, refreshEntry).
ReadsAreCurrent ==
    \A l \in Lookups : lookups[l].step = "served" => lookups[l].held /\ lookups[l].current

\* What a write reports to have replaced is what its version replaced, and no other
\* write replaced it too.
WritesAreReported ==
    \A p \in Puts : puts[p].step = "written" =>
        /\ puts[p].before = chronicle[puts[p].version - 1]
        /\ puts[p].value = chronicle[puts[p].version]

\* Reads and writes of a setting agree on its history.
SettingsAreHonest == ReadsAreCurrent /\ WritesAreReported
=============================================================================
