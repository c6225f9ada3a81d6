------------------------------ MODULE Settings ------------------------------
(***************************************************************************)
(* The settings that the login guard and the limit of sessions read:       *)
(* SecurityConfigService with its cache, which has no expiry.              *)
(*                                                                         *)
(* The cache is set when the answer of the database has arrived, after the *)
(* commit and not together with it.  Rows are never deleted.               *)
(***************************************************************************)
EXTENDS Handlers

CONSTANTS
    Keys,           \* bound: the keys of settings
    Shipped,        \* the keys of DEFAULT_CONFIGS
    Choices         \* bound: values that administrators write

VARIABLES
    settings,       \* settings[k] : the value in the row of key k
    configCache     \* configCache[k] : the value in its cached copy

SettingsVars == <<calls, settings, configCache>>

NoSetting == "no setting"

Seeding(rows) == [k \in Keys |-> IF rows[k] = NoSetting /\ k \in Shipped THEN "default" ELSE rows[k]]

SettingsInit ==
    /\ settings = Seeding([k \in Keys |-> NoSetting])
    /\ configCache = settings

\* getValue: only a key without a cached copy takes a call.
GetValue(r, k) ==
    /\ configCache[k] = NoSetting
    /\ Receive(r, "setting.found", [key |-> k, value |-> settings[k]])
    /\ UNCHANGED <<settings, configCache>>

\* updateValue
UpdateValue(r, k, v) ==
    /\ settings[k] # NoSetting
    /\ Receive(r, "setting.save", [key |-> k, value |-> v])
    /\ UNCHANGED <<settings, configCache>>

SaveSetting(r) ==
    /\ Awaits(r, "setting.save")
    /\ settings' = [settings EXCEPT ![My(r).key] = My(r).value]
    /\ AwaitNext(r, "setting.told")
    /\ UNCHANGED configCache

\* create asks nothing before it inserts; the key is unique.
InsertSetting(r, k, v) ==
    /\ IF settings[k] = NoSetting
       THEN /\ settings' = [settings EXCEPT ![k] = v]
            /\ Receive(r, "setting.told", [key |-> k, value |-> v])
       ELSE UNCHANGED settings /\ AtOnce
    /\ UNCHANGED configCache

\* The handler has a row to put into the cache: a lookup may have found none.
RowFound(r) == calls[r].at = "setting.told" \/ My(r).value # NoSetting

\* Mutant: only a key that has no cached copy is given one.
SetCache_OnlyNew(r) ==
    LET k == My(r).key
    IN  /\ calls[r].at \in {"setting.told", "setting.found"}
        /\ configCache' = IF RowFound(r) /\ configCache[k] = NoSetting
                          THEN [configCache EXCEPT ![k] = My(r).value] ELSE configCache
        /\ Answer(r)
        /\ UNCHANGED settings

\* The answer of the database has arrived.
SetCache(r) ==
    /\ calls[r].at \in {"setting.told", "setting.found"}
    /\ configCache' = IF RowFound(r)
                      THEN [configCache EXCEPT ![My(r).key] = My(r).value] ELSE configCache
    /\ Answer(r)
    /\ UNCHANGED settings

\* onModuleInit: seedDefaultConfigs, refreshCache.  A restart ends the handlers.
RestartSettings ==
    /\ settings' = Seeding(settings)
    /\ configCache' = settings'
    /\ calls' = [r \in Slots |-> Free]

SettingsNext ==
    \/ \E r \in Slots :
          \/ \E k \in Keys : GetValue(r, k)
          \/ \E k \in Keys, v \in Choices : UpdateValue(r, k, v) \/ InsertSetting(r, k, v)
          \/ SaveSetting(r)
          \/ SetCache(r)
    \/ RestartSettings

\* The settings on their own.
SettingsSpec == HandlersInit /\ SettingsInit /\ [][SettingsNext]_SettingsVars

-----------------------------------------------------------------------------
\* When a handler that no other one overlapped has changed, created or looked up a
\* setting, the cached copy of that setting and its row are the same, even where
\* handlers that raced before had left the cache, which never expires, with another
\* value than the table.  Of handlers that overlap it says nothing: a lookup that
\* read the row before a change may put the old value over the new one.
SettingsAgree ==
    [][\A r \in Slots, k \in Keys :
          calls[r].at \in {"setting.told", "setting.found"} /\ ~InFlight(r)'
          /\ calls[r].alone /\ My(r).key = k
          => configCache'[k] = settings'[k]
      ]_SettingsVars
=============================================================================
