SPECIFICATION Spec
CHECK_DEADLOCK FALSE
CONSTANTS
    MaxFaults = 2
    MaxWay = 2
    Settings = {"smart_contract_address", "private_key", "location"}
    Extra = {"last_stdin_timestamp"}
    MaxRetries = 2
    UseLocal = FALSE
INVARIANTS TypeOK NoFalseReachability SettingsSurvive
PROPERTY ServesInTheEnd
