SPECIFICATION FairSpec
CONSTANTS
    home = home  away = away  hall = hall  cellar = cellar
    siren = siren  phone = phone  mail = mail
    MaxAlarms = 2
    MaxRestarts = 0
    MayFail = FALSE
    Modes = {home, away}
    ModeInputs = {}
    Levels = {}
    Zones = {hall, cellar}
    Configs <- AlarmConfigs
    Pins = {"0815"}
    PinLists <- OnePin
    GatewayMaps <- Gateways
    Contacts <- BothContacts
    InitialMaps <- Armed
INVARIANTS TypeOK LiveThreadsBounded FullCountdown DisableAfterCountdown
PROPERTIES AlarmRaised AlarmThreadsEnd
