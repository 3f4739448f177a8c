SPECIFICATION Spec
CONSTANTS
    home = home  away = away  hall = hall  cellar = cellar
    siren = siren  phone = phone  mail = mail
    MaxAlarms = 1
    MaxRestarts = 1
    MayFail = TRUE
    Modes = {home, away}
    ModeInputs = {away}
    Levels = {0, 1}
    Zones = {hall}
    Configs <- HallConfigs
    Pins = {"0815", "1234"}
    PinLists <- TwoPinLists
    GatewayMaps <- NoGateway
    Contacts <- BothContacts
    InitialMaps <- FirstStartOrArmed
INVARIANTS CopiesAgree MapFileReadable
