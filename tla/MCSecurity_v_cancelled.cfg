SPECIFICATION Spec
CONSTANTS
    home = home  away = away  hall = hall  cellar = cellar
    siren = siren  phone = phone  mail = mail
    MaxAlarms = 2
    MaxRestarts = 0
    MayFail = FALSE
    Modes = {home, away}
    ModeInputs = {}
    Levels = {}
    Zones = {hall}
    Configs <- HallConfigs
    Pins = {"0815"}
    PinLists <- OnePin
    GatewayMaps <- NoGateway
    Contacts <- BothContacts
    InitialMaps <- ArmedHall
INVARIANTS CancelledStaysSilent
