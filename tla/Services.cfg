CONSTANTS
    Items = {"i1", "i2"}
    Calls = {1, 2, 3}
    Horizon = 1
    Keep = 1
    NoCall = 0
    NoItem = "none"
    MaxAuth = 3
    MaxBackoff = 4
    Forwards = {1, 2}
    Licences = {"a", "b"}
    Clients = {1, 2, 3}
    NoLicence = "no licence"
    NoClient = 0
SPECIFICATION Spec
INVARIANTS
    TypeOK RecordsAreSound RejectionsAreBounded LinkIsOfTheLicence
PROPERTIES
    EndedIsFinal DueIsMarked LinkServes IsRelayState MatchedIsActivated
CHECK_DEADLOCK FALSE
