CONSTANTS
  Commands = {"loginPart", "login", "forgot", "passwordCurrent", "passwordNew", "emergency", "personal", "localHelp", "scan", "scanNames", "selectSsid", "selectKey", "connect", "disconnect", "wifiMode", "tripInfo", "update", "reboot"}
  CcuCodes = {"ok", "refused"}
  Patient = TRUE
  MaxWrites = 3
  MaxLine = 1
  MaxBoots = 1
  MaxMerges = 1
SPECIFICATION Spec
INVARIANT OwnResult
