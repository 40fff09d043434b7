CONSTANTS
  Commands = {
    "register", "registerOther", "loginPart", "login", "loginOther", "forgot",
    "passwordCurrent", "passwordNew", "passwordOther", "emergency",
    "emergencyOther", "personal", "personalOther", "localHelp",
    "localHelpOther", "scan", "scanNames", "selectSsid", "selectKey", "selectOther",
    "connect", "disconnect", "activatePart", "activate", "activateOther",
    "update", "reboot", "wifiMode", "tripInfo", "addressStart", "addressLength",
    "addressEnd", "unknown", "voiceStart", "voiceChunk", "voiceEnd",
    "addressChunk"}
  CcuCodes = {"ok", "odd"}
  Patient = FALSE
  MaxWrites = 2
  MaxLine = 1
  MaxBoots = 2
  MaxMerges = 1
SPECIFICATION Spec
INVARIANTS
  AnswerStillComing
