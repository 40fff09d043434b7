---------------------------- MODULE CcuProtocol ----------------------------
(***************************************************************************)
(* The command and answer tables of akbi/ble_ccu: what read_ble_message    *)
(* and the execute_* functions do for each command of the phone, and what  *)
(* akbi_process_rx_serial_data does for each message of the CCU.           *)
(*                                                                         *)
(* Payloads (names, passwords, audio, SSIDs) are left out; what is kept is *)
(* the state each step gives the FSM, the return code and the message.     *)
(***************************************************************************)
EXTENDS Naturals, Sequences

None == "none"

\* akbi_fsm.h.  In a waiting state akbi_check_fsm_state_and_respond returns 1.
WaitingStates ==
  {"LOGIN", "FORGOT_PASSWD", "CHANGE_PASSWD", "VOICE_RECORDING_IN_PROGRESS",
   "SET_EMER_NUM_SENDING", "SET_PERSONAL_NUM_SENDING", "WIFI_SCAN_IN_PROGRESS",
   "WIFI_CONNECT_IN_PROGRESS", "WIFI_DISCONNECT_IN_PROGRESS",
   "FW_UPGRADE_IN_PROGRESS", "FW_REBOOT_MSG_SENDING",
   "TRIP_INFO_UPLOAD_IN_PROGRESS", "CFG_SET_HELP_NUM_SENDING",
   "WIFI_MODE_SET_IN_PROGRESS", "CFG_SET_ADDRESS", "ACTIVATE_IN_PROGRESS"}

RestingStates ==
  {"CCU_READY", "INIT", "MOB_REGISTERED", "LOGIN_STATUS", "FORGOT_PASSWD_RESULT",
   "CHANGE_PASSWD_COMPLETE", "VOICE_RECORDING_COMPLETE", "SET_EMER_NUM_RECEIVED",
   "SET_PERSONAL_NUM_RECEIVED", "WIFI_SCAN_COMPLETE", "WIFI_NAME_SEND_IN_PROGRESS",
   "WIFI_SELECT_IN_PROGRESS", "WIFI_CONNECT_COMPLETE", "WIFI_DISCONNECT_COMPLETE",
   "FW_UPGRADE_COMPLETE", "FW_REBOOT_MSG_ACKNOWLEDGED", "TRIP_INFO_UPLOAD_COMPLETE",
   "CFG_SET_ADDRESS_COMPLETE", "CFG_SET_HELP_NUM_RECEIVED", "ACTIVATE_COMPLETE",
   "WIFI_MODE_SET_COMPLETE"}

FsmStates == WaitingStates \cup RestingStates

ScanStates ==
  {"WIFI_SCAN_IN_PROGRESS", "WIFI_SCAN_COMPLETE", "WIFI_NAME_SEND_IN_PROGRESS"}

\* Return codes of akbi_msg.h; RESULT is any other code the CCU reports.
ReturnCodes == {"SUCCESS", "RESULT", "NOT_READY", "UNRECOGNIZED", "SCANNING"}

-----------------------------------------------------------------------------
(* From the CCU.                                                           *)

\* The FSM state each status message leads to.
DoneState ==
  [LOGIN      |-> "LOGIN_STATUS",
   FORGOT     |-> "FORGOT_PASSWD_RESULT",
   CHANGE     |-> "CHANGE_PASSWD_COMPLETE",
   VOICE      |-> "VOICE_RECORDING_COMPLETE",
   EMER       |-> "SET_EMER_NUM_RECEIVED",
   PERS       |-> "SET_PERSONAL_NUM_RECEIVED",
   HELP       |-> "CFG_SET_HELP_NUM_RECEIVED",
   SCAN       |-> "WIFI_SCAN_COMPLETE",
   CONNECT    |-> "WIFI_CONNECT_COMPLETE",
   DISCONNECT |-> "WIFI_DISCONNECT_COMPLETE",
   UPDATE     |-> "FW_UPGRADE_COMPLETE",
   MODE       |-> "WIFI_MODE_SET_COMPLETE",
   ADDRESS    |-> "CFG_SET_ADDRESS_COMPLETE",
   ACTIVATE   |-> "ACTIVATE_COMPLETE",
   TRIP       |-> "TRIP_INFO_UPLOAD_COMPLETE",
   REBOOT     |-> "FW_REBOOT_MSG_ACKNOWLEDGED"]

Answered == DOMAIN DoneState

\* Messages the CCU takes without a status in return.
Notices == {"REGISTER", "VOICE_RAW", "ADDRESS_RAW", "ADV_STARTED",
            "MOB_CONNECTED", "MOB_DISCONNECTED"}

Codes == {"ok", "refused", "odd"}

\* A message of the CCU.  n is the number of the command it answers: the real
\* messages carry no such number, and the code never asks for it.
FromCcu ==
  [op : Answered \cup {"READY", "SCAN_NAME", "UPDATE_REBOOT"}, code : Codes, n : Nat]

\* Messages the code compares byte by byte and then drops.
Ignored(m) ==
  \/ m.op = "FORGOT" /\ m.code # "ok"
  \/ m.op = "CHANGE" /\ m.code = "odd"

\* Messages whose code is none of those the code compares it with.
NoVerdict(m) == m.code = "odd" /\ m.op \in {"LOGIN", "CONNECT", "EMER", "PERS", "HELP"}

\* The FSM state after message m.
StateAfter(m, state) ==
  CASE m.op = "READY"         -> "CCU_READY"
    [] m.op = "SCAN_NAME"     -> state
    [] m.op = "UPDATE_REBOOT" -> "FW_UPGRADE_COMPLETE"
    [] OTHER                  -> IF Ignored(m) THEN state ELSE DoneState[m.op]

\* Whether message m stores a return code, and which.
Reports(m) == m.op # "READY" /\ ~Ignored(m) /\ ~NoVerdict(m)

\* (A login also reports the self-test result that READY carried.)
ReportedCode(m) ==
  IF m.op = "SCAN_NAME" THEN "SCANNING"
  ELSE IF m.op # "FORGOT" /\ (m.op = "SCAN" \/ m.code = "ok") THEN "SUCCESS"
  ELSE "RESULT"

\* Messages after which the bridge restarts itself.
Fatal(m) == m.op \in {"REBOOT", "UPDATE_REBOOT"}

-----------------------------------------------------------------------------
(* From the phone.  A command sets an FSM state on entry, stores a return  *)
(* code, sets another state and sends a message to the CCU, in this order  *)
(* and each only if the command does so at all.                            *)

Handling(enter, code, settle, ask) ==
  [enter |-> enter, code |-> code, settle |-> settle, ask |-> ask]

\* Register, login and passwords.
AccountCommands ==
  [register         |-> Handling("MOB_REGISTERED", "SUCCESS", None, "REGISTER"),
   registerOther    |-> Handling("MOB_REGISTERED", "UNRECOGNIZED", None, None),
   loginPart        |-> Handling("INIT", "SUCCESS", None, None),
   login            |-> Handling("INIT", None, "LOGIN", "LOGIN"),
   loginOther       |-> Handling("INIT", None, None, None),
   forgot           |-> Handling("FORGOT_PASSWD", None, None, "FORGOT"),
   passwordCurrent  |-> Handling("CHANGE_PASSWD", "SUCCESS", "INIT", None),
   passwordNew      |-> Handling("CHANGE_PASSWD", None, None, "CHANGE"),
   passwordOther    |-> Handling("CHANGE_PASSWD", "UNRECOGNIZED", None, None)]

\* Emergency, personal and local help numbers.
NumberCommands ==
  [emergency        |-> Handling("SET_EMER_NUM_SENDING", "SUCCESS", None, "EMER"),
   emergencyOther   |-> Handling("SET_EMER_NUM_SENDING", "UNRECOGNIZED", None, None),
   personal         |-> Handling("SET_PERSONAL_NUM_SENDING", "SUCCESS", None, "PERS"),
   personalOther    |-> Handling("SET_PERSONAL_NUM_SENDING", "UNRECOGNIZED", None, None),
   localHelp        |-> Handling("CFG_SET_HELP_NUM_SENDING", None, None, "HELP"),
   localHelpOther   |-> Handling("CFG_SET_HELP_NUM_SENDING", "UNRECOGNIZED", None, None)]

WifiCommands ==
  [scan             |-> Handling("WIFI_SCAN_IN_PROGRESS", None, None, "SCAN"),
   scanNames        |-> Handling(None, None, None, None),
   selectSsid       |-> Handling("WIFI_SELECT_IN_PROGRESS", "SUCCESS", None, None),
   selectKey        |-> Handling("WIFI_SELECT_IN_PROGRESS", "SUCCESS",
                                 "WIFI_CONNECT_IN_PROGRESS", "CONNECT"),
   selectOther      |-> Handling("WIFI_SELECT_IN_PROGRESS", "UNRECOGNIZED", None, None),
   connect          |-> Handling("WIFI_CONNECT_IN_PROGRESS", None, None, "CONNECT"),
   disconnect       |-> Handling("WIFI_DISCONNECT_IN_PROGRESS", None, None, "DISCONNECT")]

SystemCommands ==
  [activatePart     |-> Handling(None, "SUCCESS", None, None),
   activate         |-> Handling(None, None, None, "ACTIVATE"),
   activateOther    |-> Handling(None, "UNRECOGNIZED", None, None),
   update           |-> Handling("FW_UPGRADE_IN_PROGRESS", None, None, "UPDATE"),
   reboot           |-> Handling("FW_REBOOT_MSG_SENDING", None, None, "REBOOT"),
   wifiMode         |-> Handling("WIFI_MODE_SET_IN_PROGRESS", None, None, "MODE"),
   tripInfo         |-> Handling("TRIP_INFO_UPLOAD_IN_PROGRESS", None,
                                 "TRIP_INFO_UPLOAD_IN_PROGRESS", "TRIP")]

AddressCommands ==
  [addressStart     |-> Handling(None, "SUCCESS", None, "ADDRESS"),
   addressLength    |-> Handling(None, None, None, None),
   addressEnd       |-> Handling(None, "SUCCESS", "VOICE_RECORDING_COMPLETE", None)]

\* read_ble_message: which command is handled where.
CommandTable ==
  [c \in DOMAIN AccountCommands \cup DOMAIN NumberCommands \cup DOMAIN WifiCommands
         \cup DOMAIN SystemCommands \cup DOMAIN AddressCommands \cup {"unknown"} |->
     CASE c \in DOMAIN AccountCommands -> AccountCommands[c]
       [] c \in DOMAIN NumberCommands  -> NumberCommands[c]
       [] c \in DOMAIN WifiCommands    -> WifiCommands[c]
       [] c \in DOMAIN SystemCommands  -> SystemCommands[c]
       [] c \in DOMAIN AddressCommands -> AddressCommands[c]
       [] c = "unknown"                -> Handling(None, "UNRECOGNIZED", None, None)]

\* Audio: a chunk goes to the CCU once 256 bytes or the announced length are
\* there.  The first byte of a voice command means a header, a chunk or the
\* end mark depending on flag_sending_voice_data.
VoiceCommands == {"voiceStart", "voiceChunk", "voiceEnd"}

Chunk(state, raw) == {Handling(state, None, None, raw), Handling(state, None, None, None)}

VoiceHandlings(c, streaming) ==
  IF streaming
    THEN IF c = "voiceEnd"
           THEN {Handling("VOICE_RECORDING_IN_PROGRESS", "SUCCESS",
                          "VOICE_RECORDING_COMPLETE", None)}
           ELSE Chunk("VOICE_RECORDING_IN_PROGRESS", "VOICE_RAW")
    ELSE {Handling("VOICE_RECORDING_IN_PROGRESS", None, None,
                   IF c = "voiceStart" THEN "VOICE" ELSE None)}

AllCommands == DOMAIN CommandTable \cup VoiceCommands \cup {"addressChunk"}

\* What the bridge may do on command c.
Handlings(c, streaming) ==
  CASE c \in VoiceCommands  -> VoiceHandlings(c, streaming)
    [] c = "addressChunk"   -> Chunk(None, "ADDRESS_RAW")
    [] OTHER                -> {CommandTable[c]}

\* flag_sending_voice_data after command c.
StreamingAfter(c, streaming) ==
  \/ c = "voiceStart"
  \/ streaming /\ c # "voiceEnd"

=============================================================================
