------------------------------- MODULE Pages -------------------------------
(***************************************************************************)
(* What the demo application and the WiFi functions put into their pages:  *)
(* the text for a token of a template, and the status of a connection.     *)
(* The pin of the LED and the mode of the WiFi are what the driver says at *)
(* the moment the token is replaced.                                       *)
(***************************************************************************)
EXTENDS Integers, TLC

\* The LED is lit by a low level.
LedOff == 1
ioLed(ena) == IF ena # 0 THEN 0 ELSE LedOff

\* Text that was in the buffer before.
Leftover == "leftover"

tplLed(token, pin) ==
  IF token = "ledstate" THEN (IF pin = 0 THEN "on" ELSE "off") ELSE "Unknown"

\* The counter is increased before it is shown.
Hits(token, hits) == IF token = "counter" THEN hits + 1 ELSE hits
tplCounter(token, hits) ==
  IF token = "counter" THEN ToString(Hits(token, hits)) ELSE Leftover

RTW_MODE == {"STA", "AP", "STA_AP", "PROMISC", "P2P", "NONE"}
ModeName ==
  [STA |-> "Client", AP |-> "SoftAP", STA_AP |-> "STA+AP", PROMISC |-> "Promisc",
   P2P |-> "P2P", NONE |-> "None"]

\* setting is what the driver uses, not what cgiWiFiConnect stored.
tplWlan(token, mode, setting) ==
  CASE token = "WiFiMode" -> ModeName[mode]
    [] token = "currSsid" -> setting.ssid
    [] token = "WiFiPasswd" -> setting.password
    [] token = "WiFiapwarn" /\ mode \notin {"STA_AP", "STA"} -> "Can't scan in this mode."
    [] token = "WiFiapwarn" /\ mode \in {"STA_AP", "STA"} -> "Go to standalone AP mode."
    [] OTHER -> "Unknown"

\* Nothing in the program leaves this state: cgiWiFiConnect does not connect.
CONNTRY_IDLE == 0
CONNTRY_WORKING == 1
CONNTRY_SUCCESS == 2
CONNTRY_FAIL == 3
connTryStatus == CONNTRY_IDLE

ConnStatus(try, connected) ==
  CASE try = CONNTRY_IDLE -> "idle"
    [] try \in {CONNTRY_WORKING, CONNTRY_SUCCESS} -> (IF connected THEN "success" ELSE "working")
    [] OTHER -> "fail"
=============================================================================
