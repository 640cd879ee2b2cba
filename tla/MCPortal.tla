------------------------------ MODULE MCPortal ------------------------------
\* Names of one and two labels, an address, routes with and without a password, and forms
\* with the characters that a browser has to escape.
EXTENDS Portal

A(n) == 96 + n
Rtl == <<<<114, 116>>, <<110>>>>
Other == <<<<97>>, <<98, 99>>, <<100>>>>
OneLabel == <<<<97, 97>>>>
Address == <<<<49, 49>>, <<49, 49>>, <<49>>, <<49>>>>
ShortAddress == <<<<49>>, <<49>>, <<49>>, <<49>>>>

Owner == [user |-> <<97>>, pass |-> <<98, 99>>]
Shouter == [user |-> <<97, 98>>, pass |-> <<>>]
TheUsers == {Owner, Shouter}
Credentials ==
  TheUsers \cup {None, [user |-> <<97>>, pass |-> <<98>>], [user |-> <<97>>, pass |-> <<98, 99, 99>>],
                 [user |-> <<>>, pass |-> <<98, 99>>], [user |-> <<97, 255>>, pass |-> <<255>>]}

TheUrlParts ==
  {"/", "index.tpl", "led.tpl", "wifi", "wifi.tpl", "flash", "index.html", "test", "led.cgi",
   "connect.cgi", "connstatus.cgi", "setmode.cgi", "wifiscan.cgi", "websocket", "ws.cgi", "echo.cgi",
   "upload", "reboot", "test.cgi", "connecting.html", "style.css", "none"}

WifiPages == <<Slash, "wifi", Slash>>
TheTables == {BuiltInUrls, CaptiveRoutes(Rtl, WifiPages) \o BuiltInUrls}

TheFiles == {IndexUrl, LedUrl, WifiUrl, FlashUrl, TestUrl, <<Slash, "wifi", Slash, "connecting.html">>, <<Slash, "style.css">>}

Get(host, url, cred) ==
  [method |-> "GET", host |-> host, url |-> url, form |-> None, cred |-> cred]
Post(url, form) ==
  [method |-> "POST", host |-> Address, url |-> url, form |-> form, cred |-> Owner]

Field(name, value) == [name |-> name, value |-> value]
Texts == {<<>>, <<97>>, <<38, 61>>, <<43, 32>>, <<37, 53>>, <<255, 10>>, <<97, 38, 98>>}

TheVisits ==
  {Get(host, <<Slash>>, None) : host \in {Rtl, Other, OneLabel, Address, ShortAddress}}
  \cup {Get(Other, <<Slash, "none">>, None), Get(Rtl, <<Slash, "wifi">>, Owner)}
  \cup {Get(Address, url, None) : url \in {<<Slash, "wifi">>, <<Slash, "flash">>, <<Slash, "style.css">>, LedUrl}}
  \cup {Get(Address, <<Slash, "wifi">>, cred) : cred \in Credentials}
  \cup {[Get(Address, WifiUrl, None) EXCEPT !.method = "OPTIONS"]}
  \cup {Get(Address, SetModeCgi, Owner), Get(Address, StatusCgi, Owner), Get(Address, ConnectCgi, None)}
  \cup {Post(LedCgi, <<Field(LedName, <<d>>)>>) : d \in {48, 49}}
  \cup {Post(LedCgi, <<>>), Post(LedCgi, None)}
  \cup {Post(ConnectCgi, <<Field(EssidName, e), Field(PasswdName, p)>>) : e \in Texts, p \in Texts}

TheCompanions == {<<1>>, <<1, 2>>, <<28, 1>>, <<2, 256, 1>>}
TheModes == {"STA", "AP"}
TheSettings == {[ssid |-> "home", password |-> "key"]}
\* The logins, forms, questions and tables that occur are as the proofs expect them.
ASSUME TextsAssumption ==
  ProperLogins /\ ProperForms /\ ProperNames /\ \A t \in Tables : FormsReach(t)

TheAddr == <<10, 0, 0, 1>>
=============================================================================
