------------------------------- MODULE Portal -------------------------------
(***************************************************************************)
(* A visit to the access point: a client resolves the name of a host, asks *)
(* the address it got for a page, follows redirects and fills in forms.    *)
(* The DNS task (captdns.c), the route table (httpd.c, http_server.c), the *)
(* functions that redirect, ask for a password, take a form or fill a page *)
(* (auth.c, cgiwifi_rtl.c, http_server.c), the start of all these, and a   *)
(* browser around them.                                                    *)
(***************************************************************************)
EXTENDS CaptDns, Pages

CONSTANTS
  Tables,     \* the route tables to consider
  UrlParts,   \* what there is between the slashes of a URL, and the slash
  Files,      \* the URLs with a file in the image, templates included
  Modes, Settings,   \* what the WiFi driver may say
  Users,      \* the users and passwords the application has
  Visits,     \* what a client may ask for first: [method, host, url, form, cred]
  Companions, \* the types of the questions a resolver asks with the one for the address
  ArgLen, SsidLen, PassLen,    \* sizes of buffers: 128, 32, 64
  UserLen, PasswordLen,        \* AUTH_MAX_USER_LEN, AUTH_MAX_PASS_LEN
  None

\* No character is zero, which ends a text in C.
Text == Seq(1..255)
Method == {"GET", "POST", "OPTIONS"}
Url == Seq(UrlParts)
HostName == Seq(Text)
FormField == [name : Text, value : Text]
Credential == [user : Text, pass : Text]

ASSUME VisitsAssumption ==
  /\ Visits \subseteq [method : Method, host : HostName, url : Url,
                      form : {None} \cup Seq(FormField), cred : {None} \cup Credential]
  /\ Users \subseteq Credential /\ None \notin Users

ASSUME UrlsAssumption == {"/", "wifi", "led.tpl", "connecting.html"} \subseteq UrlParts

ASSUME SizesAssumption ==
  /\ UserLen \in Nat /\ PasswordLen \in Nat
  /\ ArgLen \in Nat \ {0} /\ SsidLen \in 0..ArgLen /\ PassLen \in 0..ArgLen

VARIABLES
  start,    \* how many steps of the start were taken
  http,     \* how many steps platHttpServerTask has taken
  mounted,  \* there is an image of files in the flash
  table,    \* the route table
  dns,      \* "none", "socket", "bound": what captdnsTask has
  toDns, toClient,   \* the datagram on its way, NoReply if there is none
  client,   \* the browser: a visit with its phase; a host is the sequence of its labels
  asked,    \* the types of the questions in the last query
  route,    \* the index in the table while a request is looked up
  reply,    \* the answer to the request: [status, location, shown], shown being what the
            \* tokens of the page were replaced by
  led,      \* the state that cgiLed keeps, and the pin
  hits,     \* hitCounter
  stconf    \* what cgiWiFiConnect stored

vars == <<start, http, mounted, table, dns, toDns, toClient, client, asked, route, reply, led, hits,
          stconf>>

-----------------------------------------------------------------------------
(* The routes.  A URL is the sequence of its parts, slashes included. *)

Route(url, cgi) == [url |-> url, wild |-> FALSE, cgi |-> cgi, arg |-> None]
TplRoute(url, tpl) == [url |-> url, wild |-> FALSE, cgi |-> "cgiEspFsTemplate", arg |-> tpl]
RedirectRoute(url, to) == [url |-> url, wild |-> FALSE, cgi |-> "cgiRedirect", arg |-> to]

Slash == "/"
IndexUrl == <<Slash, "index.tpl">>
LedUrl == <<Slash, "led.tpl">>
WifiUrl == <<Slash, "wifi", Slash, "wifi.tpl">>
FlashUrl == <<Slash, "flash", Slash, "index.html">>
TestUrl == <<Slash, "test", Slash, "index.html">>
LedCgi == <<Slash, "led.cgi">>
ConnectCgi == <<Slash, "wifi", Slash, "connect.cgi">>
StatusCgi == <<Slash, "wifi", Slash, "connstatus.cgi">>
SetModeCgi == <<Slash, "wifi", Slash, "setmode.cgi">>

\* builtInUrls; the functions modelled in modules of their own answer with a page.
BuiltInUrls == <<
  RedirectRoute(<<Slash>>, IndexUrl),
  TplRoute(IndexUrl, "tplCounter"),
  TplRoute(LedUrl, "tplLed"),
  Route(LedCgi, "cgiLed"),
  RedirectRoute(<<Slash, "wifi">>, WifiUrl),
  RedirectRoute(<<Slash, "wifi", Slash>>, WifiUrl),
  TplRoute(WifiUrl, "tplWlan"),
  Route(<<Slash, "wifi", Slash, "wifiscan.cgi">>, "page"),
  Route(ConnectCgi, "cgiWiFiConnect"),
  Route(StatusCgi, "cgiWiFiConnStatus"),
  Route(SetModeCgi, "cgiWiFiSetMode"),
  Route(<<Slash, "websocket", Slash, "ws.cgi">>, "page"),
  Route(<<Slash, "websocket", Slash, "echo.cgi">>, "page"),
  RedirectRoute(<<Slash, "flash">>, FlashUrl),
  RedirectRoute(<<Slash, "flash", Slash>>, FlashUrl),
  Route(<<Slash, "flash", Slash, "upload">>, "page"),
  Route(<<Slash, "flash", Slash, "reboot">>, "page"),
  RedirectRoute(<<Slash, "test">>, TestUrl),
  RedirectRoute(<<Slash, "test", Slash>>, TestUrl),
  Route(<<Slash, "test", Slash, "test.cgi">>, "page"),
  [url |-> <<>>, wild |-> TRUE, cgi |-> "cgiEspFsHook", arg |-> None]>>

\* The routes an application puts before its own for a captive portal, as the library's README
\* describes cgiRedirectToHostname, and for a password (ROUTE_AUTH). The route that is commented
\* out in builtInUrls is another one: its function, cgiRedirectApClientToHostname, passes every
\* request on in this port.
CaptiveRoutes(host, protected) == <<
  [url |-> <<>>, wild |-> TRUE, cgi |-> "cgiRedirectToHostname", arg |-> host],
  [url |-> protected, wild |-> TRUE, cgi |-> "authBasic", arg |-> None]>>

\* The tokens of the application's templates.
Tokens ==
  [tplCounter |-> {"counter"}, tplLed |-> {"ledstate"},
   tplWlan |-> {"currSsid", "WiFiMode", "WiFiapwarn", "WiFiPasswd"}]

\* What the functions of a route expect of it.
IsRoute(r) ==
  /\ r \in [url : Url, wild : BOOLEAN, cgi : STRING, arg : {r.arg}]
  /\ r.cgi = "cgiRedirect" => r.arg \in Url
  /\ r.cgi = "cgiRedirectToHostname" => r.arg \in HostName
  /\ r.cgi = "cgiEspFsTemplate" => r.arg \in DOMAIN Tokens

ASSUME TablesAssumption ==
  \A t \in Tables :
    Len(t) \in Nat /\ DOMAIN t = 1..Len(t) /\ \A k \in DOMAIN t : IsRoute(t[k])

Matches(r, url) == r.url = url \/ (r.wild /\ IsPrefix(r.url, url))

\* The place of the next route that matches, one past the end of the table if none does.
NextRoute(i, url) ==
  LET found == {k \in i..Len(table) : Matches(table[k], url)}
  IN IF found = {} THEN Len(table) + 1 ELSE CHOOSE k \in found : \A j \in found : k <= j

-----------------------------------------------------------------------------
(* What the functions answer *)

Nothing == [token \in {} |-> ""]
Page(status) == [status |-> status, location |-> None, shown |-> Nothing]
ShowsPage(shown) == [Page(200) EXCEPT !.shown = shown]
RedirectToHost(host, url) ==
  [status |-> 302, location |-> [host |-> host, url |-> url], shown |-> Nothing]
RedirectTo(url) == RedirectToHost(None, url)
\* Nothing was sent yet.
NoAnswer == Page(0)

HostText(host) == Loop([label \in Text |-> [s \in Seq(Byte) |-> Dotted(s, label)]], <<>>, host)

\* The host is taken for an address if it is longer than 8 and has only digits and dots.
IsIp(text) == Len(text) > 8 /\ \A k \in DOMAIN text : text[k] \in {Dot} \cup 48..57

\* Mutant.
KnowsHostNever(host, name) == IsIp(HostText(host))

KnowsHost(host, name) == IsIp(HostText(host)) \/ HostText(host) = HostText(name)

\* The functions redirect to a relative URL, which the browser takes from the page's own.
NextTo(url, file) == Append(SubSeq(url, 1, Len(url) - 1), file)

AuthorizationLine == Authorization \o <<Colon, Space>> \o Basic \o <<Space>>

\* The header lines of the client's request that matter here.
HeadLines(cred) ==
  IF cred = None THEN <<>>
  ELSE <<AuthorizationLine \o Base64Encode(cred.user \o <<Colon>> \o cred.pass)>>

\* HTTPD_CGI_NOTFOUND or HTTPD_CGI_AUTHENTICATED: the next route is tried.
PassesOn(r) ==
  CASE r.cgi = "cgiRedirectToHostname" -> KnowsHost(client.host, r.arg)
    [] r.cgi = "authBasic" ->
         Authenticates(HeadLines(client.cred), Users, UserLen, PasswordLen)
    [] r.cgi \in {"cgiEspFsHook", "cgiEspFsTemplate"} -> ~mounted \/ client.url \notin Files
    [] OTHER -> FALSE

\* tplWlan asks the driver again for each token, and puts nothing if there is no memory.
WlanTexts(token) ==
  {""} \cup {tplWlan(token, mode, setting) : mode \in Modes, setting \in Settings}

Filled(tpl) ==
  CASE tpl = "tplWlan" ->
         {f \in [Tokens[tpl] -> UNION {WlanTexts(token) : token \in Tokens[tpl]}] :
            \A token \in Tokens[tpl] : f[token] \in WlanTexts(token)}
    [] tpl = "tplLed" -> {[token \in Tokens[tpl] |-> tplLed(token, led.pin)]}
    [] OTHER -> {[token \in Tokens[tpl] |-> tplCounter(token, hits)]}

\* The mode that is asked for is not set.
SetModeAnswer == RedirectTo(<<Slash, "wifi">>)

StatusAnswers ==
  {ShowsPage([status |-> ConnStatus(connTryStatus, connected)]) : connected \in BOOLEAN}

Answers(r) ==
  CASE r.cgi = "cgiRedirect" -> {RedirectTo(r.arg)}
    [] r.cgi = "cgiRedirectToHostname" -> {RedirectToHost(r.arg, <<Slash>>)}
    [] r.cgi = "authBasic" -> {Page(401)}
    [] r.cgi = "cgiLed" -> {RedirectTo(NextTo(client.url, "led.tpl"))}
    [] r.cgi = "cgiWiFiConnect" -> {RedirectTo(NextTo(client.url, "connecting.html"))}
    [] r.cgi = "cgiWiFiSetMode" -> {SetModeAnswer}
    [] r.cgi = "cgiWiFiConnStatus" -> StatusAnswers
    [] r.cgi = "cgiEspFsTemplate" -> {ShowsPage(shown) : shown \in Filled(r.arg)}
    [] OTHER -> {Page(200)}

\* These functions allocate; if they cannot, they are done without having sent anything.
Allocates ==
  {"cgiRedirectToHostname", "cgiWiFiConnect", "cgiWiFiSetMode", "cgiWiFiConnStatus", "page"}

-----------------------------------------------------------------------------
(* Forms *)

\* How a browser writes a character of a form.
HexDigit(n) == IF n < 10 THEN 48 + n ELSE 65 + n - 10
PlainChar == (48..57) \cup (65..90) \cup (97..122)
EncodedChar(c) ==
  IF c \in PlainChar THEN <<c>>
  ELSE IF c = Space THEN <<Plus>>
  ELSE <<PercentSign, HexDigit(c \div 16), HexDigit(c % 16)>>
Encoded(text) == Loop([c \in Byte |-> [s \in Seq(Byte) |-> s \o EncodedChar(c)]], <<>>, text)
FieldText(field) == field.name \o <<EqualsSign>> \o Encoded(field.value)
AndField(s, field) == (IF s = <<>> THEN s ELSE Append(s, Ampersand)) \o FieldText(field)
FormText(form) ==
  Loop([field \in FormField |-> [s \in Seq(Byte) |-> AndField(s, field)]], <<>>, form)

Arg(name, buffLen) ==
  IF client.form = None THEN NotFoundText ELSE FindArg(FormText(client.form), name, buffLen)

First(text, n) == SubSeq(text, 1, IF Len(text) < n THEN Len(text) ELSE n)

LedName == <<108, 101, 100>>
EssidName == <<101, 115, 115, 105, 100>>
PasswdName == <<112, 97, 115, 115, 119, 100>>

\* The buttons of the page send a digit.
Atoi(text) == IF text[1] \in 48..57 THEN text[1] - 48 ELSE 0

\* cgiLed: the buffer was not initialised if there is no such field.
SetLed ==
  LET arg == Arg(LedName, ArgLen)
      values == CASE arg.len = -1 -> {0, 1}
                  [] arg.len = 0 -> {}
                  [] OTHER -> {Atoi(arg.text)}
  IN led' \in IF values = {} THEN {led} ELSE {[state |-> v, pin |-> ioLed(v)] : v \in values}

\* Mutant.
SetStationShort ==
  LET essid == Arg(EssidName, ArgLen).text
      passwd == Arg(PasswdName, ArgLen).text
  IN stconf' = [ssid |-> First(essid, SsidLen - 1), password |-> First(passwd, PassLen),
                password_len |-> Len(passwd)]

\* cgiWiFiConnect: the length of the password is not cut, the copy of it is.
SetStation ==
  LET essid == Arg(EssidName, ArgLen).text
      passwd == Arg(PasswdName, ArgLen).text
  IN stconf' = [ssid |-> First(essid, SsidLen), password |-> First(passwd, PassLen),
                password_len |-> Len(passwd)]

-----------------------------------------------------------------------------
(* The state at power-on *)

NoStation == [ssid |-> <<>>, password |-> <<>>, password_len |-> 0]

Init ==
  /\ start = 0 /\ http = 0 /\ mounted \in BOOLEAN
  /\ table \in Tables
  /\ dns = "none" /\ toDns = NoReply /\ toClient = NoReply /\ asked = <<>>
  /\ \E v \in Visits : client = [phase |-> "resolve", method |-> v.method, host |-> v.host,
                                 url |-> v.url, form |-> v.form, cred |-> v.cred]
  /\ route = 0 /\ reply = NoAnswer /\ hits = 0 /\ stconf = NoStation
  /\ \E level \in {0, 1} : led = [state |-> 0, pin |-> level]

web == <<start, http, mounted, table, route, reply, led, hits, stconf>>

-----------------------------------------------------------------------------
(* The start: user_init_thrd, user_start *)

StartSteps ==
  <<"wifi_init", "console_init", "gpio_init", "captdnsInit", "espFsInit", "httpdInit">>
Started(step) == \E k \in 1..start : StartSteps[k] = step

StartUp ==
  /\ start < Len(StartSteps)
  /\ start' = start + 1
  /\ led' = IF StartSteps[start'] = "gpio_init" THEN [led EXCEPT !.pin = LedOff] ELSE led
  /\ UNCHANGED <<http, mounted, table, dns, toDns, toClient, client, asked, route, reply, hits,
                 stconf>>

\* platHttpServerTask, which httpdPlatInit creates, tries each step until it succeeds.
HttpSteps == <<"xSemaphoreCreateRecursiveMutex", "socket", "bind", "listen">>

HttpTaskStep ==
  /\ Started("httpdInit") /\ http < Len(HttpSteps)
  /\ http' = http + 1
  /\ UNCHANGED <<start, mounted, table, dns, toDns, toClient, client, asked, route, reply, led,
                 hits, stconf>>

\* captdnsInit creates captdnsTask.
CaptdnsRuns == Started("captdnsInit")

-----------------------------------------------------------------------------
(* The DNS task *)

CreateSocket == /\ CaptdnsRuns /\ dns = "none" /\ dns' = "socket"
                /\ UNCHANGED <<web, toDns, toClient, client, asked>>
BindSocket == /\ dns = "socket" /\ dns' = "bound"
              /\ UNCHANGED <<web, toDns, toClient, client, asked>>

\* Mutant.
CaptdnsRecvShort ==
  /\ dns = "bound" /\ toDns # NoReply
  /\ toClient' = SubSeq(Reply(toDns), 1, Len(toDns)) /\ toDns' = NoReply
  /\ UNCHANGED <<web, dns, client, asked>>

CaptdnsRecv ==
  /\ dns = "bound" /\ toDns # NoReply
  /\ toClient' = Reply(toDns) /\ toDns' = NoReply
  /\ UNCHANGED <<web, dns, client, asked>>

\* A datagram is lost, or there is no one to take it.
Lost == /\ toDns # NoReply \/ toClient # NoReply
        /\ toDns' = NoReply /\ toClient' = NoReply /\ asked' = <<>>
        /\ UNCHANGED <<web, dns, client>>

-----------------------------------------------------------------------------
(* The client *)

LabelBytes(label) == <<Len(label)>> \o label
Labels(host) == Loop([label \in Text |-> [s \in Seq(Nat) |-> s \o LabelBytes(label)]], <<>>, host)
NameBytes(host) == Labels(host) \o <<0>>

\* The name of a question after the first may be a pointer to the first.
Question(host, type, isPointer) ==
  (IF isPointer THEN <<192, HeaderSize>> ELSE NameBytes(host))
    \o <<type \div 256, type % 256, 0, QCLASS_IN>>
QuestionsStep(host, isPointer) ==
  [type \in Type16 |-> [s \in Seq(Nat) |-> s \o Question(host, type, isPointer /\ s # <<>>)]]
Questions(host, types, isPointer) == Loop(QuestionsStep(host, isPointer), <<>>, types)

Header(flags, qdcount, ancount) ==
  <<0, 7, flags, 0, qdcount \div 256, qdcount % 256, ancount \div 256, ancount % 256, 0, 0, 0, 0>>

Query(host, types, isPointer) ==
  Header(1, Len(types), 0) \o Questions(host, types, isPointer)

\* Also when there was no answer to the last query.
SendQuery ==
  /\ client.phase = "resolve" /\ ~IsIp(HostText(client.host))
  /\ toDns = NoReply /\ toClient = NoReply
  /\ \E types \in Companions, isPointer \in BOOLEAN :
       /\ asked' = types
       /\ toDns' = Query(client.host, types, isPointer)
  /\ UNCHANGED <<web, dns, toClient, client>>

\* The address is the server's own, whatever the name.
Resolved ==
  /\ client.phase = "resolve"
  /\ toClient # NoReply \/ IsIp(HostText(client.host))
  /\ toClient' = NoReply /\ toDns' = NoReply /\ asked' = <<>>
  /\ client' = [client EXCEPT !.phase = "request"]
  /\ UNCHANGED <<web, dns>>

\* A redirect is followed with GET.
Follow ==
  LET to == reply.location
  IN /\ client.phase = "answered" /\ to # None
     /\ client' = [client EXCEPT !.phase = IF to.host = None THEN "request" ELSE "resolve",
                                 !.host = IF to.host = None THEN @ ELSE to.host,
                                 !.url = to.url, !.form = None, !.method = "GET"]
     /\ UNCHANGED <<web, dns, toDns, toClient, asked>>

-----------------------------------------------------------------------------
(* The server: httpdProcessRequest *)

\* A client that asks before this is refused, and asks again.
Listening == http = Len(HttpSteps)

network == <<start, http, mounted, table, dns, toDns, toClient, asked>>

Answered(r) == reply' = r /\ client' = [client EXCEPT !.phase = "answered"]

\* A preflight is answered before any route is looked up.
Preflight ==
  /\ Listening /\ client.phase = "request" /\ client.method = "OPTIONS"
  /\ Answered(Page(200))
  /\ UNCHANGED <<network, route, led, hits, stconf>>

StartRouting ==
  /\ Listening /\ client.phase = "request" /\ client.method # "OPTIONS"
  /\ route' = NextRoute(1, client.url)
  /\ client' = [client EXCEPT !.phase = "routing"]
  /\ UNCHANGED <<network, reply, led, hits, stconf>>

CgiNotFound ==
  /\ client.phase = "routing" /\ route > Len(table)
  /\ Answered(Page(404))
  /\ UNCHANGED <<network, route, led, hits, stconf>>

Routed == client.phase = "routing" /\ route <= Len(table)

\* A file that cannot be opened for want of memory counts as not found.
TryNextRoute ==
  /\ Routed
  /\ PassesOn(table[route]) \/ table[route].cgi \in {"cgiEspFsHook", "cgiEspFsTemplate"}
  /\ route' = NextRoute(route + 1, client.url)
  /\ UNCHANGED <<network, client, reply, led, hits, stconf>>

RunCgi ==
  /\ Routed /\ ~PassesOn(table[route])
  /\ \E r \in Answers(table[route]) : Answered(r)
  /\ hits' = IF table[route].cgi = "cgiEspFsTemplate"
             THEN (IF table[route].arg = "tplCounter" THEN Hits("counter", hits) ELSE hits)
             ELSE hits
  /\ IF table[route].cgi = "cgiLed" THEN SetLed ELSE UNCHANGED led
  /\ IF table[route].cgi = "cgiWiFiConnect" THEN SetStation ELSE UNCHANGED stconf
  /\ UNCHANGED <<network, route>>

\* Where nothing is sent no sent callback comes, which is where a connection is closed: the
\* client is left waiting.
CgiNoMemory ==
  /\ Routed /\ ~PassesOn(table[route]) /\ table[route].cgi \in Allocates
  /\ client' = [client EXCEPT !.phase = "unanswered"]
  /\ UNCHANGED <<network, route, reply, led, hits, stconf>>

ServerStep == Preflight \/ StartRouting \/ CgiNotFound \/ TryNextRoute \/ RunCgi \/ CgiNoMemory

Next ==
  \/ StartUp \/ HttpTaskStep
  \/ CreateSocket \/ BindSocket \/ CaptdnsRecv \/ Lost
  \/ SendQuery \/ Resolved \/ Follow \/ ServerStep

\* captdnsTask retries socket and bind until they succeed; a datagram that is sent again
\* and again is received and answered at last.
\* A datagram can be answered, a request can be taken further.
DnsCanAnswer == dns = "bound" /\ toDns # NoReply
ServerCanStep == Listening /\ client.phase \in {"request", "routing"}

\* The last two are SF_vars(CaptdnsRecv) and WF_vars(ServerStep), with the conditions under
\* which these are enabled written out.
Fairness ==
  /\ WF_vars(StartUp) /\ WF_vars(HttpTaskStep) /\ WF_vars(CreateSocket) /\ WF_vars(BindSocket)
  /\ SF_vars(Resolved) /\ WF_vars(SendQuery) /\ WF_vars(Follow)
  /\ []<>DnsCanAnswer => []<><<CaptdnsRecv>>_vars
  /\ []<>~ServerCanStep \/ []<><<ServerStep>>_vars

Spec == Init /\ [][Next]_vars /\ Fairness

-----------------------------------------------------------------------------
(* Properties *)

\* What a question is answered with: the name that was asked, the server's own address.
Record(host, type) ==
  CASE type = QTYPE_A -> NameBytes(host) \o <<0, 1, 0, 1, 0, 0, 0, 0, 0, 4>> \o MyAddr
    [] type = QTYPE_NS -> NameBytes(host) \o <<0, 2, 0, 1, 0, 0, Junk, Junk, 0, 4>> \o NsName
    [] type = QTYPE_URI ->
         NameBytes(host) \o <<1, 0, 1, 0, 0, 0, Junk, Junk, 0, 20>> \o <<0, 10, 0, 1>> \o Uri
    [] OTHER -> <<>>

Records(host, types) ==
  Loop([type \in Type16 |-> [s \in Seq(Nat) |-> s \o Record(host, type)]], <<>>, types)

AnswerFor(host, types, isPointer) ==
  LET known == {k \in DOMAIN types : types[k] \in {QTYPE_A, QTYPE_NS, QTYPE_URI}}
  IN Header(129, Len(types), Cardinality(known)) \o Questions(host, types, isPointer)
       \o Records(host, types)

\* A reply repeats all questions and answers each one the server knows, in order, with the
\* name that was asked, also where the name was given as a pointer (captdnsRecv).
AnswersName ==
  toClient # NoReply =>
    \E isPointer \in BOOLEAN : toClient = AnswerFor(client.host, asked, isPointer)

\* Every visit ends with a page, unless a function had no memory and left the client without
\* any answer: a lost datagram is asked again, and no redirects go on in a circle
\* (httpdProcessRequest, cgiRedirect, cgiRedirectToHostname).
VisitEnds ==
  [](client.phase # "unanswered")
    => <>(client.phase = "answered" /\ reply.status # 0 /\ reply.location = None)

Protected(url) == \E k \in DOMAIN table : table[k].cgi = "authBasic" /\ Matches(table[k], url)

\* A route below authBasic is reached with the right name and password and only with them,
\* whatever characters they have (authBasic, base64_decode, httpdGetHeader).
OnlyWithPassword ==
  client.phase = "answered" /\ client.method # "OPTIONS" =>
    /\ reply.status = 401 => Protected(client.url) /\ client.cred \notin Users
    /\ (reply.status = 200 \/ stconf # NoStation) /\ Protected(client.url)
         => client.cred \in Users

\* What a field of a form is for.
Kept(field) ==
  CASE client.url = ConnectCgi /\ field.name = EssidName ->
         stconf.ssid = First(field.value, SsidLen)
    [] client.url = ConnectCgi /\ field.name = PasswdName ->
         stconf.password = First(field.value, PassLen)
    [] client.url = LedCgi /\ field.name = LedName -> led.state = field.value[1] - 48
    [] OTHER -> TRUE

FieldsKept ==
  client.phase = "answered" /\ client.form # None /\ reply.status = 302
    => \A k \in DOMAIN client.form : Kept(client.form[k])

\* Also the page that is shown after the form, which asks the pin.
LedPageShows ==
  client.phase = "answered" /\ "ledstate" \in DOMAIN reply.shown
    => reply.shown["ledstate"] = IF led.state # 0 THEN "on" ELSE "off"

\* A form leaves what was typed into it, whatever the characters, cut to the room there is,
\* and the page of the LED shows the state that was last set, off after the start.
\* (httpdFindArg, httpdUrlDecode, cgiLed, ioLed, tplLed, cgiWiFiConnect)
FormAsTyped == FieldsKept /\ LedPageShows

-----------------------------------------------------------------------------
(* What the functions on texts do to the texts that occur, and what route tables and    *)
(* forms look like. Proofs start from these; the instances satisfy them.                *)

Login(cred) == cred.user \o <<Colon>> \o cred.pass
LoginRoom == UserLen + PasswordLen + 2

\* No name has a colon in it, and the names and passwords there are fit in the buffers.
ProperLogins ==
  /\ \A cred \in Users \cup ({v.cred : v \in Visits} \ {None}) : Colon \notin Range(cred.user)
  /\ \A u \in Users : Len(Login(u)) <= LoginRoom

\* No two fields of a form have the same name, and the names are letters and digits.
ProperForms ==
  \A v \in Visits : v.form # None =>
    \A j, k \in DOMAIN v.form :
      /\ Range(v.form[k].name) \subseteq PlainChar
      /\ v.form[j].name = v.form[k].name => j = k

\* The names that are asked for.
Names ==
  {v.host : v \in Visits}
    \cup UNION {{t[k].arg : k \in {j \in DOMAIN t : t[j].cgi = "cgiRedirectToHostname"}} : t \in Tables}

\* Names have labels of 1 to 63 characters without a dot, and the answers to what is asked
\* have room in the buffer for a reply.
ProperNames ==
  /\ \A host \in Names :
       host # <<>> /\ \A k \in DOMAIN host : Len(host[k]) \in 1..63 /\ Dot \notin Range(host[k])
  /\ \A types \in Companions : types \in Seq(Type16) /\ Len(types) \in Type16
  /\ \A host \in Names, types \in Companions, isPointer \in BOOLEAN :
       Len(AnswerFor(host, types, isPointer)) <= DnsLen

\* Routes that a client cannot be kept from by a password that is asked for below them.
OnlyRedirect == {"cgiRedirect", "cgiRedirectToHostname", "authBasic"}

\* The password for a URL is asked for before anything but a redirect is done for it.
AuthFirst(t) ==
  \A j, k \in DOMAIN t :
    j < k /\ t[k].cgi = "authBasic" /\ t[j].cgi \notin OnlyRedirect
      => \A url \in Url : ~(Matches(t[j], url) /\ Matches(t[k], url))

\* Where there is a password at all, the station cannot be set without it.
SettingsBelowAuth(t) ==
  (\E k \in DOMAIN t : t[k].cgi = "authBasic") =>
    \A j \in DOMAIN t, url \in Url :
      t[j].cgi = "cgiWiFiConnect" /\ Matches(t[j], url)
        => \E k \in DOMAIN t : t[k].cgi = "authBasic" /\ Matches(t[k], url)

\* The forms that are sent, to an address, and what may answer them with a redirect.
FormsReach(t) ==
  /\ \A v \in Visits : v.form # None => IsIp(HostText(v.host))
  /\ \A v \in Visits : v.form # None /\ v.url = LedCgi =>
       \A k \in DOMAIN v.form : v.form[k].name = LedName =>
         Len(v.form[k].value) = 1 /\ v.form[k].value[1] \in 48..57
  /\ \A k \in DOMAIN t :
       /\ Matches(t[k], ConnectCgi) => t[k].cgi \notin {"cgiRedirect", "cgiLed", "cgiWiFiSetMode"}
       /\ Matches(t[k], LedCgi) => t[k].cgi \notin {"cgiRedirect", "cgiWiFiConnect", "cgiWiFiSetMode"}

=============================================================================
